------------------------------ MODULE DataReset ------------------------------
(***************************************************************************)
(* The reset of the application's data: the application prepares it and    *)
(* may have to cancel it, the next start recovers it, and so does the      *)
(* uninstaller's reset.  The directory is renamed to a tombstone, then to  *)
(* a disposal directory, and removed by a process of its own, which lives  *)
(* on when the one that started it dies.  Each step of a process is what   *)
(* it does from one await to the next.                                     *)
(* app/src/main/data/*.ts, app/src/main/app/application-reset.ts,          *)
(* application-startup-foundation.ts, bootstrap.ts, helper owned_tree.rs.  *)
(***************************************************************************)
EXTENDS ResetDisk

CONSTANTS
  MaxFaults,            \* bound: crashes, losses of power and failed operations
  BrowserMakesRoot      \* may the browser open files in a root that is missing

ASSUME FaultsAssumption == MaxFaults \in Nat

VARIABLES
  proc,        \* the two processes that reset or recover
  remover,     \* the removal each has started, and one whose parent has died
  faults, nonces,
  asked,       \* directories whose reset was asked for, and not cancelled
  completed,   \* directories whose reset was reported complete
  revived      \* those that a loss of power on Windows has brought back to a reset

history == <<asked, completed, revived>>
resetVars == <<proc, remover, faults, nonces, history>>
vars == <<diskVars, resetVars>>

Processes == {"app", "uninstall"}
Idle == [stage |-> "none", dir |-> None, nonce |-> 0]
Stopped == [at |-> "off", journal |-> NoJournal, dir |-> None, late |-> FALSE, prepared |-> FALSE, again |-> FALSE]

Init ==
  /\ DiskInit
  /\ proc = [p \in Processes |-> Stopped]
  /\ remover = [s \in Processes \cup {"orphan"} |-> Idle]
  /\ faults = 0 /\ nonces = disk.journal.nonce
  /\ asked = IF disk.journal.version = 3 THEN {disk.journal.dir} ELSE {}
  /\ completed = {} /\ revived = {}

\* Control of process p reaches the step named at.
Goto(p, at) == proc' = [proc EXCEPT ![p] = IF at = "off" THEN Stopped ELSE [@ EXCEPT !.at = at]]
Rest == UNCHANGED <<remover, faults, nonces, history>>

\* Mutant of Reject: a start whose recovery failed goes on.
RejectIgnored(p) ==
  Goto(p, IF p = "app" /\ proc[p].at \notin {"verify", "writeJournal", "syncWrite", "draining", "cancel",
                "cancelRemove", "cancelSync", "cancelCheck", "cancelRestore", "syncRestore"} THEN "makeRoot" ELSE "off")

\* The call of process p rejects.  A start fails; the uninstaller's reset is
\* tried once more; a preparation is cancelled, a cancellation given up, and
\* neither is followed by anything once the deadline has passed.
Preparing == {"verify", "writeJournal", "syncWrite", "draining"}
Cancelling == {"cancel", "cancelRemove", "cancelSync", "cancelCheck", "cancelRestore", "syncRestore"}
Reject(p) ==
  LET own == proc[p] IN
  proc' = [proc EXCEPT ![p] =
    CASE p = "uninstall" /\ own.again -> Stopped
      [] p = "uninstall" /\ ~own.again -> [Stopped EXCEPT !.at = "read", !.again = TRUE]
      [] p = "app" /\ own.at \in Preparing /\ ~own.late -> [own EXCEPT !.at = "cancel"]
      [] p = "app" /\ (own.at \in Cancelling \/ own.late) -> [own EXCEPT !.at = "quitting"]
      [] OTHER -> Stopped]
----------------------------------------------------------------------------
(* Recovery                                                                *)

\* The process goes on after recoverPendingReset: a start makes the root
\* and its marker; the uninstaller's reset is done, or has to be prepared.
AfterRecovery(p, recovered) ==
  IF p = "app" THEN "makeRoot"
  ELSE IF recovered \/ proc[p].prepared \/ At(Root) = None THEN "off" ELSE "verify"

\* Mutant of Read: a journal of version 3 is dropped, like one of version 2.
ReadDrops(p) ==
  /\ proc[p].at = "read" /\ Rest
  /\ IF disk.journal.version = 4
     THEN proc' = [proc EXCEPT ![p].journal = disk.journal, ![p].at = "inspect"] /\ Keep
     ELSE Goto(p, AfterRecovery(p, FALSE)) /\ Become(Journaled(NoJournal))

\* #readJournal, and the earlier versions it decodes.
Read(p) ==
  /\ proc[p].at = "read" /\ Rest
  /\ LET journal == disk.journal
         current == [journal EXCEPT !.version = 4]
         held == [proc EXCEPT ![p].journal = current]
     IN CASE journal.version = 0 -> Goto(p, AfterRecovery(p, FALSE)) /\ Keep
          [] journal.version = 2 -> Goto(p, "syncLegacy") /\ Become(Journaled(NoJournal))
          [] journal.version = 3 ->
               IF At(Disposal(journal.nonce)) # None THEN Reject(p) /\ Keep
               ELSE proc' = [held EXCEPT ![p].at = "syncMigrated"] /\ Become(Journaled(current))
          [] OTHER -> proc' = [held EXCEPT ![p].at = "inspect"] /\ Keep

\* recoverReset decides by what it finds: at most one of the three roots,
\* and one that the phase allows; a live root must be the recorded one.
Inspect(p) ==
  /\ proc[p].at = "inspect" /\ Rest /\ Keep
  /\ LET journal == proc[p].journal
         live == At(Root) IN LET
         tombstone == At(Tombstone(journal.nonce)) IN LET
         disposal == At(Disposal(journal.nonce)) IN
     IF \/ Cardinality({path \in {Root, Tombstone(journal.nonce), Disposal(journal.nonce)} : At(path) # None}) > 1
        \/ journal.phase = "disposal-pending" /\ live # None
        \/ journal.phase = "rename-pending" /\ disposal # None
        \/ live # None /\ (live # journal.dir \/ disk.content[live] # "owned")
        \/ \E other \in {tombstone, disposal} : other # None /\ other # journal.dir
     THEN Reject(p)
     ELSE Goto(p, IF live # None THEN "renameRoot" ELSE "tombstone")

\* durableRename, without its synchronisation.
Moves(p, from, to, at) ==
  IF At(from) = None \/ At(to) # None THEN Reject(p) /\ Keep
  ELSE Goto(p, at) /\ Rename(from, to)

\* Windows refuses to rename the root while the browser has files of it open,
\* at any start of the application; the uninstaller's reset has given the
\* browser another directory.
RootHeldOpen ==
  /\ platform = "win32" /\ proc["app"].at = "renameRoot" /\ Rest
  /\ Reject("app") /\ Keep

RenameRoot(p) ==
  /\ proc[p].at = "renameRoot" /\ Rest
  /\ Moves(p, Root, Tombstone(proc[p].journal.nonce), "syncRoot")

\* What was renamed is not what was checked: it is put back, on Windows and
\* if nothing took its place, and the reset stays pending.
CheckRenamed(p, from, to, at) ==
  LET moved == At(to) IN
  IF moved = proc[p].journal.dir THEN Goto(p, at) /\ Keep
  ELSE /\ Reject(p)
       /\ IF moved # None /\ At(from) = None /\ platform = "win32" THEN Rename(to, from) ELSE Keep

CheckTombstone(p) ==
  /\ proc[p].at = "checkTombstone" /\ Rest
  /\ CheckRenamed(p, Root, Tombstone(proc[p].journal.nonce), "tombstone")

\* The directory at a path is looked at twice before it is acted on; only
\* the first time may it be missing.
LookAt(p, path, missing, found) ==
  /\ Rest /\ Keep
  /\ LET here == At(path) IN
     IF here = None /\ missing # "off" THEN Goto(p, missing)
     ELSE IF here # proc[p].journal.dir THEN Reject(p)
     ELSE Goto(p, found)

LookAtTombstone(p) ==
  /\ proc[p].at = "tombstone"
  /\ LookAt(p, Tombstone(proc[p].journal.nonce), "disposal", "tombstoneAgain")
\* Mutant of LookAtTombstoneAgain: the phase is not written.
LookAtTombstoneOnce(p) ==
  /\ proc[p].at = "tombstoneAgain"
  /\ LookAt(p, Tombstone(proc[p].journal.nonce), "off", "renameTombstone")
LookAtTombstoneAgain(p) ==
  /\ proc[p].at = "tombstoneAgain"
  /\ LookAt(p, Tombstone(proc[p].journal.nonce), "off",
            IF proc[p].journal.phase = "disposal-pending" THEN "renameTombstone" ELSE "writePhase")

WritePhase(p) ==
  /\ proc[p].at = "writePhase" /\ Rest
  /\ LET journal == [proc[p].journal EXCEPT !.phase = "disposal-pending"] IN
     /\ proc' = [proc EXCEPT ![p].at = "syncPhase", ![p].journal = journal]
     /\ Become(Journaled(journal))

RenameTombstone(p) ==
  /\ proc[p].at = "renameTombstone" /\ Rest
  /\ Moves(p, Tombstone(proc[p].journal.nonce), Disposal(proc[p].journal.nonce), "syncDisposal")

CheckDisposal(p) ==
  /\ proc[p].at = "checkDisposal" /\ Rest
  /\ CheckRenamed(p, Tombstone(proc[p].journal.nonce), Disposal(proc[p].journal.nonce), "disposal")

LookAtDisposal(p) ==
  /\ proc[p].at = "disposal"
  /\ LookAt(p, Disposal(proc[p].journal.nonce), "final", "disposalAgain")
LookAtDisposalAgain(p) ==
  /\ proc[p].at = "disposalAgain"
  /\ LookAt(p, Disposal(proc[p].journal.nonce), "off", "launch")

\* createNativeOwnedTreeRemoval: the helper is started with the path and the
\* identity, and may not survive its time limit.
LaunchRemover(p) ==
  /\ proc[p].at = "launch" /\ Goto(p, "removing") /\ Keep
  /\ remover' = [remover EXCEPT ![p] = [stage |-> "opening", dir |-> proc[p].journal.dir,
                                        nonce |-> proc[p].journal.nonce]]
  /\ UNCHANGED <<faults, nonces, history>>

RemoverAnswers(p) ==
  /\ proc[p].at = "removing" /\ remover[p].stage \in {"done", "failed"} /\ Keep
  /\ IF remover[p].stage = "failed" THEN Reject(p) ELSE Goto(p, "removed")
  /\ remover' = [remover EXCEPT ![p] = Idle]
  /\ UNCHANGED <<faults, nonces, history>>

Removed(p) ==
  /\ proc[p].at = "removed" /\ Rest /\ Keep
  /\ IF At(Disposal(proc[p].journal.nonce)) # None THEN Reject(p) ELSE Goto(p, "syncRemoval")

\* Completion is not published while any of the three exists.
FinalCheck(p) ==
  /\ proc[p].at = "final" /\ Rest /\ Keep
  /\ IF \E path \in {Root, Tombstone(proc[p].journal.nonce), Disposal(proc[p].journal.nonce)} : At(path) # None
     THEN Reject(p) ELSE Goto(p, "removeJournal")

RemoveJournal(p) ==
  /\ proc[p].at = "removeJournal" /\ Rest
  /\ Goto(p, "syncJournal") /\ Become(Journaled(NoJournal))

Complete(p) ==
  /\ proc[p].at = "syncJournal" /\ SyncDirectory
  /\ Goto(p, AfterRecovery(p, TRUE))
  /\ completed' = completed \cup {proc[p].journal.dir}
  /\ UNCHANGED <<remover, faults, nonces, asked, revived>>

\* A synchronisation and what follows it.
Syncs == [syncMigrated |-> "inspect", syncRoot |-> "checkTombstone",
          syncPhase |-> "renameTombstone", syncDisposal |-> "checkDisposal", syncRemoval |-> "final",
          cancelSync |-> "cancelCheck"]
Sync(p) ==
  /\ Rest /\ SyncDirectory
  /\ \/ proc[p].at \in DOMAIN Syncs /\ Goto(p, Syncs[proc[p].at])
     \/ proc[p].at = "syncLegacy" /\ Goto(p, AfterRecovery(p, FALSE))

Recover(p) ==
  \/ Read(p) \/ Inspect(p) \/ RenameRoot(p) \/ CheckTombstone(p)
  \/ LookAtTombstone(p) \/ LookAtTombstoneAgain(p) \/ WritePhase(p) \/ RenameTombstone(p)
  \/ CheckDisposal(p) \/ LookAtDisposal(p) \/ LookAtDisposalAgain(p)
  \/ LaunchRemover(p) \/ RemoverAnswers(p) \/ Removed(p) \/ FinalCheck(p)
  \/ RemoveJournal(p) \/ Complete(p) \/ Sync(p)
----------------------------------------------------------------------------
(* Preparation and cancellation                                            *)

\* prepareReset verifies the root; the paths of a fresh nonce are free.
Verify(p) ==
  /\ proc[p].at = "verify" /\ Rest /\ Keep
  /\ LET live == At(Root) IN
     IF live = None \/ disk.content[live] # "owned" THEN Reject(p)
     ELSE proc' = [proc EXCEPT ![p].at = "writeJournal", ![p].dir = live]

WriteJournal(p) ==
  /\ proc[p].at = "writeJournal" /\ nonces < MaxResets
  /\ nonces' = nonces + 1
  /\ Become(Journaled([version |-> 4, nonce |-> nonces', dir |-> proc[p].dir, phase |-> "rename-pending"]))
  /\ asked' = asked \cup {proc[p].dir}
  /\ Goto(p, "syncWrite")
  /\ UNCHANGED <<remover, faults, completed, revived>>

Prepared(p) ==
  /\ proc[p].at = "syncWrite" /\ Rest /\ SyncDirectory
  /\ proc' = [proc EXCEPT ![p].prepared = TRUE,
       ![p].at = IF p = "uninstall" THEN "read" ELSE IF proc[p].late THEN "quitting" ELSE "draining"]

\* Every critical drain has settled: the renderer is told, and the
\* application relaunches.
Drained ==
  /\ proc["app"].at = "draining" /\ Rest /\ Keep
  /\ Goto("app", "quitting")

\* cancelPreparedReset: nothing may have been renamed yet.
Moved(journal) ==
  journal # NoJournal /\ (At(Tombstone(journal.nonce)) # None \/ At(Disposal(journal.nonce)) # None)
Cancel ==
  /\ proc["app"].at = "cancel" /\ Rest /\ Keep
  /\ IF Moved(disk.journal) THEN Reject("app")
     ELSE proc' = [proc EXCEPT !["app"].at = "cancelRemove", !["app"].journal = disk.journal]

CancelRemove ==
  /\ proc["app"].at = "cancelRemove" /\ Rest
  /\ Goto("app", "cancelSync") /\ Become(Journaled(NoJournal))

\* Only a journal that is definitely absent lets the application relaunch
\* and say that nothing was reset.
CancelCheck ==
  /\ proc["app"].at = "cancelCheck" /\ Keep
  /\ IF Moved(proc["app"].journal) THEN Goto("app", "cancelRestore") /\ UNCHANGED asked
     ELSE /\ proc' = [proc EXCEPT !["app"].at = "quitting", !["app"].prepared = FALSE]
          /\ asked' = IF proc["app"].late THEN asked ELSE asked \ {At(Root)}
  /\ UNCHANGED <<remover, faults, nonces, completed, revived>>

CancelRestore ==
  /\ proc["app"].at = "cancelRestore" /\ Rest
  /\ Goto("app", "syncRestore") /\ Become(Journaled(proc["app"].journal))
CancelRestored ==
  /\ proc["app"].at = "syncRestore" /\ Rest /\ SyncDirectory /\ Reject("app")

\* The deadline of the reset passes: nothing more is begun, and the
\* application quits; what is under way may still take effect before it has.
Deadline ==
  /\ proc["app"].at \in Preparing \cup Cancelling /\ ~proc["app"].late /\ Rest /\ Keep
  /\ proc' = [proc EXCEPT !["app"].late = TRUE,
                          !["app"].at = IF @ = "draining" THEN "quitting" ELSE @]

Prepare(p) == Verify(p) \/ WriteJournal(p) \/ Prepared(p)
CancelReset == Cancel \/ CancelRemove \/ CancelCheck \/ CancelRestore \/ CancelRestored
----------------------------------------------------------------------------
(* The life of the two processes                                           *)

\* The browser is ready before the recovery begins, and has the root open
\* as its own directory.  The application and the uninstaller's reset do not
\* run together: the installer ends the one before it starts the other.
StartApp ==
  /\ proc["app"].at = "off" /\ proc["uninstall"].at = "off"
  /\ proc' = [proc EXCEPT !["app"] = [Stopped EXCEPT !.at = "read"]] /\ Rest
  /\ \/ Keep
     \/ BrowserMakesRoot /\ MakeRoot

StartUninstall ==
  /\ proc["uninstall"].at = "off" /\ proc["app"].at = "off"
  /\ proc' = [proc EXCEPT !["uninstall"] = [Stopped EXCEPT !.at = "read"]] /\ Rest /\ Keep

\* validateAppRootBeforeUse and initializeOwnership.
EnsureRoot ==
  /\ proc["app"].at = "makeRoot" /\ Rest /\ Goto("app", "marker")
  /\ IF At(Root) = None THEN MakeRoot ELSE Keep
InitializeOwnership ==
  /\ proc["app"].at = "marker" /\ Rest /\ Goto("app", "running")
  /\ LET live == At(Root) IN
     IF live # None /\ disk.content[live] = "bare" THEN Become([disk EXCEPT !.content[live] = "owned"]) ELSE Keep

PrepareDataReset ==
  /\ proc["app"].at = "running" /\ Rest /\ Keep /\ Goto("app", "verify")

\* The application ends: by the user, after a reset, or at its deadline,
\* whatever is still under way.
Exit ==
  /\ proc["app"].at \in {"running", "quitting"} \/ proc["app"].late
  /\ proc' = [proc EXCEPT !["app"] = Stopped] /\ Rest /\ Keep

Live(p) ==
  \/ Recover(p) \/ Prepare(p)
  \/ p = "app" /\ (CancelReset \/ Drained \/ EnsureRoot \/ InitializeOwnership)
----------------------------------------------------------------------------
(* remove_owned_tree of the helper                                         *)

RemoverRest == UNCHANGED <<proc, faults, nonces, history>>
Advance(s, stage) == remover' = [remover EXCEPT ![s].stage = stage]

\* Mutant of OpenTree: what is there is opened, whatever it is.
OpenAnyTree(s) ==
  /\ remover[s].stage = "opening" /\ RemoverRest /\ Keep
  /\ LET here == At(Disposal(remover[s].nonce)) IN
     remover' = [remover EXCEPT ![s].stage = IF here = None THEN "failed" ELSE "erasing",
                                ![s].dir = IF here = None THEN @ ELSE here]

\* The directory is opened once by its path, and must be the recorded one.
\* On Windows it can be opened by one remover only.
OpenTree(s) ==
  /\ remover[s].stage = "opening" /\ RemoverRest /\ Keep
  /\ LET here == At(Disposal(remover[s].nonce))
         taken == platform = "win32" /\ \E o \in DOMAIN remover : remover[o].stage \in {"erasing", "unlinking"}
     IN Advance(s, IF here # remover[s].dir \/ taken THEN "failed" ELSE "erasing")

\* Its contents are removed, in any number of steps, and then itself.
EraseTree(s) ==
  /\ remover[s].stage = "erasing" /\ RemoverRest
  /\ LET d == remover[s].dir IN
     IF disk.content[d] \in {"owned", "bare"}
     THEN UNCHANGED remover /\ Become([disk EXCEPT !.content[d] = "partial"])
     ELSE Advance(s, "unlinking") /\ Become([disk EXCEPT !.content[d] = "empty"])

UnlinkTree(s) ==
  /\ remover[s].stage = "unlinking" /\ RemoverRest
  /\ LET d == remover[s].dir IN
     IF At(Disposal(remover[s].nonce)) = d THEN Advance(s, "flushing") /\ Become(Placed(d, Gone))
     ELSE Advance(s, "failed") /\ Keep

FlushParent(s) ==
  /\ remover[s].stage = "flushing" /\ RemoverRest /\ Flush
  /\ Advance(s, "done")

OrphanEnds(s) ==
  /\ s = "orphan" /\ remover[s].stage \in {"done", "failed"} /\ RemoverRest /\ Keep
  /\ remover' = [remover EXCEPT ![s] = Idle]

RemoveTree(s) == OpenTree(s) \/ EraseTree(s) \/ UnlinkTree(s) \/ FlushParent(s) \/ OrphanEnds(s)
----------------------------------------------------------------------------
(* Faults                                                                  *)

Fault == faults < MaxFaults /\ faults' = faults + 1

\* An operation of a process rejects, or a drain does.
Rejected(p) ==
  /\ Fault /\ proc[p].at \notin {"off", "running", "quitting", "removing"}
  /\ Reject(p) /\ Keep /\ UNCHANGED <<remover, nonces, history>>

\* The helper fails, is ended at its time limit, or is not seen to succeed.
RemoverFails(s) ==
  /\ Fault /\ remover[s].stage \notin {"none", "failed"} /\ Advance(s, "failed")
  /\ Keep /\ UNCHANGED <<proc, nonces, history>>

\* A process dies, and the removal it started does not.
Crash(p) ==
  /\ Fault /\ proc[p].at # "off"
  /\ proc' = [proc EXCEPT ![p] = Stopped]
  /\ IF remover[p].stage = "none" THEN UNCHANGED remover
     ELSE remover["orphan"] = Idle /\ remover' = [remover EXCEPT ![p] = Idle, !["orphan"] = remover[p]]
  /\ Keep /\ UNCHANGED <<nonces, history>>

\* What the disk found after it has brought back, where nothing synchronises a
\* directory: a reset that is not asked for, or a profile whose reset was complete.
Returned(found) ==
  {d \in Dirs : /\ platform = "win32"
                /\ \/ found.journal.dir = d /\ d \notin asked
                   \/ found.place[d] # Gone /\ d \in completed}

PowerLoss ==
  /\ Fault /\ disk' \in survivors /\ survivors' = {disk'} /\ UNCHANGED platform
  /\ revived' = revived \cup Returned(disk')
  /\ proc' = [p \in Processes |-> Stopped] /\ remover' = [s \in DOMAIN remover |-> Idle]
  /\ UNCHANGED <<nonces, asked, completed>>

\* An open directory of Windows cannot be moved.
SomebodyReplaces ==
  /\ UNCHANGED resetVars
  /\ \E path \in {Root, Tombstone(disk.journal.nonce), Disposal(disk.journal.nonce)} :
       /\ ~(platform = "win32" /\ \E s \in DOMAIN remover :
              remover[s].stage \in {"erasing", "unlinking"} /\ path = Disposal(remover[s].nonce))
       /\ path = Root \/ disk.journal.nonce # 0
       /\ Replace(path)
----------------------------------------------------------------------------
Next ==
  \/ \E p \in Processes : Live(p) \/ Rejected(p) \/ Crash(p)
  \/ \E s \in DOMAIN remover : RemoveTree(s) \/ RemoverFails(s)
  \/ StartApp \/ StartUninstall \/ PrepareDataReset \/ Deadline \/ Exit
  \/ RootHeldOpen \/ PowerLoss \/ SomebodyReplaces

Spec == Init /\ [][Next]_vars

\* A process has something to do unless it waits for the removal; so has the user,
\* who starts the application again.  A journal and a root are not asked for, as the
\* bounds may prevent them.
ProcessDue(p) ==
  LET at == proc[p].at IN
  \/ at \notin {"off", "running", "removing", "writeJournal", "makeRoot"}
  \/ at = "removing" /\ remover[p].stage \in {"done", "failed"}
  \/ p = "app" /\ at = "off" /\ proc["uninstall"].at = "off"

\* A removal that has begun goes on, and one that outlived its parent ends.
RemoverDue(s) ==
  \/ remover[s].stage \in {"opening", "erasing", "unlinking", "flushing"}
  \/ s = "orphan" /\ remover[s].stage # "none"

\* Weak fairness of what each process and each removal does of itself, with its
\* ENABLED written out: TLC is slow to find it.
Fairness ==
  /\ \A p \in Processes : []<>~ProcessDue(p) \/ []<><<proc'[p] # proc[p]>>_proc
  /\ \A s \in Processes \cup {"orphan"} : []<>~RemoverDue(s) \/ []<><<remover'[s] # remover[s]>>_remover

FairSpec == Spec /\ Fairness
=============================================================================
