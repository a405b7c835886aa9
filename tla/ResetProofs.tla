----------------------------- MODULE ResetProofs -----------------------------
(***************************************************************************)
(* The reset of the application's data keeps its promises for any number   *)
(* of directories, of resets and of faults.  First the inductive           *)
(* invariant: what holds of the disk, and of what a loss of power may      *)
(* leave of it, what a process may rely on between its awaits, and what a  *)
(* removal may erase.  Then what a change of the disk keeps of it, one     *)
(* lemma per operation, and the theorems.                                  *)
(***************************************************************************)
EXTENDS ResetProperties, FiniteSetTheorems, TLAPS

-----------------------------------------------------------------------------
(* The inductive invariant *)

\* Where a directory may be.
Places == Paths \cup {Unborn, Elsewhere, Gone}

\* Where a process may be.
Steps ==
  {"off", "read", "inspect", "renameRoot", "checkTombstone", "tombstone", "tombstoneAgain", "writePhase",
   "renameTombstone", "checkDisposal", "disposal", "disposalAgain", "launch", "removing", "removed", "final",
   "removeJournal", "syncJournal", "makeRoot", "marker", "running", "quitting"}
  \cup Preparing \cup Cancelling \cup DOMAIN Syncs \cup {"syncLegacy"}

\* What a process holds.
Processing == [at : Steps, journal : Journals \cup {NoJournal}, dir : Dirs \cup {None},
               late : BOOLEAN, prepared : BOOLEAN, again : BOOLEAN]

\* A removal.
Removals == [stage : {"none", "opening", "erasing", "unlinking", "flushing", "done", "failed"},
             dir : Dirs \cup {None}, nonce : Nonces \cup {0}]

\* Those that remove: each process, and what outlived one that died.
Removers == Processes \cup {"orphan"}

\* What the disk is made of.
DiskTypes ==
  /\ disk \in Disks /\ disk \in survivors /\ survivors \subseteq Disks /\ platform \in {"darwin", "win32"}
  /\ platform = "darwin" => revived = {}

-----------------------------------------------------------------------------
(* A disk *)

\* A reset is pending, as its journal says.
Pending(v) == v.journal.version \in {3, 4}

\* The journal asks for the removal of the directory.
Condemned(v, d) == Pending(v) /\ v.journal.dir = d

\* Something of the directory is gone.
Lost(v, d) == v.content[d] \in {"partial", "empty"}

\* A path names one directory at most.
OneEach(v) == \A c, d \in Dirs : v.place[c] = v.place[d] /\ v.place[c] \in Paths => c = d

\* The three paths of a reset.
PathsOf(journal) == {Root, Tombstone(journal.nonce), Disposal(journal.nonce)}

\* A reset is of a directory that is at one of its paths, or was put elsewhere by
\* what is there now, or is gone.
Names(place, journal) ==
  /\ journal.nonce \in Nonces /\ journal.dir \in Dirs
  /\ \/ place[journal.dir] \in PathsOf(journal) \cup {Gone}
     \/ place[journal.dir] = Elsewhere /\ \E d \in Dirs : place[d] \in PathsOf(journal)

\* What was renamed, unless it is somebody else's, is named by the journal.
Named(v) ==
  \A d \in Dirs \ Foreign : \A n \in Nonces :
    v.place[d] \in {Tombstone(n), Disposal(n)} => Condemned(v, d) /\ v.journal.nonce = n

\* What has lost something is gone, or the journal asks for its removal.
LostIsCondemned(v) == \A d \in Dirs : Lost(v, d) => v.place[d] = Gone \/ Condemned(v, d)

\* What holds of a disk whenever the power may be lost.
DiskOK(v) ==
  /\ OneEach(v) /\ Named(v) /\ LostIsCondemned(v)
  /\ Pending(v) => Names(v.place, v.journal)

-----------------------------------------------------------------------------
(* Removals *)

\* What may be deleted: what is asked for, and what a loss of power has brought back.
Doomed == asked \cup revived

\* The stages in which a removal may erase.
Active == {"opening", "erasing", "unlinking"}

\* What is being removed was asked for, and is gone or what the journal names.
RemoverOK(s) ==
  remover[s].stage \in Active =>
    /\ remover[s].dir \in Doomed /\ remover[s].nonce \in Nonces
    /\ \/ disk.place[remover[s].dir] = Gone
       \/ Condemned(disk, remover[s].dir) /\ disk.journal.nonce = remover[s].nonce

\* Whatever a disk names or has lost of may be deleted; and what it has lost of is
\* gone by now or still to be removed, on whatever disk that is.
AskedFor ==
  /\ \A v \in Outcomes : Pending(v) => v.journal.dir \in Doomed
  /\ \A v \in survivors : \A d \in Dirs : Lost(v, d) => d \in Doomed /\ (disk.place[d] = Gone \/ Condemned(disk, d))

\* What was reported complete is gone for good.
Finished == \A d \in completed \ revived : \A v \in Outcomes : v.place[d] = Gone

\* Nothing that is still there is being removed, or was.
Untouched ==
  /\ \A v \in survivors : \A d \in Dirs : Lost(v, d) => disk.place[d] = Gone
  /\ \A s \in Removers : remover[s].stage \in Active => disk.place[remover[s].dir] = Gone

\* The disk, what it may become, and the removals.
DiskPart ==
  /\ DiskTypes /\ remover \in [Removers -> Removals] /\ asked \subseteq Dirs /\ completed \subseteq Dirs
  /\ revived \subseteq Dirs /\ \A v \in survivors : DiskOK(v)
  /\ \A s \in Removers : RemoverOK(s)
  /\ AskedFor /\ Finished

-----------------------------------------------------------------------------
(* A process *)

\* In its recovery a process knows the journal.
Knows ==
  {"syncMigrated", "inspect", "renameRoot", "syncRoot", "checkTombstone", "tombstone", "tombstoneAgain",
   "writePhase", "syncPhase", "renameTombstone", "syncDisposal", "checkDisposal", "disposal",
   "disposalAgain", "launch", "removing", "removed", "syncRemoval", "final", "removeJournal"}

\* Where no reset is pending.
Clear ==
  {"syncLegacy", "syncJournal", "makeRoot", "marker", "running", "verify", "writeJournal",
   "cancelSync", "cancelCheck", "cancelRestore"}

\* The directory is the root, or what is the root now has put it elsewhere.
WasRoot(place, dir) ==
  /\ dir \in Dirs
  /\ place[dir] = Root \/ (place[dir] = Elsewhere /\ \E d \in Dirs : place[d] = Root)

\* A journal that a cancellation may write again.
Held(journal) ==
  journal # NoJournal => journal.version \in {3, 4} /\ journal.dir \in Doomed /\ Names(disk.place, journal)

\* What a process relies on where it is.
ProcOK(p) ==
  LET own == proc[p] IN
  /\ own.at \in Knows => own.journal = disk.journal /\ disk.journal.version = 4
  /\ own.at \in Clear => disk.journal = NoJournal
  /\ own.at \in {"removeJournal", "syncJournal"} =>
       own.journal.dir \in Dirs /\ disk.place[own.journal.dir] = Gone
  /\ own.at = "renameRoot" => \A d \in Dirs \ Foreign : disk.place[d] = Root => d = own.journal.dir
  /\ own.at = "writeJournal" => WasRoot(disk.place, own.dir)
  /\ own.at \in Preparing \cup Cancelling => Untouched /\ disk.journal.version # 2
  /\ own.at = "cancelRemove" =>
       /\ disk.journal = own.journal
       /\ own.journal # NoJournal => \A d \in Dirs \ Foreign :
            disk.place[d] \notin {Tombstone(own.journal.nonce), Disposal(own.journal.nonce)}
  /\ own.at \in {"cancelSync", "cancelCheck", "cancelRestore"} => Held(own.journal)
  /\ own.at = "cancelRestore" => own.journal # NoJournal
  /\ own.at = "cancelCheck" => \A v \in Outcomes : v.journal = NoJournal

\* The two do not run together.
Apart == proc["app"].at = "off" \/ proc["uninstall"].at = "off"

\* The two processes.
ProcPart == proc \in [Processes -> Processing] /\ Apart /\ \A p \in Processes : ProcOK(p)

-----------------------------------------------------------------------------
\* The inductive invariant.
ResetInvariantHolds == DiskPart /\ ProcPart /\ nonces \in 0..MaxResets

-----------------------------------------------------------------------------
(* Paths and what is at them *)

\* No two paths are the same, and no place that is none is one.
LEMMA PathsApart ==
  /\ \A n : Root # Tombstone(n) /\ Root # Disposal(n)
  /\ \A m, n : Tombstone(m) # Disposal(n)
  /\ \A m, n : Tombstone(m) = Tombstone(n) => m = n
  /\ \A m, n : Disposal(m) = Disposal(n) => m = n
  /\ Root \notin {Unborn, Elsewhere, Gone} /\ Gone \notin {Unborn, Elsewhere} /\ Unborn # Elsewhere
  /\ \A n : Tombstone(n) \notin {Unborn, Elsewhere, Gone} /\ Disposal(n) \notin {Unborn, Elsewhere, Gone}
BY DEF Root, Tombstone, Disposal, Unborn, Elsewhere, Gone

\* The paths of the resets.
LEMMA PathsKnown ==
  /\ Root \in Paths
  /\ \A n \in Nonces : Tombstone(n) \in Paths /\ Disposal(n) \in Paths
  /\ Paths \cap {Unborn, Elsewhere, Gone} = {}
<1>1. Root \in Paths /\ \A n \in Nonces : Tombstone(n) \in Paths /\ Disposal(n) \in Paths
  BY DEF Paths
<1>2. ASSUME NEW path \in Paths PROVE path \notin {Unborn, Elsewhere, Gone}
  BY PathsApart DEF Paths
<1> QED BY <1>1, <1>2

\* What lstat tells of a path: nothing is there, or this directory is.
LEMMA AtWhat ==
  ASSUME NEW path
  PROVE  /\ At(path) = None => \A d \in Dirs : disk.place[d] # path
         /\ At(path) # None => At(path) \in Dirs /\ disk.place[At(path)] = path
<1> DEFINE here == {d \in Dirs : disk.place[d] = path}
<1>1. CASE here = {}
  <2>1. At(path) = None
    BY <1>1 DEF At
  <2> QED BY <1>1, <2>1
<1>2. CASE here # {}
  <2>1. At(path) = CHOOSE d \in here : TRUE
    BY <1>2 DEF At
  <2>2. At(path) \in here
    BY <1>2, <2>1
  <2>3. At(path) # None
    BY <2>2, DirsAssumption DEF None
  <2> QED BY <2>2, <2>3
<1> QED BY <1>1, <1>2

\* The directory at a path is the one that lstat finds.
LEMMA AtIs ==
  ASSUME OneEach(disk), NEW d \in Dirs, disk.place[d] \in Paths
  PROVE  At(disk.place[d]) = d
<1> DEFINE path == disk.place[d]
<1>1. At(path) # None
  BY AtWhat
<1>2. At(path) \in Dirs /\ disk.place[At(path)] = path
  BY <1>1, AtWhat
<1> QED BY <1>2 DEF OneEach

\* What a disk is made of.
LEMMA DiskFields ==
  ASSUME NEW v \in Disks
  PROVE  /\ v.place \in [Dirs -> Places] /\ v.content \in [Dirs -> Contents]
         /\ v.journal \in Journals \cup {NoJournal}
         /\ v.journal.nonce \in Nonces \cup {0} /\ v.journal.dir \in Dirs \cup {None}
         /\ v.journal.version \in {0, 2, 3, 4}
         /\ v.journal.version = 0 <=> v.journal = NoJournal
<1>1. v.place \in [Dirs -> Places] /\ v.content \in [Dirs -> Contents] /\ v.journal \in Journals \cup {NoJournal}
  BY DEF Disks, Places
<1>2. \A journal \in Journals : /\ journal.nonce \in Nonces \cup {0} /\ journal.dir \in Dirs \cup {None}
                                /\ journal.version \in {2, 3, 4}
  BY DEF Journals
<1>3. NoJournal.nonce = 0 /\ NoJournal.dir = None /\ NoJournal.version = 0
  BY DEF NoJournal
<1> QED BY <1>1, <1>2, <1>3

\* A disk on which one directory is at another place.
LEMMA PlacedFields ==
  ASSUME disk \in Disks, NEW d \in Dirs, NEW path \in Places
  PROVE  /\ Placed(d, path) \in Disks
         /\ Placed(d, path).content = disk.content /\ Placed(d, path).journal = disk.journal
         /\ Placed(d, path).place[d] = path
         /\ \A e \in Dirs : e # d => Placed(d, path).place[e] = disk.place[e]
<1> DEFINE place == [disk.place EXCEPT ![d] = path]
<1>1. place \in [Dirs -> Places]
  BY DiskFields
<1>2. place[d] = path /\ \A e \in Dirs : e # d => place[e] = disk.place[e]
  BY DiskFields
<1>3. Placed(d, path) = [disk EXCEPT !.place = place]
  BY DEF Placed, Disks
<1> HIDE DEF place
<1> QED BY <1>1, <1>2, <1>3 DEF Disks, Places

\* A disk with another journal.
LEMMA JournaledFields ==
  ASSUME disk \in Disks, NEW journal \in Journals \cup {NoJournal}
  PROVE  /\ Journaled(journal) \in Disks
         /\ Journaled(journal).content = disk.content /\ Journaled(journal).place = disk.place
         /\ Journaled(journal).journal = journal
BY DEF Journaled, Disks

-----------------------------------------------------------------------------
(* What a change of the disk keeps *)

\* The removals under way are among those that were.
RemovalsFrom ==
  \A s \in Removers : remover'[s].stage \in Active =>
    \E r \in Removers : /\ remover[r].stage \in Active
                        /\ remover'[s].dir = remover[r].dir /\ remover'[s].nonce = remover[r].nonce

\* A disk on which nothing returns, nothing is lost but what is being removed, and
\* the journal is dropped only with its directory gone.
Follows(d) ==
  /\ d \in Disks /\ DiskOK(d)
  /\ \A x \in Dirs : disk.place[x] = Gone => d.place[x] = Gone
  /\ \A x \in Dirs : Lost(d, x) =>
       Lost(disk, x) \/ \E r \in Removers : remover[r].stage \in Active /\ remover[r].dir = x
  /\ \/ Untouched
     \/ \A x \in Dirs : Condemned(disk, x) =>
          d.place[x] = Gone \/ (Condemned(d, x) /\ d.journal.nonce = disk.journal.nonce)

\* What a loss of power may leave is one of a few disks.
LEMMA OutcomesAre ==
  /\ DiskTypes => /\ disk \in Outcomes /\ disk \in survivors /\ Outcomes \subseteq survivors
                  /\ \A v \in survivors : v \in Disks
  /\ Keep => Outcomes' = Outcomes /\ survivors' = survivors
  /\ \A d : Become(d) => /\ \A v \in Outcomes' : v \in Outcomes \/ v = d
                         /\ \A v \in survivors' : v \in survivors \/ v = d
  /\ Flush => Outcomes' = {disk} /\ survivors' = {disk} /\ disk' = disk
BY DEF Outcomes, DiskTypes, Keep, diskVars, Become, Flush

\* A change of the disk that a disk may follow keeps what holds of it.
LEMMA BecomeKeeps ==
  ASSUME DiskPart, NEW d, Follows(d), Become(d), RemovalsFrom, remover' \in [Removers -> Removals],
         completed' = completed, asked \subseteq asked', asked' \subseteq Dirs, revived' = revived,
         Pending(d) => d.journal.dir \in Doomed'
  PROVE  DiskPart' /\ (Untouched => Untouched')
<1>1. /\ disk' = d /\ d \in Disks /\ disk \in Disks /\ disk \in Outcomes /\ disk \in survivors
      /\ \A v \in Outcomes' : v \in Outcomes \/ v = d
      /\ \A v \in survivors' : v \in survivors \/ v = d
  BY OutcomesAre DEF DiskPart, DiskTypes, Become, Follows
<1>2. Doomed \subseteq Doomed'
  BY DEF Doomed
<1>3. DiskTypes'
  BY <1>1 DEF DiskPart, DiskTypes, Become
<1>4. \A v \in survivors' : DiskOK(v)
  BY <1>1 DEF DiskPart, Follows
<1>5. \A r \in Removers : remover[r].stage \in Active => remover[r].dir \in Dirs /\ remover[r].dir \in Doomed
  BY DEF DiskPart, RemoverOK, Doomed
<1>6. ASSUME NEW x \in Dirs, disk.place[x] = Gone \/ Condemned(disk, x),
             Untouched => disk.place[x] = Gone
      PROVE  d.place[x] = Gone \/ (Condemned(d, x) /\ d.journal.nonce = disk.journal.nonce)
  BY <1>6 DEF Follows
<1>7. \A s \in Removers : RemoverOK(s)'
  <2> SUFFICES ASSUME NEW s \in Removers, remover'[s].stage \in Active
               PROVE  /\ remover'[s].dir \in Doomed' /\ remover'[s].nonce \in Nonces
                      /\ \/ d.place[remover'[s].dir] = Gone
                         \/ Condemned(d, remover'[s].dir) /\ d.journal.nonce = remover'[s].nonce
    BY <1>1 DEF RemoverOK
  <2>1. PICK r \in Removers : /\ remover[r].stage \in Active
                              /\ remover'[s].dir = remover[r].dir /\ remover'[s].nonce = remover[r].nonce
    BY DEF RemovalsFrom
  <2>2. /\ remover[r].dir \in Doomed /\ remover[r].nonce \in Nonces
        /\ \/ disk.place[remover[r].dir] = Gone
           \/ Condemned(disk, remover[r].dir) /\ disk.journal.nonce = remover[r].nonce
    BY <2>1 DEF DiskPart, RemoverOK
  <2>3. Untouched => disk.place[remover[r].dir] = Gone
    BY <2>1 DEF Untouched
  <2>4. remover[r].dir \in Dirs
    BY <1>5, <2>1
  <2>5. CASE disk.place[remover[r].dir] = Gone
    BY <1>2, <2>1, <2>2, <2>4, <2>5 DEF Follows
  <2>6. CASE disk.place[remover[r].dir] # Gone
    BY <1>2, <1>6, <2>1, <2>2, <2>3, <2>4, <2>6
  <2> QED BY <2>5, <2>6
<1>8. ASSUME NEW v \in survivors', NEW x \in Dirs, Lost(v, x)
      PROVE  /\ x \in Doomed' /\ (d.place[x] = Gone \/ Condemned(d, x))
             /\ Untouched => d.place[x] = Gone
  <2>1. ASSUME NEW u \in survivors, Lost(u, x)
        PROVE  /\ x \in Doomed /\ (disk.place[x] = Gone \/ Condemned(disk, x))
               /\ Untouched => disk.place[x] = Gone
    BY <2>1 DEF DiskPart, AskedFor, Untouched
  <2>2. /\ x \in Doomed /\ (disk.place[x] = Gone \/ Condemned(disk, x))
        /\ Untouched => disk.place[x] = Gone
    <3>1. CASE v \in survivors
      BY <1>8, <2>1, <3>1
    <3>2. CASE v = d /\ Lost(disk, x)
      BY <1>1, <2>1, <3>2
    <3>3. CASE \E r \in Removers : remover[r].stage \in Active /\ remover[r].dir = x
      BY <3>3 DEF DiskPart, RemoverOK, Untouched
    <3> QED BY <1>1, <1>8, <3>1, <3>2, <3>3 DEF Follows
  <2>3. Untouched => d.place[x] = Gone
    BY <2>2 DEF Follows
  <2> QED BY <1>2, <1>6, <2>2, <2>3
<1>9. AskedFor'
  <2>1. \A v \in Outcomes' : Pending(v) => v.journal.dir \in Doomed'
    BY <1>2, <1>1 DEF DiskPart, AskedFor
  <2> QED BY <1>1, <1>8, <2>1 DEF AskedFor
<1>10. Finished'
  BY <1>1 DEF DiskPart, Finished, Follows
<1>11. Untouched => Untouched'
  <2> SUFFICES ASSUME Untouched PROVE Untouched'
    OBVIOUS
  <2>1. \A v \in survivors' : \A x \in Dirs : Lost(v, x) => disk'.place[x] = Gone
    BY <1>1, <1>8
  <2>2. \A s \in Removers : remover'[s].stage \in Active => disk'.place[remover'[s].dir] = Gone
    <3> SUFFICES ASSUME NEW s \in Removers, remover'[s].stage \in Active
                 PROVE  d.place[remover'[s].dir] = Gone
      BY <1>1
    <3>1. PICK r \in Removers : remover[r].stage \in Active /\ remover'[s].dir = remover[r].dir
      BY DEF RemovalsFrom
    <3>2. remover[r].dir \in Dirs /\ disk.place[remover[r].dir] = Gone
      BY <1>5, <3>1 DEF Untouched
    <3> QED BY <3>1, <3>2 DEF Follows
  <2> QED BY <2>1, <2>2 DEF Untouched
<1> QED BY <1>3, <1>4, <1>7, <1>9, <1>10, <1>11 DEF DiskPart

\* A disk that stays as it is keeps what holds of it, synchronised or not.
LEMMA KeepKeeps ==
  ASSUME DiskPart, Keep \/ Flush, RemovalsFrom, remover' \in [Removers -> Removals],
         completed' \subseteq Dirs, asked' = asked, revived' = revived,
         \A d \in completed' \ completed : \A v \in Outcomes' : v.place[d] = Gone
  PROVE  DiskPart' /\ (Untouched => Untouched')
<1>1. /\ disk' = disk /\ disk \in Outcomes /\ disk \in survivors /\ Outcomes' \subseteq Outcomes
      /\ survivors' \subseteq survivors /\ Doomed' = Doomed
  BY OutcomesAre DEF DiskPart, DiskTypes, Keep, diskVars, Doomed
<1>2. DiskTypes'
  BY DEF DiskPart, DiskTypes, Keep, diskVars, Flush
<1>3. \A s \in Removers : RemoverOK(s)'
  BY <1>1 DEF DiskPart, RemoverOK, RemovalsFrom
<1>4. AskedFor' /\ Finished' /\ \A v \in survivors' : DiskOK(v)
  BY <1>1 DEF DiskPart, AskedFor, Finished
<1>5. Untouched => Untouched'
  BY <1>1 DEF Untouched, RemovalsFrom
<1> QED BY <1>2, <1>3, <1>4, <1>5 DEF DiskPart

-----------------------------------------------------------------------------
(* What a step of a process keeps *)

\* The other process stays where it is.
OnlyMoves(p) ==
  /\ proc' \in [Processes -> Processing]
  /\ \A q \in Processes \ {p} : proc'[q] = proc[q]

\* A process that is off, starts over or is to end relies on nothing.
LEMMA HarmlessOK ==
  ASSUME NEW p \in Processes, proc'[p].at \in {"off", "read", "quitting"}
  PROVE  ProcOK(p)'
BY DEF ProcOK, Knows, Clear, Preparing, Cancelling

\* While one process runs the other is off, and relies on nothing.
LEMMA MoveKeeps ==
  ASSUME ProcPart, NEW p \in Processes, proc[p].at # "off", OnlyMoves(p), ProcOK(p)'
  PROVE  ProcPart'
<1>1. \A q \in Processes \ {p} : proc'[q].at = "off"
  BY DEF ProcPart, Apart, OnlyMoves, Processes
<1>2. \A q \in Processes : ProcOK(q)'
  BY <1>1, HarmlessOK
<1>3. Apart'
  BY <1>1 DEF Apart, Processes
<1> QED BY <1>2, <1>3 DEF ProcPart, OnlyMoves

\* A process goes on to another step.
LEMMA GotoMoves ==
  ASSUME ProcPart, NEW p \in Processes, NEW at \in Steps, Goto(p, at)
  PROVE  /\ OnlyMoves(p) /\ proc'[p].at = at
         /\ at # "off" => proc'[p].journal = proc[p].journal /\ proc'[p].dir = proc[p].dir
<1>1. proc \in [Processes -> Processing] /\ proc[p] \in Processing
  BY DEF ProcPart
<1>2. Stopped \in Processing /\ Stopped.at = "off"
  BY DEF Stopped, Processing, Steps
<1> DEFINE own == [proc[p] EXCEPT !.at = at]
<1>3. own \in Processing /\ own.at = at /\ own.journal = proc[p].journal /\ own.dir = proc[p].dir
  BY <1>1 DEF Processing
<1>4. CASE at = "off"
  <2>1. proc' = [proc EXCEPT ![p] = Stopped]
    BY <1>4 DEF Goto
  <2> QED BY <1>1, <1>2, <1>4, <2>1 DEF OnlyMoves
<1>5. CASE at # "off"
  <2>1. proc' = [proc EXCEPT ![p] = own]
    BY <1>5 DEF Goto
  <2> HIDE DEF own
  <2> QED BY <1>1, <1>3, <2>1 DEF OnlyMoves
<1> QED BY <1>4, <1>5

\* A call that rejects leaves a start or a recovery over, and a preparation to be
\* cancelled.
LEMMA RejectMoves ==
  ASSUME ProcPart, NEW p \in Processes, Reject(p)
  PROVE  /\ OnlyMoves(p)
         /\ \/ proc'[p].at \in {"off", "read", "quitting"}
            \/ proc'[p].at = "cancel" /\ proc[p].at \in Preparing
<1>1. proc \in [Processes -> Processing] /\ proc[p] \in Processing
  BY DEF ProcPart
<1>2. PICK own : /\ proc' = [proc EXCEPT ![p] = own]
                 /\ \/ own = Stopped
                    \/ own = [Stopped EXCEPT !.at = "read", !.again = TRUE]
                    \/ own = [proc[p] EXCEPT !.at = "cancel"] /\ proc[p].at \in Preparing
                    \/ own = [proc[p] EXCEPT !.at = "quitting"]
  <2> DEFINE own ==
        CASE p = "uninstall" /\ proc[p].again -> Stopped
          [] p = "uninstall" /\ ~proc[p].again -> [Stopped EXCEPT !.at = "read", !.again = TRUE]
          [] p = "app" /\ proc[p].at \in Preparing /\ ~proc[p].late -> [proc[p] EXCEPT !.at = "cancel"]
          [] p = "app" /\ (proc[p].at \in Cancelling \/ proc[p].late) -> [proc[p] EXCEPT !.at = "quitting"]
          [] OTHER -> Stopped
  <2>1. proc' = [proc EXCEPT ![p] = own]
    BY DEF Reject
  <2>2. \/ own = Stopped
        \/ own = [Stopped EXCEPT !.at = "read", !.again = TRUE]
        \/ own = [proc[p] EXCEPT !.at = "cancel"] /\ proc[p].at \in Preparing
        \/ own = [proc[p] EXCEPT !.at = "quitting"]
    <3>1. CASE p = "uninstall" /\ proc[p].again
      BY <3>1
    <3>2. CASE p = "uninstall" /\ ~proc[p].again
      BY <3>2
    <3>3. CASE p = "app" /\ proc[p].at \in Preparing /\ ~proc[p].late
      BY <3>3
    <3>4. CASE p = "app" /\ ~(proc[p].at \in Preparing /\ ~proc[p].late) /\ (proc[p].at \in Cancelling \/ proc[p].late)
      BY <3>4
    <3>5. CASE p = "app" /\ ~(proc[p].at \in Preparing /\ ~proc[p].late) /\ ~(proc[p].at \in Cancelling \/ proc[p].late)
      BY <3>5
    <3> QED BY <3>1, <3>2, <3>3, <3>4, <3>5 DEF Processes
  <2> HIDE DEF own
  <2> QED BY <2>1, <2>2
<1>3. /\ own \in Processing
      /\ own.at \in {"off", "read", "quitting"} \/ (own.at = "cancel" /\ proc[p].at \in Preparing)
  <2>1. Stopped \in Processing /\ Stopped.at = "off"
    BY DEF Stopped, Processing, Steps
  <2>2. CASE own = Stopped
    BY <2>1, <2>2
  <2>3. CASE own = [Stopped EXCEPT !.at = "read", !.again = TRUE]
    BY <2>3 DEF Stopped, Processing, Steps
  <2>4. CASE own = [proc[p] EXCEPT !.at = "cancel"] /\ proc[p].at \in Preparing
    BY <1>1, <2>4 DEF Processing, Steps, Cancelling
  <2>5. CASE own = [proc[p] EXCEPT !.at = "quitting"]
    BY <1>1, <2>5 DEF Processing, Steps
  <2> QED BY <1>2, <2>2, <2>3, <2>4, <2>5
<1> QED BY <1>1, <1>2, <1>3 DEF OnlyMoves

\* A call that rejects relies on nothing but what a cancellation needs.
LEMMA RejectKeeps ==
  ASSUME ProcPart, NEW p \in Processes, proc[p].at # "off", Reject(p), Untouched => Untouched',
         disk.journal.version # 2 => disk'.journal.version # 2
  PROVE  ProcPart'
<1>1. /\ OnlyMoves(p)
      /\ \/ proc'[p].at \in {"off", "read", "quitting"}
         \/ proc'[p].at = "cancel" /\ proc[p].at \in Preparing
  BY RejectMoves
<1>2. CASE proc'[p].at \in {"off", "read", "quitting"}
  BY <1>1, <1>2, HarmlessOK, MoveKeeps
<1>3. CASE proc'[p].at = "cancel" /\ proc[p].at \in Preparing
  <2>1. Untouched' /\ disk'.journal.version # 2
    BY <1>3 DEF ProcPart, ProcOK
  <2>2. ProcOK(p)'
    BY <1>3, <2>1 DEF ProcOK, Knows, Clear
  <2> QED BY <1>1, <2>2, MoveKeeps
<1> QED BY <1>1, <1>2, <1>3

\* Everything else than the processes and the disk is as it was.
LEMMA RestIs ==
  ASSUME DiskPart, Rest
  PROVE  /\ RemovalsFrom /\ remover' = remover /\ remover' \in [Removers -> Removals]
         /\ asked' = asked /\ completed' = completed /\ revived' = revived /\ nonces' = nonces /\ asked' \subseteq Dirs
         /\ completed' \subseteq Dirs /\ Doomed' = Doomed
BY DEF DiskPart, Rest, history, RemovalsFrom, Doomed

\* A step that leaves the disk alone.
LEMMA RestKeeps ==
  ASSUME DiskPart, Rest, Keep \/ SyncDirectory
  PROVE  DiskPart' /\ disk' = disk /\ nonces' = nonces /\ (Untouched => Untouched')
<1>1. Keep \/ Flush
  BY DEF SyncDirectory
<1>2. disk' = disk
  BY <1>1 DEF Keep, diskVars, Flush
<1> QED BY <1>1, <1>2, RestIs, KeepKeeps

\* A step that changes the disk.
LEMMA RestBecomes ==
  ASSUME DiskPart, Rest, NEW d, Follows(d), Become(d), Pending(d) => d.journal.dir \in Doomed
  PROVE  DiskPart' /\ disk' = d /\ nonces' = nonces /\ (Untouched => Untouched')
<1>1. disk' = d
  BY DEF Become
<1> QED BY <1>1, RestIs, BecomeKeeps

\* Where no reset is pending nothing is being removed that is still there.
LEMMA ClearIsUntouched ==
  ASSUME DiskPart, ~Pending(disk)
  PROVE  Untouched
BY DEF DiskPart, AskedFor, RemoverOK, Untouched, Condemned

-----------------------------------------------------------------------------
(* What a change of the journal keeps *)

\* A journal is dropped when nothing but somebody else's is at the paths of a
\* reset, and its directory is gone or was not touched.
LEMMA DropFollows ==
  ASSUME DiskPart,
         \A d \in Dirs \ Foreign : \A n \in Nonces : disk.place[d] \notin {Tombstone(n), Disposal(n)},
         Untouched \/ \A d \in Dirs : Condemned(disk, d) => disk.place[d] = Gone
  PROVE  Follows(Journaled(NoJournal)) /\ ~Pending(Journaled(NoJournal))
<1> DEFINE d == Journaled(NoJournal)
<1>1. /\ disk \in Disks /\ d \in Disks /\ d.content = disk.content /\ d.place = disk.place
      /\ d.journal = NoJournal /\ disk \in Outcomes /\ disk \in survivors
  BY JournaledFields, OutcomesAre DEF DiskPart, DiskTypes
<1> HIDE DEF d
<1>2. ~Pending(d) /\ \A x : ~Condemned(d, x)
  BY <1>1 DEF Pending, Condemned, NoJournal
<1>3. \A x \in Dirs : Lost(disk, x) => disk.place[x] = Gone
  BY <1>1 DEF DiskPart, AskedFor, Untouched
<1>4. DiskOK(d)
  <2>1. OneEach(d)
    BY <1>1 DEF DiskPart, DiskOK, OneEach
  <2>2. Named(d)
    BY <1>1 DEF Named
  <2>3. LostIsCondemned(d)
    BY <1>1, <1>3 DEF LostIsCondemned, Lost
  <2> QED BY <1>2, <2>1, <2>2, <2>3 DEF DiskOK
<1> QED BY <1>1, <1>2, <1>4 DEF Follows, Lost, d

\* A journal is written again, of the same reset.
LEMMA RewriteFollows ==
  ASSUME DiskPart, Pending(disk), NEW journal \in Journals, journal.version \in {3, 4},
         journal.nonce = disk.journal.nonce, journal.dir = disk.journal.dir
  PROVE  /\ Follows(Journaled(journal)) /\ Journaled(journal).journal = journal
         /\ Journaled(journal).place = disk.place
         /\ Pending(Journaled(journal)) => Journaled(journal).journal.dir \in Doomed
<1> DEFINE d == Journaled(journal)
<1>1. /\ disk \in Disks /\ d \in Disks /\ d.content = disk.content /\ d.place = disk.place
      /\ d.journal = journal /\ disk \in Outcomes /\ disk \in survivors
  BY JournaledFields, OutcomesAre DEF DiskPart, DiskTypes
<1> HIDE DEF d
<1>2. Pending(d) /\ \A x : Condemned(d, x) <=> Condemned(disk, x)
  BY <1>1 DEF Pending, Condemned
<1>3. DiskOK(disk)
  BY <1>1 DEF DiskPart
<1>4. DiskOK(d)
  <2>1. OneEach(d)
    BY <1>1, <1>3 DEF DiskOK, OneEach
  <2>2. Named(d)
    BY <1>1, <1>2, <1>3 DEF DiskOK, Named
  <2>3. LostIsCondemned(d)
    BY <1>1, <1>2, <1>3 DEF DiskOK, LostIsCondemned, Lost
  <2>4. Names(d.place, d.journal)
    BY <1>1, <1>3 DEF DiskOK, Names, PathsOf
  <2> QED BY <2>1, <2>2, <2>3, <2>4 DEF DiskOK
<1>5. disk.journal.dir \in Doomed
  BY <1>1 DEF DiskPart, AskedFor
<1>6. Follows(d)
  BY <1>1, <1>2, <1>4 DEF Follows, Lost
<1> QED BY <1>1, <1>5, <1>6 DEF d

\* A journal is written of a directory that is, or was, the profile, while no
\* other is pending.
LEMMA WriteFollows ==
  ASSUME DiskPart, disk.journal = NoJournal, NEW journal \in Journals, journal.version \in {3, 4},
         Names(disk.place, journal)
  PROVE  /\ Follows(Journaled(journal)) /\ Journaled(journal).journal = journal
         /\ Journaled(journal).place = disk.place
<1> DEFINE d == Journaled(journal)
<1>1. /\ disk \in Disks /\ d \in Disks /\ d.content = disk.content /\ d.place = disk.place
      /\ d.journal = journal /\ disk \in Outcomes /\ disk \in survivors
  BY JournaledFields, OutcomesAre DEF DiskPart, DiskTypes
<1> HIDE DEF d
<1>2. DiskOK(disk) /\ ~Pending(disk) /\ \A x : ~Condemned(disk, x)
  BY <1>1 DEF DiskPart, Pending, Condemned, NoJournal
<1>3. DiskOK(d)
  <2>1. OneEach(d)
    BY <1>1, <1>2 DEF DiskOK, OneEach
  <2>2. Named(d)
    BY <1>1, <1>2 DEF DiskOK, Named
  <2>3. LostIsCondemned(d)
    BY <1>1, <1>2 DEF DiskOK, LostIsCondemned, Lost
  <2> QED BY <1>1, <2>1, <2>2, <2>3 DEF DiskOK
<1>4. Follows(d)
  BY <1>1, <1>2, <1>3 DEF Follows, Lost
<1> QED BY <1>1, <1>4 DEF d

\* What is not named by a journal is at none of its paths.
LEMMA NoneRenamed ==
  ASSUME DiskPart, ~Pending(disk)
  PROVE  \A d \in Dirs \ Foreign : \A n \in Nonces : disk.place[d] \notin {Tombstone(n), Disposal(n)}
BY OutcomesAre DEF DiskPart, DiskOK, Named, Condemned

-----------------------------------------------------------------------------
(* Recovery *)

\* What a recovery may rely on between its awaits.
LEMMA KnowsWhat ==
  ASSUME ResetInvariantHolds, NEW p \in Processes, proc[p].at \in Knows
  PROVE  /\ proc[p].journal = disk.journal /\ disk.journal.version = 4 /\ Pending(disk)
         /\ Names(disk.place, disk.journal) /\ DiskOK(disk) /\ disk \in Disks
         /\ disk.journal \in Journals /\ disk.journal.dir \in Doomed /\ disk \in Outcomes /\ disk \in survivors
         /\ proc[p].at # "off"
<1>1. DiskPart /\ ProcPart /\ disk \in Disks /\ disk \in Outcomes /\ disk \in survivors
  BY OutcomesAre DEF ResetInvariantHolds, DiskPart, DiskTypes
<1>2. proc[p].journal = disk.journal /\ disk.journal.version = 4
  BY <1>1 DEF ProcPart, ProcOK
<1>3. DiskOK(disk) /\ Pending(disk) /\ disk.journal.dir \in Doomed
  BY <1>1, <1>2 DEF DiskPart, Pending, AskedFor
<1>4. disk.journal \in Journals
  BY <1>1, <1>2, DiskFields
<1> QED BY <1>1, <1>2, <1>3, <1>4 DEF DiskOK, Knows

\* A recovery that goes on with the same journal.
LEMMA GoesOnKnowing ==
  ASSUME ResetInvariantHolds, NEW p \in Processes, proc[p].at \in Knows, NEW at,
         at \in Knows \ {"renameRoot", "removeJournal"}, Goto(p, at), disk'.journal = disk.journal
  PROVE  ProcPart'
<1>1. ProcPart /\ proc[p].journal = disk.journal /\ disk.journal.version = 4 /\ proc[p].at # "off"
  BY KnowsWhat DEF ResetInvariantHolds
<1>2. at \in Steps /\ at # "off"
  BY DEF Knows, Steps, Preparing, Cancelling, Syncs
<1>3. OnlyMoves(p) /\ proc'[p].at = at /\ proc'[p].journal = proc[p].journal
  BY <1>1, <1>2, GotoMoves
<1>4. ProcOK(p)'
  BY <1>1, <1>3 DEF ProcOK, Knows, Clear, Preparing, Cancelling
<1> QED BY <1>1, <1>3, <1>4, MoveKeeps

\* A recovery that rejects.
LEMMA RejectsKnowing ==
  ASSUME ResetInvariantHolds, NEW p \in Processes, proc[p].at \in Knows, Reject(p)
  PROVE  ProcPart'
<1>1. ProcPart /\ proc[p].at # "off"
  BY KnowsWhat DEF ResetInvariantHolds
<1>2. proc[p].at \notin Preparing
  BY DEF Knows, Preparing
<1>3. OnlyMoves(p) /\ proc'[p].at \in {"off", "read", "quitting"}
  BY <1>1, <1>2, RejectMoves
<1> QED BY <1>1, <1>3, HarmlessOK, MoveKeeps

\* What follows a recovery that is over.
LEMMA AfterRecoveryKeeps ==
  ASSUME ResetInvariantHolds, NEW p \in Processes, proc[p].at # "off", NEW recovered,
         Goto(p, AfterRecovery(p, recovered)), ~Pending(disk), disk'.journal = NoJournal,
         Untouched => Untouched'
  PROVE  ProcPart'
<1>1. ProcPart /\ Untouched'
  BY ClearIsUntouched DEF ResetInvariantHolds
<1> DEFINE at == AfterRecovery(p, recovered)
<1>2. at \in {"makeRoot", "off", "verify"}
  BY DEF AfterRecovery
<1> HIDE DEF at
<1>3. OnlyMoves(p) /\ proc'[p].at = at
  BY <1>1, <1>2, GotoMoves DEF Steps, Preparing, at
<1>4. ProcOK(p)'
  BY <1>1, <1>2, <1>3 DEF ProcOK, Knows, Clear, Preparing, Cancelling, NoJournal
<1> QED BY <1>1, <1>3, <1>4, MoveKeeps

\* The journal is read, and one of an earlier version is dropped or rewritten.
LEMMA ReadSound ==
  ASSUME ResetInvariantHolds, NEW p \in Processes, Read(p)
  PROVE  ResetInvariantHolds'
<1>1. /\ DiskPart /\ ProcPart /\ nonces \in 0..MaxResets /\ disk \in Disks /\ Rest
      /\ proc[p].at = "read" /\ proc[p].at # "off"
  BY DEF ResetInvariantHolds, DiskPart, DiskTypes, Read
<1>2. disk.journal.version \in {0, 2, 3, 4} /\ (disk.journal.version = 0 => disk.journal = NoJournal)
  BY <1>1, DiskFields
<1> DEFINE current == [disk.journal EXCEPT !.version = 4]
           held == [proc EXCEPT ![p].journal = current]
<1>3. CASE disk.journal.version = 0
  <2>1. Goto(p, AfterRecovery(p, FALSE)) /\ Keep
    <3> DEFINE first == Goto(p, AfterRecovery(p, FALSE)) /\ Keep
               second == Goto(p, "syncLegacy") /\ Become(Journaled(NoJournal))
               third == IF At(Disposal(disk.journal.nonce)) # None THEN Reject(p) /\ Keep
                        ELSE proc' = [held EXCEPT ![p].at = "syncMigrated"] /\ Become(Journaled(current))
               fourth == proc' = [held EXCEPT ![p].at = "inspect"] /\ Keep
               version == disk.journal.version
    <3>1. (CASE version = 0 -> first [] version = 2 -> second [] version = 3 -> third [] OTHER -> fourth)
      BY Zenon DEF Read
    <3>2. version = 0
      BY <1>3
    <3> HIDE DEF first, second, third, fourth, version
    <3>3. first
      BY <3>1, <3>2
    <3> QED BY <3>3 DEF first
  <2>2. DiskPart' /\ disk' = disk /\ nonces' = nonces /\ (Untouched => Untouched')
    BY <1>1, <2>1, RestKeeps
  <2>3. ~Pending(disk) /\ disk'.journal = NoJournal
    BY <1>2, <1>3, <2>2 DEF Pending
  <2>4. ProcPart'
    BY <1>1, <2>1, <2>2, <2>3, AfterRecoveryKeeps
  <2> QED BY <1>1, <2>2, <2>4 DEF ResetInvariantHolds
<1>4. CASE disk.journal.version = 2
  <2>1. Goto(p, "syncLegacy") /\ Become(Journaled(NoJournal))
    BY <1>4 DEF Read
  <2>2. ~Pending(disk) /\ \A d \in Dirs : ~Condemned(disk, d)
    BY <1>4 DEF Pending, Condemned
  <2>3. Follows(Journaled(NoJournal)) /\ ~Pending(Journaled(NoJournal))
    BY <1>1, <2>2, NoneRenamed, DropFollows
  <2>4. DiskPart' /\ disk' = Journaled(NoJournal) /\ nonces' = nonces
    BY <1>1, <2>1, <2>3, RestBecomes
  <2>5. disk'.journal = NoJournal
    BY <1>1, <2>4, JournaledFields
  <2>6. OnlyMoves(p) /\ proc'[p].at = "syncLegacy"
    BY <1>1, <2>1, GotoMoves DEF Steps
  <2>7. ProcOK(p)'
    BY <2>5, <2>6 DEF ProcOK, Knows, Clear, Preparing, Cancelling
  <2> QED BY <1>1, <2>4, <2>6, <2>7, MoveKeeps DEF ResetInvariantHolds
<1>5. ASSUME NEW at \in {"inspect", "syncMigrated"}, disk.journal.version \in {3, 4},
             proc' = [held EXCEPT ![p].at = at], disk'.journal = current
      PROVE  ProcPart'
  <2>1. disk.journal \in Journals
    BY <1>1, <1>5, DiskFields
  <2>2. current \in Journals /\ current.version = 4
    BY <2>1 DEF Journals
  <2>3. proc \in [Processes -> Processing]
    BY <1>1 DEF ProcPart
  <2> DEFINE own == [proc[p] EXCEPT !.journal = current, !.at = at]
  <2>4. at \in Steps
    BY DEF Steps, Syncs
  <2> HIDE DEF current
  <2>5. own \in Processing /\ own.at = at /\ own.journal = current
    BY <2>2, <2>3, <2>4 DEF Processing
  <2>6. proc' = [proc EXCEPT ![p] = own]
    BY <1>5, <2>3
  <2> HIDE DEF own
  <2>7. OnlyMoves(p) /\ proc'[p].at = at /\ proc'[p].journal = current
    BY <2>3, <2>5, <2>6 DEF OnlyMoves
  <2>8. ProcOK(p)'
    BY <1>5, <2>2, <2>7 DEF ProcOK, Knows, Clear, Preparing, Cancelling
  <2> QED BY <1>1, <2>7, <2>8, MoveKeeps
<1>6. CASE disk.journal.version = 3 /\ At(Disposal(disk.journal.nonce)) # None
  <2>1. Reject(p) /\ Keep
    BY <1>6 DEF Read
  <2>2. DiskPart' /\ disk' = disk /\ nonces' = nonces /\ (Untouched => Untouched')
    BY <1>1, <2>1, RestKeeps
  <2>3. ProcPart'
    BY <1>1, <2>1, <2>2, RejectKeeps
  <2> QED BY <1>1, <2>2, <2>3 DEF ResetInvariantHolds
<1>7. CASE disk.journal.version = 3 /\ At(Disposal(disk.journal.nonce)) = None
  <2>1. proc' = [held EXCEPT ![p].at = "syncMigrated"] /\ Become(Journaled(current))
    BY <1>7 DEF Read
  <2>2. disk.journal \in Journals /\ Pending(disk)
    BY <1>1, <1>7, DiskFields DEF Pending
  <2>3. /\ current \in Journals /\ current.version = 4
        /\ current.nonce = disk.journal.nonce /\ current.dir = disk.journal.dir
    BY <2>2 DEF Journals
  <2> HIDE DEF current
  <2>4. /\ Follows(Journaled(current)) /\ Journaled(current).journal = current
        /\ Pending(Journaled(current)) => Journaled(current).journal.dir \in Doomed
    BY <1>1, <2>2, <2>3, RewriteFollows
  <2>5. DiskPart' /\ disk' = Journaled(current) /\ nonces' = nonces
    BY <1>1, <2>1, <2>4, RestBecomes
  <2>6. ProcPart'
    BY <1>5, <1>7, <2>1, <2>4, <2>5
  <2> QED BY <1>1, <2>5, <2>6 DEF ResetInvariantHolds
<1>8. CASE disk.journal.version = 4
  <2>1. proc' = [held EXCEPT ![p].at = "inspect"] /\ Keep
    BY <1>8 DEF Read
  <2>2. DiskPart' /\ disk' = disk /\ nonces' = nonces
    BY <1>1, <2>1, RestKeeps
  <2>3. disk.journal \in Journals
    BY <1>1, <1>8, DiskFields
  <2>4. disk'.journal = current
    BY <1>8, <2>2, <2>3 DEF Journals
  <2>5. ProcPart'
    BY <1>5, <1>8, <2>1, <2>4
  <2> QED BY <1>1, <2>2, <2>5 DEF ResetInvariantHolds
<1> QED BY <1>2, <1>3, <1>4, <1>6, <1>7, <1>8

\* The step that decides how far an interrupted reset got.
LEMMA InspectSound ==
  ASSUME ResetInvariantHolds, NEW p \in Processes, Inspect(p)
  PROVE  ResetInvariantHolds'
<1>1. DiskPart /\ ProcPart /\ nonces \in 0..MaxResets /\ Rest /\ Keep /\ proc[p].at \in Knows
  BY DEF ResetInvariantHolds, Inspect, Knows
<1>2. DiskPart' /\ disk' = disk /\ nonces' = nonces
  BY <1>1, RestKeeps
<1> DEFINE live == At(Root)
<1>3. \/ Reject(p)
      \/ Goto(p, "tombstone")
      \/ live # None /\ live = proc[p].journal.dir /\ Goto(p, "renameRoot")
  BY DEF Inspect
<1>4. CASE live # None /\ live = proc[p].journal.dir /\ Goto(p, "renameRoot")
  <2>1. proc[p].journal = disk.journal /\ disk.journal.version = 4 /\ DiskOK(disk) /\ proc[p].at # "off"
    BY <1>1, KnowsWhat
  <2>2. OnlyMoves(p) /\ proc'[p].at = "renameRoot" /\ proc'[p].journal = proc[p].journal
    BY <1>1, <1>4, GotoMoves DEF Steps
  <2>3. \A d \in Dirs : disk.place[d] = Root => d = live
    BY <2>1, AtIs, PathsKnown DEF DiskOK
  <2>4. ProcOK(p)'
    BY <1>2, <1>4, <2>1, <2>2, <2>3 DEF ProcOK, Knows, Clear, Preparing, Cancelling
  <2> QED BY <1>1, <1>2, <2>1, <2>2, <2>4, MoveKeeps DEF ResetInvariantHolds
<1>5. CASE Reject(p)
  BY <1>1, <1>2, <1>5, RejectsKnowing DEF ResetInvariantHolds
<1>6. CASE Goto(p, "tombstone")
  <2>1. "tombstone" \in Knows \ {"renameRoot", "removeJournal"}
    BY DEF Knows
  <2> QED BY <1>1, <1>2, <1>6, <2>1, GoesOnKnowing DEF ResetInvariantHolds
<1> QED BY <1>3, <1>4, <1>5, <1>6

\* A recovery that only looks, and goes on or rejects.
LEMMA LooksSound ==
  ASSUME ResetInvariantHolds, NEW p \in Processes, proc[p].at \in Knows, Rest, Keep \/ SyncDirectory,
         Reject(p) \/ \E at \in Knows \ {"renameRoot", "removeJournal"} : Goto(p, at)
  PROVE  ResetInvariantHolds'
<1>1. DiskPart /\ nonces \in 0..MaxResets
  BY DEF ResetInvariantHolds
<1>2. DiskPart' /\ disk' = disk /\ nonces' = nonces
  BY <1>1, RestKeeps
<1>3. ProcPart'
  BY <1>2, RejectsKnowing, GoesOnKnowing
<1> QED BY <1>1, <1>2, <1>3 DEF ResetInvariantHolds

\* A directory is renamed from one path of the pending reset to another that is free.
LEMMA RenameFollows ==
  ASSUME DiskPart, Pending(disk), NEW from \in PathsOf(disk.journal), NEW to \in PathsOf(disk.journal),
         At(from) # None, At(to) = None,
         At(from) \notin Foreign => to = Root \/ At(from) = disk.journal.dir
  PROVE  /\ Follows(Placed(At(from), to)) /\ Placed(At(from), to).journal = disk.journal
         /\ Pending(Placed(At(from), to)) => Placed(At(from), to).journal.dir \in Doomed
<1> DEFINE moved == At(from)
           d == Placed(moved, to)
<1>1. disk \in Disks /\ disk \in Outcomes /\ disk \in survivors /\ DiskOK(disk) /\ disk.journal.dir \in Doomed
  BY OutcomesAre DEF DiskPart, DiskTypes, AskedFor
<1>2. Names(disk.place, disk.journal) /\ disk.journal.nonce \in Nonces /\ disk.journal.dir \in Dirs
  BY <1>1 DEF DiskOK, Names
<1>3. from \in Paths /\ to \in Paths /\ to \in Places /\ to # Gone /\ from # Gone /\ from # Elsewhere
  BY <1>2, PathsKnown DEF PathsOf, Places
<1>4. moved \in Dirs /\ disk.place[moved] = from /\ \A x \in Dirs : disk.place[x] # to
  BY AtWhat
<1> HIDE DEF moved
<1>5. /\ d \in Disks /\ d.content = disk.content /\ d.journal = disk.journal /\ d.place[moved] = to
      /\ \A x \in Dirs : x # moved => d.place[x] = disk.place[x]
  BY <1>1, <1>3, <1>4, PlacedFields
<1> HIDE DEF d
<1>6. \A x : Condemned(d, x) <=> Condemned(disk, x)
  BY <1>5 DEF Condemned, Pending
<1>7. OneEach(d)
  BY <1>1, <1>4, <1>5 DEF DiskOK, OneEach
<1>8. Named(d)
  <2> SUFFICES ASSUME NEW x \in Dirs \ Foreign, NEW n \in Nonces, d.place[x] \in {Tombstone(n), Disposal(n)}
               PROVE  Condemned(d, x) /\ d.journal.nonce = n
    BY DEF Named
  <2>1. CASE x # moved
    BY <1>1, <1>5, <1>6, <2>1 DEF DiskOK, Named
  <2>2. CASE x = moved
    <3>1. to \in {Tombstone(n), Disposal(n)} /\ to # Root
      BY <1>5, <2>2, PathsApart
    <3>2. moved = disk.journal.dir
      BY <2>2, <3>1 DEF moved
    <3>3. n = disk.journal.nonce
      BY <3>1, PathsApart DEF PathsOf
    <3> QED BY <1>5, <2>2, <3>2, <3>3 DEF Condemned, Pending
  <2> QED BY <2>1, <2>2
<1>9. LostIsCondemned(d)
  BY <1>1, <1>3, <1>4, <1>5, <1>6 DEF DiskOK, LostIsCondemned, Lost
<1>10. Names(d.place, d.journal)
  <2>1. CASE disk.journal.dir = moved
    BY <1>2, <1>5, <2>1 DEF Names
  <2>2. CASE disk.journal.dir # moved /\ disk.place[disk.journal.dir] \in PathsOf(disk.journal) \cup {Gone}
    BY <1>2, <1>5, <2>2 DEF Names
  <2>3. CASE /\ disk.journal.dir # moved /\ disk.place[disk.journal.dir] = Elsewhere
             /\ \E x \in Dirs : disk.place[x] \in PathsOf(disk.journal)
    <3>1. \E x \in Dirs : d.place[x] \in PathsOf(disk.journal)
      BY <1>4, <1>5
    <3> QED BY <1>2, <1>5, <2>3, <3>1 DEF Names
  <2> QED BY <1>2, <2>1, <2>2, <2>3 DEF Names
<1>11. DiskOK(d)
  BY <1>7, <1>8, <1>9, <1>10 DEF DiskOK
<1>12. Follows(d)
  <2>1. \A x \in Dirs : disk.place[x] = Gone => d.place[x] = Gone
    BY <1>3, <1>4, <1>5
  <2>2. \A x \in Dirs : Lost(d, x) => Lost(disk, x)
    BY <1>5 DEF Lost
  <2> QED BY <1>5, <1>6, <1>11, <2>1, <2>2 DEF Follows
<1> QED BY <1>1, <1>5, <1>12 DEF d, moved

\* A rename of a recovery, of what it may take for the directory of its journal.
LEMMA MovesSound ==
  ASSUME ResetInvariantHolds, NEW p \in Processes, proc[p].at \in Knows, Rest,
         NEW from \in PathsOf(disk.journal), NEW to \in PathsOf(disk.journal),
         NEW at \in Knows \ {"renameRoot", "removeJournal"}, Moves(p, from, to, at),
         At(from) # None /\ At(from) \notin Foreign => At(from) = disk.journal.dir
  PROVE  ResetInvariantHolds'
<1>1. DiskPart /\ nonces \in 0..MaxResets /\ Pending(disk)
  BY KnowsWhat DEF ResetInvariantHolds
<1>2. CASE At(from) = None \/ At(to) # None
  BY <1>2, LooksSound DEF Moves
<1>3. CASE At(from) # None /\ At(to) = None
  <2>1. Goto(p, at) /\ Become(Placed(At(from), to))
    BY <1>3 DEF Moves, Rename
  <2>2. /\ Follows(Placed(At(from), to)) /\ Placed(At(from), to).journal = disk.journal
        /\ Pending(Placed(At(from), to)) => Placed(At(from), to).journal.dir \in Doomed
    BY <1>1, <1>3, RenameFollows
  <2>3. DiskPart' /\ disk' = Placed(At(from), to) /\ nonces' = nonces
    BY <1>1, <2>1, <2>2, RestBecomes
  <2>4. ProcPart'
    BY <2>1, <2>2, <2>3, GoesOnKnowing
  <2> QED BY <1>1, <2>3, <2>4 DEF ResetInvariantHolds
<1> QED BY <1>2, <1>3

\* What was renamed is looked at, and what somebody put there is put back.
LEMMA CheckSound ==
  ASSUME ResetInvariantHolds, NEW p \in Processes, proc[p].at \in Knows, Rest,
         NEW from \in PathsOf(disk.journal),
         NEW to \in {Tombstone(disk.journal.nonce), Disposal(disk.journal.nonce)},
         NEW at \in Knows \ {"renameRoot", "removeJournal"}, CheckRenamed(p, from, to, at)
  PROVE  ResetInvariantHolds'
<1>1. /\ DiskPart /\ ProcPart /\ nonces \in 0..MaxResets /\ Pending(disk) /\ DiskOK(disk)
      /\ proc[p].journal = disk.journal /\ disk.journal.nonce \in Nonces
  BY KnowsWhat DEF ResetInvariantHolds, Names
<1> DEFINE moved == At(to)
<1>2. CASE moved = disk.journal.dir
  BY <1>1, <1>2, LooksSound DEF CheckRenamed
<1>3. CASE /\ moved # disk.journal.dir
           /\ moved # None /\ At(from) = None /\ platform = "win32"
  <2>1. Reject(p) /\ Become(Placed(moved, from))
    BY <1>1, <1>3 DEF CheckRenamed, Rename
  <2>2. moved \in Foreign
    <3>1. moved \in Dirs /\ disk.place[moved] = to
      BY <1>3, AtWhat
    <3>2. moved \notin Foreign => Condemned(disk, moved)
      BY <1>1, <3>1 DEF DiskOK, Named
    <3> QED BY <1>3, <3>2 DEF Condemned
  <2>3. to \in PathsOf(disk.journal)
    BY DEF PathsOf
  <2>4. /\ Follows(Placed(moved, from)) /\ Placed(moved, from).journal = disk.journal
        /\ Pending(Placed(moved, from)) => Placed(moved, from).journal.dir \in Doomed
    BY <1>1, <1>3, <2>2, <2>3, RenameFollows
  <2>5. DiskPart' /\ nonces' = nonces
    BY <1>1, <2>1, <2>4, RestBecomes
  <2> QED BY <1>1, <2>1, <2>5, RejectsKnowing DEF ResetInvariantHolds
<1>4. CASE /\ moved # disk.journal.dir
           /\ ~(moved # None /\ At(from) = None /\ platform = "win32")
  <2>1. Reject(p) /\ Keep
    BY <1>1, <1>4 DEF CheckRenamed
  <2> QED BY <2>1, LooksSound
<1> QED BY <1>2, <1>3, <1>4

\* The renames of a recovery and what it finds of them.
LEMMA RenamesSound ==
  ASSUME ResetInvariantHolds, NEW p \in Processes,
         RenameRoot(p) \/ CheckTombstone(p) \/ RenameTombstone(p) \/ CheckDisposal(p)
  PROVE  ResetInvariantHolds'
<1>1. /\ proc[p].at \in Knows /\ Rest
      /\ {"syncRoot", "tombstone", "syncDisposal", "disposal"} \subseteq Knows \ {"renameRoot", "removeJournal"}
  BY DEF RenameRoot, CheckTombstone, RenameTombstone, CheckDisposal, Knows
<1> DEFINE n == disk.journal.nonce
<1>2. /\ proc[p].journal = disk.journal /\ n \in Nonces /\ DiskOK(disk) /\ ProcPart
      /\ Root \in PathsOf(disk.journal) /\ Tombstone(n) \in PathsOf(disk.journal)
      /\ Disposal(n) \in PathsOf(disk.journal)
  BY <1>1, KnowsWhat DEF ResetInvariantHolds, Names, PathsOf
<1>3. CASE RenameRoot(p)
  <2>1. Moves(p, Root, Tombstone(n), "syncRoot")
    BY <1>2, <1>3 DEF RenameRoot
  <2>2. At(Root) # None => At(Root) \in Dirs /\ disk.place[At(Root)] = Root
    BY AtWhat
  <2>3. \A d \in Dirs \ Foreign : disk.place[d] = Root => d = disk.journal.dir
    BY <1>2, <1>3 DEF RenameRoot, ProcPart, ProcOK
  <2> QED BY <1>1, <1>2, <2>1, <2>2, <2>3, MovesSound
<1>4. CASE CheckTombstone(p)
  BY <1>1, <1>2, <1>4, CheckSound DEF CheckTombstone
<1>5. CASE RenameTombstone(p)
  <2>1. Moves(p, Tombstone(n), Disposal(n), "syncDisposal")
    BY <1>2, <1>5 DEF RenameTombstone
  <2>2. At(Tombstone(n)) # None => At(Tombstone(n)) \in Dirs /\ disk.place[At(Tombstone(n))] = Tombstone(n)
    BY AtWhat
  <2>3. At(Tombstone(n)) # None /\ At(Tombstone(n)) \notin Foreign => At(Tombstone(n)) = disk.journal.dir
    BY <1>2, <2>2 DEF DiskOK, Named, Condemned
  <2> QED BY <1>1, <1>2, <2>1, <2>3, MovesSound
<1>6. CASE CheckDisposal(p)
  BY <1>1, <1>2, <1>6, CheckSound DEF CheckDisposal
<1> QED BY <1>3, <1>4, <1>5, <1>6

\* The directory that is at a path is looked at.
LEMMA LookAtLooks ==
  ASSUME NEW p \in Processes, NEW path, NEW missing, NEW found,
         missing \in Knows \ {"renameRoot", "removeJournal"} \/ missing = "off",
         found \in Knows \ {"renameRoot", "removeJournal"}, LookAt(p, path, missing, found)
  PROVE  Rest /\ Keep /\ (Reject(p) \/ \E at \in Knows \ {"renameRoot", "removeJournal"} : Goto(p, at))
<1>1. Rest /\ Keep /\ (Reject(p) \/ (missing # "off" /\ Goto(p, missing)) \/ Goto(p, found))
  BY DEF LookAt
<1> QED BY <1>1

\* A recovery looks at a directory before it acts on it.
LEMMA LooksAtSound ==
  ASSUME ResetInvariantHolds, NEW p \in Processes,
         LookAtTombstone(p) \/ LookAtTombstoneAgain(p) \/ LookAtDisposal(p) \/ LookAtDisposalAgain(p)
  PROVE  ResetInvariantHolds'
<1>1. proc[p].at \in Knows
  BY DEF LookAtTombstone, LookAtTombstoneAgain, LookAtDisposal, LookAtDisposalAgain, Knows
<1>2. {"disposal", "tombstoneAgain", "renameTombstone", "writePhase", "final", "disposalAgain", "launch"}
        \subseteq Knows \ {"renameRoot", "removeJournal"}
  BY DEF Knows
<1>3. Rest /\ Keep /\ (Reject(p) \/ \E at \in Knows \ {"renameRoot", "removeJournal"} : Goto(p, at))
  <2>1. CASE LookAtTombstone(p)
    BY <1>2, <2>1, LookAtLooks DEF LookAtTombstone
  <2>2. CASE LookAtTombstoneAgain(p)
    <3> DEFINE found == IF proc[p].journal.phase = "disposal-pending" THEN "renameTombstone" ELSE "writePhase"
    <3>1. found \in Knows \ {"renameRoot", "removeJournal"}
      BY <1>2
    <3>2. LookAt(p, Tombstone(proc[p].journal.nonce), "off", found)
      BY <2>2 DEF LookAtTombstoneAgain
    <3> HIDE DEF found
    <3> QED BY <3>1, <3>2, LookAtLooks
  <2>3. CASE LookAtDisposal(p)
    BY <1>2, <2>3, LookAtLooks DEF LookAtDisposal
  <2>4. CASE LookAtDisposalAgain(p)
    BY <1>2, <2>4, LookAtLooks DEF LookAtDisposalAgain
  <2> QED BY <2>1, <2>2, <2>3, <2>4
<1> QED BY <1>1, <1>3, LooksSound

\* The journal says that the directory is at its tombstone.
LEMMA WritePhaseSound ==
  ASSUME ResetInvariantHolds, NEW p \in Processes, WritePhase(p)
  PROVE  ResetInvariantHolds'
<1>1. proc[p].at \in Knows /\ Rest
  BY DEF WritePhase, Knows
<1>2. /\ DiskPart /\ ProcPart /\ nonces \in 0..MaxResets /\ Pending(disk) /\ disk.journal \in Journals
      /\ proc[p].journal = disk.journal /\ disk.journal.version = 4 /\ proc[p].at # "off"
  BY <1>1, KnowsWhat DEF ResetInvariantHolds
<1> DEFINE journal == [disk.journal EXCEPT !.phase = "disposal-pending"]
<1>3. /\ journal \in Journals /\ journal.version = 4
      /\ journal.nonce = disk.journal.nonce /\ journal.dir = disk.journal.dir
  BY <1>2 DEF Journals
<1>4. /\ proc' = [proc EXCEPT ![p].at = "syncPhase", ![p].journal = journal]
      /\ Become(Journaled(journal))
  BY <1>2 DEF WritePhase
<1> HIDE DEF journal
<1>5. /\ Follows(Journaled(journal)) /\ Journaled(journal).journal = journal
      /\ Pending(Journaled(journal)) => Journaled(journal).journal.dir \in Doomed
  BY <1>2, <1>3, RewriteFollows
<1>6. DiskPart' /\ disk' = Journaled(journal) /\ nonces' = nonces
  BY <1>1, <1>2, <1>4, <1>5, RestBecomes
<1>7. OnlyMoves(p) /\ proc'[p].at = "syncPhase" /\ proc'[p].journal = journal
  <2>1. proc \in [Processes -> Processing] /\ "syncPhase" \in Steps
    BY <1>2 DEF ProcPart, Steps, Syncs
  <2> DEFINE own == [proc[p] EXCEPT !.at = "syncPhase", !.journal = journal]
  <2>2. own \in Processing /\ own.at = "syncPhase" /\ own.journal = journal
    BY <1>3, <2>1 DEF Processing
  <2>3. proc' = [proc EXCEPT ![p] = own]
    BY <1>4, <2>1
  <2> HIDE DEF own
  <2> QED BY <2>1, <2>2, <2>3 DEF OnlyMoves
<1>8. ProcOK(p)'
  BY <1>3, <1>5, <1>6, <1>7 DEF ProcOK, Knows, Clear, Preparing, Cancelling
<1>9. ProcPart'
  BY <1>2, <1>7, <1>8, MoveKeeps
<1> QED BY <1>2, <1>6, <1>9 DEF ResetInvariantHolds

\* The removal of the directory is started: it is what the journal names.
LEMMA LaunchRemoverSound ==
  ASSUME ResetInvariantHolds, NEW p \in Processes, LaunchRemover(p)
  PROVE  ResetInvariantHolds'
<1>1. proc[p].at \in Knows /\ Keep /\ Goto(p, "removing")
      /\ asked' = asked /\ completed' = completed /\ revived' = revived /\ nonces' = nonces
  BY DEF LaunchRemover, history, Knows
<1>2. /\ DiskPart /\ nonces \in 0..MaxResets /\ Pending(disk)
      /\ proc[p].journal = disk.journal /\ Names(disk.place, disk.journal) /\ disk.journal.dir \in Doomed
  BY <1>1, KnowsWhat DEF ResetInvariantHolds
<1>3. disk' = disk /\ Outcomes' = Outcomes /\ survivors' = survivors /\ Doomed' = Doomed
  BY <1>1, OutcomesAre DEF Keep, diskVars, Doomed
<1>4. ProcPart'
  <2>1. "removing" \in Knows \ {"renameRoot", "removeJournal"}
    BY DEF Knows
  <2> QED BY <1>1, <1>3, <2>1, GoesOnKnowing
<1> DEFINE removal == [stage |-> "opening", dir |-> disk.journal.dir, nonce |-> disk.journal.nonce]
<1>5. removal \in Removals
  BY <1>2 DEF Removals, Names
<1>6. /\ remover \in [Removers -> Removals] /\ p \in Removers
      /\ remover' = [remover EXCEPT ![p] = removal]
  BY <1>2 DEF DiskPart, LaunchRemover, Removers
<1>7. remover' \in [Removers -> Removals]
  BY <1>5, <1>6
<1>8. ASSUME NEW s \in Removers PROVE RemoverOK(s)'
  <2>1. CASE s = p
    BY <1>1, <1>2, <1>3, <1>6, <2>1 DEF RemoverOK, Condemned, Names, Pending
  <2>2. CASE s # p
    BY <1>1, <1>2, <1>3, <1>6, <2>2 DEF DiskPart, RemoverOK
  <2> QED BY <2>1, <2>2
<1>9. DiskPart'
  <2>1. DiskTypes'
    BY <1>1, <1>2 DEF DiskPart, DiskTypes, Keep, diskVars
  <2>2. AskedFor' /\ Finished' /\ \A v \in survivors' : DiskOK(v)
    BY <1>1, <1>2, <1>3 DEF DiskPart, AskedFor, Finished
  <2> QED BY <1>1, <1>2, <1>7, <1>8, <2>1, <2>2 DEF DiskPart
<1> QED BY <1>1, <1>2, <1>4, <1>9 DEF ResetInvariantHolds

\* A removal that is over, or is another's from now on, leaves those that were.
LEMMA RemovalEnds ==
  ASSUME DiskPart, NEW s \in Removers, NEW removal \in Removals, removal.stage \notin Active,
         remover' = [remover EXCEPT ![s] = removal]
  PROVE  RemovalsFrom /\ remover' \in [Removers -> Removals]
<1>1. remover \in [Removers -> Removals]
  BY DEF DiskPart
<1>2. \A r \in Removers : remover'[r] = IF r = s THEN removal ELSE remover[r]
  BY <1>1
<1> QED BY <1>1, <1>2 DEF RemovalsFrom

\* A removal that was not begun.
LEMMA IdleTyped ==
  Idle \in Removals /\ Idle.stage \notin Active
BY DEF Idle, Removals, Active

\* The recovery hears of the removal.
LEMMA RemoverAnswersSound ==
  ASSUME ResetInvariantHolds, NEW p \in Processes, RemoverAnswers(p)
  PROVE  ResetInvariantHolds'
<1>1. /\ proc[p].at \in Knows /\ Keep /\ (Reject(p) \/ Goto(p, "removed"))
      /\ remover' = [remover EXCEPT ![p] = Idle]
      /\ nonces' = nonces /\ asked' = asked /\ completed' = completed /\ revived' = revived
  BY DEF RemoverAnswers, history, Knows
<1>2. DiskPart /\ nonces \in 0..MaxResets /\ completed \subseteq Dirs
  BY DEF ResetInvariantHolds, DiskPart
<1>3. p \in Removers
  BY DEF Removers
<1>4. DiskPart'
  BY <1>1, <1>2, <1>3, IdleTyped, RemovalEnds, KeepKeeps
<1>5. ProcPart'
  <2>1. "removed" \in Knows \ {"renameRoot", "removeJournal"} /\ disk' = disk
    BY <1>1 DEF Knows, Keep, diskVars
  <2> QED BY <1>1, <2>1, RejectsKnowing, GoesOnKnowing
<1> QED BY <1>1, <1>2, <1>4, <1>5 DEF ResetInvariantHolds

\* The recovery sees whether the directory was removed.
LEMMA RemovedSound ==
  ASSUME ResetInvariantHolds, NEW p \in Processes, Removed(p)
  PROVE  ResetInvariantHolds'
<1>1. proc[p].at \in Knows /\ Rest /\ Keep /\ (Reject(p) \/ Goto(p, "syncRemoval"))
  BY DEF Removed, Knows
<1>2. "syncRemoval" \in Knows \ {"renameRoot", "removeJournal"}
  BY DEF Knows
<1> QED BY <1>1, <1>2, LooksSound

\* Where nothing is at the paths of the reset, its directory is gone.
LEMMA FinalCheckSound ==
  ASSUME ResetInvariantHolds, NEW p \in Processes, FinalCheck(p)
  PROVE  ResetInvariantHolds'
<1>1. proc[p].at \in Knows /\ Rest /\ Keep
  BY DEF FinalCheck, Knows
<1>2. /\ DiskPart /\ ProcPart /\ nonces \in 0..MaxResets /\ proc[p].at # "off"
      /\ proc[p].journal = disk.journal /\ disk.journal.version = 4 /\ Names(disk.place, disk.journal)
  BY <1>1, KnowsWhat DEF ResetInvariantHolds
<1>3. CASE Reject(p)
  BY <1>1, <1>3, LooksSound
<1>4. CASE /\ \A path \in PathsOf(disk.journal) : At(path) = None
           /\ Goto(p, "removeJournal")
  <2>1. DiskPart' /\ disk' = disk /\ nonces' = nonces
    BY <1>1, <1>2, RestKeeps
  <2>2. \A d \in Dirs : disk.place[d] \notin PathsOf(disk.journal)
    BY <1>4, AtWhat
  <2>3. disk.journal.dir \in Dirs /\ disk.place[disk.journal.dir] = Gone
    BY <1>2, <2>2 DEF Names
  <2>4. OnlyMoves(p) /\ proc'[p].at = "removeJournal" /\ proc'[p].journal = proc[p].journal
    BY <1>2, <1>4, GotoMoves DEF Steps
  <2>5. ProcOK(p)'
    BY <1>2, <2>1, <2>3, <2>4 DEF ProcOK, Knows, Clear, Preparing, Cancelling
  <2> QED BY <1>2, <2>1, <2>4, <2>5, MoveKeeps DEF ResetInvariantHolds
<1>5. Reject(p) \/ ((\A path \in PathsOf(disk.journal) : At(path) = None) /\ Goto(p, "removeJournal"))
  BY <1>2 DEF FinalCheck, PathsOf
<1> QED BY <1>3, <1>4, <1>5

\* The journal is dropped once its directory is gone.
LEMMA RemoveJournalSound ==
  ASSUME ResetInvariantHolds, NEW p \in Processes, RemoveJournal(p)
  PROVE  ResetInvariantHolds'
<1>1. /\ proc[p].at = "removeJournal" /\ proc[p].at \in Knows /\ Rest
      /\ Goto(p, "syncJournal") /\ Become(Journaled(NoJournal))
  BY DEF RemoveJournal, Knows
<1>2. /\ DiskPart /\ ProcPart /\ nonces \in 0..MaxResets /\ DiskOK(disk) /\ disk \in Disks
      /\ proc[p].journal = disk.journal /\ proc[p].at # "off"
  BY <1>1, KnowsWhat DEF ResetInvariantHolds
<1> DEFINE dir == disk.journal.dir
<1>3. dir \in Dirs /\ disk.place[dir] = Gone
  BY <1>1, <1>2 DEF ProcPart, ProcOK
<1>4. \A d \in Dirs \ Foreign : \A n \in Nonces : disk.place[d] \notin {Tombstone(n), Disposal(n)}
  <2>1. \A n : Tombstone(n) # Gone /\ Disposal(n) # Gone
    BY PathsApart
  <2> QED BY <1>2, <1>3, <2>1 DEF DiskOK, Named, Condemned
<1>5. \A d \in Dirs : Condemned(disk, d) => disk.place[d] = Gone
  BY <1>3 DEF Condemned
<1>6. Follows(Journaled(NoJournal)) /\ ~Pending(Journaled(NoJournal))
  BY <1>2, <1>4, <1>5, DropFollows
<1>7. DiskPart' /\ disk' = Journaled(NoJournal) /\ nonces' = nonces
  BY <1>1, <1>2, <1>6, RestBecomes
<1>8. disk'.journal = NoJournal /\ disk'.place = disk.place
  BY <1>2, <1>7, JournaledFields
<1>9. OnlyMoves(p) /\ proc'[p].at = "syncJournal" /\ proc'[p].journal = disk.journal
  BY <1>1, <1>2, GotoMoves DEF Steps
<1>10. ProcOK(p)'
  BY <1>3, <1>8, <1>9 DEF ProcOK, Knows, Clear, Preparing, Cancelling
<1> QED BY <1>2, <1>7, <1>9, <1>10, MoveKeeps DEF ResetInvariantHolds

\* What a loss of power may leave once the directory was synchronised.
LEMMA OutcomesSynced ==
  ASSUME DiskPart, SyncDirectory
  PROVE  disk' = disk /\ Outcomes' = {disk}
BY DEF DiskPart, DiskTypes, SyncDirectory, Flush, Keep, diskVars, Outcomes

\* A reset is reported complete: no loss of power brings its directory back.
LEMMA CompleteSound ==
  ASSUME ResetInvariantHolds, NEW p \in Processes, Complete(p)
  PROVE  ResetInvariantHolds'
<1>1. /\ proc[p].at = "syncJournal" /\ SyncDirectory /\ Goto(p, AfterRecovery(p, TRUE))
      /\ completed' = completed \cup {proc[p].journal.dir}
      /\ remover' = remover /\ asked' = asked /\ nonces' = nonces /\ revived' = revived
  BY DEF Complete
<1>2. /\ DiskPart /\ ProcPart /\ nonces \in 0..MaxResets
      /\ remover \in [Removers -> Removals] /\ completed \subseteq Dirs
  BY DEF ResetInvariantHolds, DiskPart
<1>3. /\ disk.journal = NoJournal
      /\ proc[p].journal.dir \in Dirs /\ disk.place[proc[p].journal.dir] = Gone
  BY <1>1, <1>2 DEF ProcPart, ProcOK, Clear
<1>4. disk' = disk /\ Outcomes' = {disk}
  BY <1>1, <1>2, OutcomesSynced
<1>5. DiskPart' /\ (Untouched => Untouched')
  <2>1. Keep \/ Flush
    BY <1>1 DEF SyncDirectory
  <2>2. RemovalsFrom /\ completed' \subseteq Dirs
    BY <1>1, <1>2, <1>3 DEF RemovalsFrom
  <2>3. \A d \in completed' \ completed : \A v \in Outcomes' : v.place[d] = Gone
    BY <1>1, <1>3, <1>4
  <2> QED BY <1>1, <1>2, <2>1, <2>2, <2>3, KeepKeeps
<1>6. ~Pending(disk) /\ disk'.journal = NoJournal
  BY <1>3, <1>4 DEF Pending, NoJournal
<1>7. ProcPart'
  BY <1>1, <1>5, <1>6, AfterRecoveryKeeps
<1> QED BY <1>1, <1>2, <1>5, <1>7 DEF ResetInvariantHolds

\* A synchronisation lets its process go on.
LEMMA SyncSound ==
  ASSUME ResetInvariantHolds, NEW p \in Processes, Sync(p)
  PROVE  ResetInvariantHolds'
<1>1. Rest /\ SyncDirectory /\ DiskPart /\ ProcPart /\ nonces \in 0..MaxResets
  BY DEF Sync, ResetInvariantHolds
<1>2. DiskPart' /\ disk' = disk /\ nonces' = nonces /\ (Untouched => Untouched')
  BY <1>1, RestKeeps
<1>3. CASE proc[p].at = "syncLegacy"
  <2>1. Goto(p, AfterRecovery(p, FALSE))
    BY <1>3 DEF Sync, Syncs
  <2>2. disk.journal = NoJournal /\ ~Pending(disk) /\ proc[p].at # "off"
    BY <1>1, <1>3 DEF ProcPart, ProcOK, Clear, Pending, NoJournal
  <2>3. ProcPart'
    BY <1>2, <2>1, <2>2, AfterRecoveryKeeps
  <2> QED BY <1>1, <1>2, <2>3 DEF ResetInvariantHolds
<1>4. CASE proc[p].at = "cancelSync"
  <2>1. Goto(p, "cancelCheck")
    BY <1>4 DEF Sync, Syncs
  <2>2. OnlyMoves(p) /\ proc'[p].at = "cancelCheck" /\ proc'[p].journal = proc[p].journal
    BY <1>1, <2>1, GotoMoves DEF Steps, Cancelling
  <2>3. disk.journal = NoJournal /\ Held(proc[p].journal) /\ Untouched /\ proc[p].at # "off"
    BY <1>1, <1>4 DEF ProcPart, ProcOK, Clear, Cancelling
  <2>4. Outcomes' = {disk}
    BY <1>1, OutcomesSynced
  <2>5. Held(proc[p].journal)'
    BY <1>1, <1>2, <2>2, <2>3 DEF Held, Rest, history, Doomed
  <2>6. ProcOK(p)'
    BY <1>2, <2>2, <2>3, <2>4, <2>5 DEF ProcOK, Knows, Clear, Preparing, Cancelling, NoJournal
  <2> QED BY <1>1, <1>2, <2>2, <2>3, <2>6, MoveKeeps DEF ResetInvariantHolds
<1>5. CASE proc[p].at \in DOMAIN Syncs \ {"cancelSync"}
  <2>1. proc[p].at \in Knows /\ Syncs[proc[p].at] \in Knows \ {"renameRoot", "removeJournal"}
    BY <1>5 DEF Syncs, Knows
  <2>2. Goto(p, Syncs[proc[p].at])
    BY <1>5 DEF Sync, Syncs
  <2> QED BY <1>1, <2>1, <2>2, LooksSound
<1> QED BY <1>3, <1>4, <1>5 DEF Sync

\* Every step of a recovery.
LEMMA RecoverSound ==
  ASSUME ResetInvariantHolds, NEW p \in Processes, Recover(p)
  PROVE  ResetInvariantHolds'
BY ReadSound, InspectSound, RenamesSound, LooksAtSound, WritePhaseSound, LaunchRemoverSound,
   RemoverAnswersSound, RemovedSound, FinalCheckSound, RemoveJournalSound, CompleteSound, SyncSound
   DEF Recover

-----------------------------------------------------------------------------
(* Preparation and cancellation *)

\* A process whose record is given by its step as a whole.
LEMMA TurnsMoves ==
  ASSUME ProcPart, NEW p \in Processes, NEW own \in Processing, proc' = [proc EXCEPT ![p] = own]
  PROVE  OnlyMoves(p) /\ proc'[p] = own
BY DEF ProcPart, OnlyMoves

\* What the root is when it is verified.
LEMMA VerifySound ==
  ASSUME ResetInvariantHolds, NEW p \in Processes, Verify(p)
  PROVE  ResetInvariantHolds'
<1>1. /\ DiskPart /\ ProcPart /\ nonces \in 0..MaxResets /\ Rest /\ Keep
      /\ proc[p].at = "verify" /\ proc[p].at # "off" /\ proc[p] \in Processing
  BY DEF ResetInvariantHolds, Verify, ProcPart
<1>2. DiskPart' /\ disk' = disk /\ nonces' = nonces /\ (Untouched => Untouched')
  BY <1>1, RestKeeps
<1>3. CASE Reject(p)
  BY <1>1, <1>2, <1>3, RejectKeeps DEF ResetInvariantHolds
<1>4. CASE At(Root) # None /\ proc' = [proc EXCEPT ![p].at = "writeJournal", ![p].dir = At(Root)]
  <2>1. At(Root) \in Dirs /\ disk.place[At(Root)] = Root
    BY <1>4, AtWhat
  <2> DEFINE own == [proc[p] EXCEPT !.at = "writeJournal", !.dir = At(Root)]
  <2>2. own \in Processing /\ own.at = "writeJournal" /\ own.dir = At(Root)
    BY <1>1, <2>1 DEF Processing, Steps, Preparing
  <2>3. proc' = [proc EXCEPT ![p] = own]
    BY <1>1, <1>4 DEF ProcPart, Processing
  <2> HIDE DEF own
  <2>4. OnlyMoves(p) /\ proc'[p] = own
    BY <1>1, <2>2, <2>3, TurnsMoves
  <2>5. Untouched /\ disk.journal = NoJournal /\ disk.journal.version # 2
    BY <1>1 DEF ProcPart, ProcOK, Preparing, Clear, NoJournal
  <2>6. ProcOK(p)'
    BY <1>2, <2>1, <2>2, <2>4, <2>5 DEF ProcOK, Knows, Clear, Preparing, Cancelling, WasRoot
  <2> QED BY <1>1, <1>2, <2>4, <2>6, MoveKeeps DEF ResetInvariantHolds
<1> QED BY <1>3, <1>4 DEF Verify

\* The reset is asked for: its journal names what was verified.
LEMMA WriteJournalSound ==
  ASSUME ResetInvariantHolds, NEW p \in Processes, WriteJournal(p)
  PROVE  ResetInvariantHolds'
<1> DEFINE dir == proc[p].dir
           journal == [version |-> 4, nonce |-> nonces + 1, dir |-> dir, phase |-> "rename-pending"]
<1>1. /\ DiskPart /\ ProcPart /\ nonces \in 0..MaxResets /\ nonces < MaxResets /\ nonces' = nonces + 1
      /\ proc[p].at = "writeJournal" /\ proc[p].at # "off" /\ Become(Journaled(journal))
      /\ asked' = asked \cup {dir} /\ Goto(p, "syncWrite") /\ remover' = remover /\ completed' = completed
      /\ revived' = revived
  BY DEF ResetInvariantHolds, WriteJournal
<1>2. Untouched /\ disk.journal = NoJournal /\ WasRoot(disk.place, dir)
  BY <1>1 DEF ProcPart, ProcOK, Preparing, Clear
<1>3. /\ nonces + 1 \in Nonces /\ nonces' \in 0..MaxResets
  BY <1>1, ResetsAssumption DEF Nonces
<1>4. journal \in Journals /\ journal.version = 4 /\ journal.dir = dir /\ Names(disk.place, journal)
  BY <1>2, <1>3 DEF WasRoot, Journals, Names, PathsOf
<1> HIDE DEF journal, dir
<1>5. Follows(Journaled(journal)) /\ Journaled(journal).journal = journal
  BY <1>1, <1>2, <1>4, WriteFollows
<1>6. DiskPart' /\ (Untouched => Untouched')
  <2>1. RemovalsFrom /\ remover' \in [Removers -> Removals] /\ asked \subseteq asked' /\ asked' \subseteq Dirs
    BY <1>1, <1>2 DEF DiskPart, RemovalsFrom, WasRoot
  <2>2. Journaled(journal).journal.dir \in Doomed'
    BY <1>1, <1>4, <1>5 DEF Doomed
  <2> QED BY <1>1, <1>5, <2>1, <2>2, BecomeKeeps
<1>7. OnlyMoves(p) /\ proc'[p].at = "syncWrite"
  BY <1>1, GotoMoves DEF Steps, Preparing
<1>8. disk'.journal.version # 2
  BY <1>1, <1>4, <1>5 DEF Become
<1>9. ProcOK(p)'
  BY <1>2, <1>6, <1>7, <1>8 DEF ProcOK, Knows, Clear, Preparing, Cancelling
<1> QED BY <1>1, <1>3, <1>6, <1>7, <1>9, MoveKeeps DEF ResetInvariantHolds

\* The reset is on the medium.
LEMMA PreparedSound ==
  ASSUME ResetInvariantHolds, NEW p \in Processes, Prepared(p)
  PROVE  ResetInvariantHolds'
<1> DEFINE at == IF p = "uninstall" THEN "read" ELSE IF proc[p].late THEN "quitting" ELSE "draining"
           own == [proc[p] EXCEPT !.prepared = TRUE, !.at = at]
<1>1. /\ DiskPart /\ ProcPart /\ nonces \in 0..MaxResets /\ Rest /\ SyncDirectory
      /\ proc[p].at = "syncWrite" /\ proc[p].at # "off" /\ proc[p] \in Processing
      /\ proc' = [proc EXCEPT ![p] = own]
  BY DEF ResetInvariantHolds, Prepared, ProcPart
<1>2. DiskPart' /\ disk' = disk /\ nonces' = nonces /\ (Untouched => Untouched')
  BY <1>1, RestKeeps
<1>3. at \in {"read", "quitting", "draining"}
  OBVIOUS
<1> HIDE DEF at
<1>4. own \in Processing /\ own.at = at
  BY <1>1, <1>3 DEF Processing, Steps, Preparing
<1> HIDE DEF own
<1>5. OnlyMoves(p) /\ proc'[p].at = at
  BY <1>1, <1>4, TurnsMoves
<1>6. Untouched /\ disk.journal.version # 2
  BY <1>1 DEF ProcPart, ProcOK, Preparing
<1>7. ProcOK(p)'
  BY <1>2, <1>3, <1>5, <1>6 DEF ProcOK, Knows, Clear, Preparing, Cancelling
<1> QED BY <1>1, <1>2, <1>5, <1>7, MoveKeeps DEF ResetInvariantHolds

\* Nothing of a reset that is to be cancelled was renamed.
LEMMA CancelSound ==
  ASSUME ResetInvariantHolds, Cancel
  PROVE  ResetInvariantHolds'
<1> DEFINE p == "app"
           own == [proc[p] EXCEPT !.at = "cancelRemove", !.journal = disk.journal]
<1>1. /\ DiskPart /\ ProcPart /\ nonces \in 0..MaxResets /\ Rest /\ Keep /\ p \in Processes /\ disk \in Disks
      /\ proc[p].at = "cancel" /\ proc[p].at # "off" /\ proc[p] \in Processing
  BY DEF ResetInvariantHolds, Cancel, ProcPart, Processes, DiskPart, DiskTypes
<1>2. DiskPart' /\ disk' = disk /\ nonces' = nonces /\ (Untouched => Untouched')
  BY <1>1, RestKeeps
<1>3. CASE Reject("app")
  BY <1>1, <1>2, <1>3, RejectKeeps DEF ResetInvariantHolds
<1>4. CASE ~Moved(disk.journal) /\ proc' = [proc EXCEPT !["app"].at = "cancelRemove", !["app"].journal = disk.journal]
  <2>1. disk.journal \in Journals \cup {NoJournal}
    BY <1>1, DiskFields
  <2>2. own \in Processing /\ own.at = "cancelRemove" /\ own.journal = disk.journal
    BY <1>1, <2>1 DEF Processing, Steps, Cancelling
  <2>3. proc' = [proc EXCEPT ![p] = own]
    BY <1>1, <1>4 DEF ProcPart, Processing
  <2> HIDE DEF own
  <2>4. OnlyMoves(p) /\ proc'[p] = own
    BY <1>1, <2>2, <2>3, TurnsMoves
  <2>5. Untouched /\ disk.journal.version # 2
    BY <1>1 DEF ProcPart, ProcOK, Cancelling
  <2>6. disk.journal # NoJournal => \A d \in Dirs :
          disk.place[d] \notin {Tombstone(disk.journal.nonce), Disposal(disk.journal.nonce)}
    BY <1>4, AtWhat DEF Moved
  <2>7. ProcOK(p)'
    BY <1>2, <2>2, <2>4, <2>5, <2>6 DEF ProcOK, Knows, Clear, Preparing, Cancelling
  <2> QED BY <1>1, <1>2, <2>4, <2>7, MoveKeeps DEF ResetInvariantHolds
<1> QED BY <1>3, <1>4 DEF Cancel

\* The journal of a reset that is cancelled is dropped, and held to be written again.
LEMMA CancelRemoveSound ==
  ASSUME ResetInvariantHolds, CancelRemove
  PROVE  ResetInvariantHolds'
<1> DEFINE p == "app"
<1>1. /\ DiskPart /\ ProcPart /\ nonces \in 0..MaxResets /\ Rest /\ p \in Processes /\ disk \in Disks
      /\ proc[p].at = "cancelRemove" /\ proc[p].at # "off" /\ Goto(p, "cancelSync")
      /\ Become(Journaled(NoJournal)) /\ disk \in Outcomes /\ disk \in survivors /\ DiskOK(disk)
  BY OutcomesAre DEF ResetInvariantHolds, CancelRemove, Processes, DiskPart, DiskTypes
<1> HIDE DEF p
<1>2. /\ Untouched /\ disk.journal.version # 2 /\ disk.journal = proc[p].journal
      /\ disk.journal # NoJournal => \A d \in Dirs \ Foreign :
           disk.place[d] \notin {Tombstone(disk.journal.nonce), Disposal(disk.journal.nonce)}
  BY <1>1 DEF ProcPart, ProcOK, Cancelling
<1>3. disk.journal = NoJournal \/ Pending(disk)
  BY <1>1, <1>2, DiskFields DEF Pending
<1>4. \A d \in Dirs \ Foreign : \A n \in Nonces : disk.place[d] \notin {Tombstone(n), Disposal(n)}
  <2> SUFFICES ASSUME NEW d \in Dirs \ Foreign, NEW n \in Nonces, disk.place[d] \in {Tombstone(n), Disposal(n)}
               PROVE  FALSE
    OBVIOUS
  <2>1. Condemned(disk, d) /\ disk.journal.nonce = n
    BY <1>1 DEF DiskOK, Named
  <2>2. disk.journal # NoJournal
    BY <2>1 DEF Condemned, Pending, NoJournal
  <2> QED BY <1>2, <2>1, <2>2
<1>5. Follows(Journaled(NoJournal)) /\ ~Pending(Journaled(NoJournal))
  BY <1>1, <1>2, <1>4, DropFollows
<1>6. DiskPart' /\ disk' = Journaled(NoJournal) /\ nonces' = nonces /\ Untouched'
  BY <1>1, <1>2, <1>5, RestBecomes
<1>7. disk'.journal = NoJournal /\ disk'.place = disk.place /\ Doomed' = Doomed
  BY <1>1, <1>6, JournaledFields DEF Rest, history, Doomed
<1>8. OnlyMoves(p) /\ proc'[p].at = "cancelSync" /\ proc'[p].journal = disk.journal
  BY <1>1, <1>2, GotoMoves DEF Steps, Cancelling
<1>9. Held(proc[p].journal)'
  <2>1. Pending(disk) => disk.journal.dir \in Doomed /\ Names(disk.place, disk.journal)
    BY <1>1 DEF DiskPart, AskedFor, DiskOK
  <2> QED BY <1>3, <1>7, <1>8, <2>1 DEF Held, Pending
<1>10. ProcOK(p)'
  BY <1>6, <1>7, <1>8, <1>9 DEF ProcOK, Knows, Clear, Preparing, Cancelling, NoJournal
<1> QED BY <1>1, <1>6, <1>8, <1>10, MoveKeeps DEF ResetInvariantHolds

\* The reset is taken back, or found to have begun.
LEMMA CancelCheckSound ==
  ASSUME ResetInvariantHolds, CancelCheck
  PROVE  ResetInvariantHolds'
<1> DEFINE p == "app"
<1>1. /\ DiskPart /\ ProcPart /\ nonces \in 0..MaxResets /\ Keep /\ p \in Processes
      /\ proc[p].at = "cancelCheck" /\ proc[p].at # "off" /\ proc[p] \in Processing
      /\ remover' = remover /\ nonces' = nonces /\ completed' = completed /\ revived' = revived
  BY DEF ResetInvariantHolds, CancelCheck, Processes, ProcPart
<1>2. /\ Untouched /\ disk.journal = NoJournal /\ Held(proc[p].journal)
      /\ \A v \in Outcomes : v.journal = NoJournal
  BY <1>1 DEF ProcPart, ProcOK, Cancelling, Clear
<1>3. disk' = disk /\ Outcomes' = Outcomes /\ survivors' = survivors /\ platform' = platform
  BY <1>1, OutcomesAre DEF Keep, diskVars
<1>4. CASE Moved(proc["app"].journal) /\ Goto("app", "cancelRestore") /\ asked' = asked
  <2>1. DiskPart' /\ (Untouched => Untouched')
    BY <1>1, <1>4, KeepKeeps DEF DiskPart, RemovalsFrom
  <2>2. OnlyMoves(p) /\ proc'[p].at = "cancelRestore" /\ proc'[p].journal = proc[p].journal
    BY <1>1, <1>4, GotoMoves DEF Steps, Cancelling
  <2>3. Held(proc[p].journal)' /\ proc'[p].journal # NoJournal
    BY <1>1, <1>2, <1>3, <1>4, <2>2 DEF Held, Moved, Doomed
  <2>4. ProcOK(p)'
    BY <1>2, <1>3, <2>1, <2>2, <2>3 DEF ProcOK, Knows, Clear, Preparing, Cancelling, NoJournal
  <2> QED BY <1>1, <2>1, <2>2, <2>4, MoveKeeps DEF ResetInvariantHolds
<1>5. CASE /\ proc' = [proc EXCEPT !["app"].at = "quitting", !["app"].prepared = FALSE]
           /\ asked' = asked \/ asked' = asked \ {At(Root)}
  <2>1. \A x \in Dirs : disk.place[x] = Gone => x # At(Root)
    BY AtWhat, PathsApart, DirsAssumption DEF None
  <2>2. AskedFor'
    <3>1. ASSUME NEW v \in survivors, NEW x \in Dirs, Lost(v, x)
          PROVE  x \in Doomed' /\ disk.place[x] = Gone
      <4>1. x \in Doomed /\ disk.place[x] = Gone
        BY <1>1, <1>2, <3>1 DEF DiskPart, AskedFor, Untouched
      <4> QED BY <1>1, <1>5, <2>1, <4>1 DEF Doomed
    <3>2. \A v \in Outcomes : ~Pending(v)
      BY <1>2 DEF Pending, NoJournal
    <3> QED BY <1>3, <3>1, <3>2 DEF AskedFor
  <2>3. \A s \in Removers : RemoverOK(s)'
    <3> SUFFICES ASSUME NEW s \in Removers, remover[s].stage \in Active PROVE RemoverOK(s)'
      BY <1>1 DEF RemoverOK
    <3>1. disk.place[remover[s].dir] = Gone /\ remover[s].dir \in Doomed /\ remover[s].nonce \in Nonces
          /\ remover[s].dir \in Dirs
      BY <1>1, <1>2 DEF DiskPart, RemoverOK, Untouched, Doomed
    <3>2. remover[s].dir \in Doomed'
      BY <1>1, <1>5, <2>1, <3>1 DEF Doomed
    <3> QED BY <1>1, <1>3, <3>1, <3>2 DEF RemoverOK
  <2>4. Finished' /\ (\A v \in survivors' : DiskOK(v)) /\ DiskTypes'
    BY <1>1, <1>3 DEF DiskPart, Finished, DiskTypes
  <2>5. DiskPart'
    BY <1>1, <1>5, <2>2, <2>3, <2>4 DEF DiskPart
  <2> DEFINE own == [proc[p] EXCEPT !.at = "quitting", !.prepared = FALSE]
  <2>6. own \in Processing /\ own.at = "quitting"
    BY <1>1 DEF Processing, Steps
  <2>7. proc' = [proc EXCEPT ![p] = own]
    BY <1>1, <1>5 DEF ProcPart, Processing
  <2> HIDE DEF own
  <2>8. OnlyMoves(p) /\ proc'[p].at = "quitting"
    BY <1>1, <2>6, <2>7, TurnsMoves
  <2> QED BY <1>1, <2>5, <2>8, HarmlessOK, MoveKeeps DEF ResetInvariantHolds
<1>6. \/ Moved(proc["app"].journal) /\ Goto("app", "cancelRestore") /\ asked' = asked
      \/ /\ proc' = [proc EXCEPT !["app"].at = "quitting", !["app"].prepared = FALSE]
         /\ asked' = asked \/ asked' = asked \ {At(Root)}
  BY DEF CancelCheck
<1> QED BY <1>4, <1>5, <1>6

\* A reset that has begun is pending again.
LEMMA CancelRestoreSound ==
  ASSUME ResetInvariantHolds, CancelRestore
  PROVE  ResetInvariantHolds'
<1> DEFINE p == "app"
           journal == proc[p].journal
<1>1. /\ DiskPart /\ ProcPart /\ nonces \in 0..MaxResets /\ Rest /\ p \in Processes /\ proc[p] \in Processing
      /\ proc[p].at = "cancelRestore" /\ proc[p].at # "off" /\ Goto(p, "syncRestore")
      /\ Become(Journaled(journal))
  BY DEF ResetInvariantHolds, CancelRestore, Processes, ProcPart
<1>2. /\ Untouched /\ disk.journal = NoJournal /\ Held(journal) /\ journal # NoJournal
  BY <1>1 DEF ProcPart, ProcOK, Cancelling, Clear
<1>3. /\ journal \in Journals /\ journal.version \in {3, 4} /\ journal.dir \in Doomed
      /\ Names(disk.place, journal)
  BY <1>1, <1>2 DEF Held, Processing
<1> HIDE DEF journal, p
<1>4. Follows(Journaled(journal)) /\ Journaled(journal).journal = journal
  BY <1>1, <1>2, <1>3, WriteFollows
<1>5. DiskPart' /\ disk' = Journaled(journal) /\ nonces' = nonces /\ Untouched'
  BY <1>1, <1>2, <1>3, <1>4, RestBecomes
<1>6. OnlyMoves(p) /\ proc'[p].at = "syncRestore"
  BY <1>1, GotoMoves DEF Steps, Cancelling
<1>7. ProcOK(p)'
  BY <1>3, <1>4, <1>5, <1>6 DEF ProcOK, Knows, Clear, Preparing, Cancelling
<1> QED BY <1>1, <1>5, <1>6, <1>7, MoveKeeps DEF ResetInvariantHolds

\* Every step of a cancellation.
LEMMA CancelResetSound ==
  ASSUME ResetInvariantHolds, CancelReset
  PROVE  ResetInvariantHolds'
<1>1. CASE CancelRestored
  <2>1. /\ DiskPart /\ ProcPart /\ nonces \in 0..MaxResets /\ Rest /\ SyncDirectory /\ "app" \in Processes
        /\ proc["app"].at # "off" /\ Reject("app")
    BY <1>1 DEF ResetInvariantHolds, CancelRestored, Processes
  <2>2. DiskPart' /\ disk' = disk /\ nonces' = nonces /\ (Untouched => Untouched')
    BY <2>1, RestKeeps
  <2> QED BY <2>1, <2>2, RejectKeeps DEF ResetInvariantHolds
<1> QED BY <1>1, CancelSound, CancelRemoveSound, CancelCheckSound, CancelRestoreSound DEF CancelReset

\* Every step of a preparation.
LEMMA PrepareSound ==
  ASSUME ResetInvariantHolds, NEW p \in Processes, Prepare(p)
  PROVE  ResetInvariantHolds'
BY VerifySound, WriteJournalSound, PreparedSound DEF Prepare

-----------------------------------------------------------------------------
(* The life of the two processes *)

\* A fresh directory becomes the root.
LEMMA MakeRootFollows ==
  ASSUME DiskPart, MakeRoot
  PROVE  \E d : /\ Follows(d) /\ Become(d) /\ d.journal = disk.journal
                /\ Pending(d) => d.journal.dir \in Doomed
<1>1. PICK b \in Dirs \ Foreign : disk.place[b] = Unborn /\ Become(Placed(b, Root))
  BY DEF MakeRoot
<1>2. At(Root) = None
  BY DEF MakeRoot
<1>3. b \in Dirs /\ disk \in Disks /\ disk \in Outcomes /\ disk \in survivors /\ DiskOK(disk) /\ Root \in Places
  BY <1>1, OutcomesAre, PathsKnown DEF DiskPart, DiskTypes, Places
<1> DEFINE d == Placed(b, Root)
<1>4. /\ d \in Disks /\ d.content = disk.content /\ d.journal = disk.journal /\ d.place[b] = Root
      /\ \A x \in Dirs : x # b => d.place[x] = disk.place[x]
  BY <1>3, PlacedFields
<1> HIDE DEF d
<1>5. \A x \in Dirs : disk.place[x] # Root
  BY <1>2, AtWhat
<1>6. Pending(d) <=> Pending(disk)
  BY <1>4 DEF Pending
<1>7. \A x : Condemned(d, x) <=> Condemned(disk, x)
  BY <1>4, <1>6 DEF Condemned
<1>8. DiskOK(d)
  <2>1. OneEach(d)
    BY <1>3, <1>4, <1>5 DEF DiskOK, OneEach
  <2>2. Named(d)
    BY <1>3, <1>4, <1>7, PathsApart DEF DiskOK, Named
  <2>3. LostIsCondemned(d)
    <3>1. disk.place[b] # Gone
      BY <1>1, PathsApart
    <3> QED BY <1>3, <1>4, <1>7, <3>1 DEF DiskOK, LostIsCondemned, Lost
  <2>4. Pending(d) => Names(d.place, d.journal)
    <3> SUFFICES ASSUME Pending(disk) PROVE Names(d.place, disk.journal)
      BY <1>4, <1>6
    <3>1. Names(disk.place, disk.journal)
      BY <1>3 DEF DiskOK
    <3>2. disk.place[b] \notin PathsOf(disk.journal) /\ Root \in PathsOf(disk.journal)
      BY <1>1, PathsApart DEF PathsOf
    <3> QED BY <1>3, <1>4, <3>1, <3>2 DEF Names
  <2> QED BY <2>1, <2>2, <2>3, <2>4 DEF DiskOK
<1>9. \A x \in Dirs : disk.place[x] = Gone => d.place[x] = Gone
  BY <1>1, <1>4, PathsApart
<1>10. Follows(d)
  BY <1>4, <1>7, <1>8, <1>9 DEF Follows, Lost
<1>11. Pending(d) => d.journal.dir \in Doomed
  BY <1>3, <1>4, <1>6 DEF DiskPart, AskedFor
<1> QED BY <1>1, <1>4, <1>10, <1>11 DEF d

\* The disk under a step that may make the root.
LEMMA MakeRootKeeps ==
  ASSUME DiskPart, Rest, Keep \/ MakeRoot
  PROVE  DiskPart' /\ disk'.journal = disk.journal /\ nonces' = nonces /\ (Untouched => Untouched')
<1>1. CASE Keep
  BY <1>1, RestKeeps
<1>2. CASE MakeRoot
  BY <1>2, MakeRootFollows, RestBecomes
<1> QED BY <1>1, <1>2

\* A process starts while the other is off.
LEMMA StartKeeps ==
  ASSUME ProcPart, NEW p \in Processes, \A q \in Processes : proc[q].at = "off",
         proc' = [proc EXCEPT ![p] = [Stopped EXCEPT !.at = "read"]]
  PROVE  ProcPart'
<1>1. [Stopped EXCEPT !.at = "read"] \in Processing /\ [Stopped EXCEPT !.at = "read"].at = "read"
  BY DEF Stopped, Processing, Steps
<1>2. /\ proc' \in [Processes -> Processing]
      /\ proc'[p].at = "read" /\ \A q \in Processes \ {p} : proc'[q].at = "off"
  BY <1>1 DEF ProcPart
<1>3. \A q \in Processes : ProcOK(q)'
  BY <1>2, HarmlessOK
<1>4. Apart'
  BY <1>2 DEF Apart, Processes
<1> QED BY <1>2, <1>3, <1>4 DEF ProcPart

\* The application or the uninstaller's reset starts.
LEMMA StartSound ==
  ASSUME ResetInvariantHolds, StartApp \/ StartUninstall
  PROVE  ResetInvariantHolds'
<1>1. /\ DiskPart /\ ProcPart /\ nonces \in 0..MaxResets /\ Rest /\ (Keep \/ MakeRoot)
      /\ \A q \in Processes : proc[q].at = "off"
  BY DEF ResetInvariantHolds, StartApp, StartUninstall, Processes
<1>2. DiskPart' /\ nonces' = nonces
  BY <1>1, MakeRootKeeps
<1>3. \E p \in Processes : proc' = [proc EXCEPT ![p] = [Stopped EXCEPT !.at = "read"]]
  BY DEF StartApp, StartUninstall, Processes
<1> QED BY <1>1, <1>2, <1>3, StartKeeps DEF ResetInvariantHolds

\* The root exists once the recovery is over.
LEMMA EnsureRootSound ==
  ASSUME ResetInvariantHolds, EnsureRoot
  PROVE  ResetInvariantHolds'
<1> DEFINE p == "app"
<1>1. /\ DiskPart /\ ProcPart /\ nonces \in 0..MaxResets /\ Rest /\ (Keep \/ MakeRoot) /\ p \in Processes
      /\ proc[p].at = "makeRoot" /\ proc[p].at # "off" /\ Goto(p, "marker")
  BY DEF ResetInvariantHolds, EnsureRoot, Processes
<1> HIDE DEF p
<1>2. DiskPart' /\ disk'.journal = disk.journal /\ nonces' = nonces
  BY <1>1, MakeRootKeeps
<1>3. disk.journal = NoJournal
  BY <1>1 DEF ProcPart, ProcOK, Clear
<1>4. OnlyMoves(p) /\ proc'[p].at = "marker"
  BY <1>1, GotoMoves DEF Steps
<1>5. ProcOK(p)'
  BY <1>2, <1>3, <1>4 DEF ProcOK, Knows, Clear, Preparing, Cancelling
<1> QED BY <1>1, <1>2, <1>4, <1>5, MoveKeeps DEF ResetInvariantHolds

\* The marker of ownership is written.
LEMMA InitializeOwnershipSound ==
  ASSUME ResetInvariantHolds, InitializeOwnership
  PROVE  ResetInvariantHolds'
<1> DEFINE p == "app"
           live == At(Root)
           content == [disk.content EXCEPT ![live] = "owned"]
           d == [disk EXCEPT !.content = content]
<1>1. /\ DiskPart /\ ProcPart /\ nonces \in 0..MaxResets /\ Rest /\ p \in Processes
      /\ proc[p].at = "marker" /\ proc[p].at # "off" /\ Goto(p, "running")
      /\ disk \in Disks
      /\ disk \in Outcomes /\ disk \in survivors /\ DiskOK(disk)
  BY OutcomesAre DEF ResetInvariantHolds, InitializeOwnership, Processes, DiskPart, DiskTypes
<1>2. disk.journal = NoJournal
  BY <1>1 DEF ProcPart, ProcOK, Clear
<1>3. Keep \/ (live # None /\ disk.content[live] = "bare" /\ Become(d))
  BY <1>1 DEF InitializeOwnership, Disks
<1>4. DiskPart' /\ disk'.journal = disk.journal /\ nonces' = nonces
  <2>1. CASE Keep
    BY <1>1, <2>1, RestKeeps
  <2>2. CASE live # None /\ disk.content[live] = "bare" /\ Become(d)
    <3>1. live \in Dirs
      BY <2>2, AtWhat
    <3>2. content \in [Dirs -> Contents] /\ \A x \in Dirs : content[x] = IF x = live THEN "owned" ELSE disk.content[x]
      BY <1>1, <3>1, DiskFields DEF Contents
    <3> HIDE DEF content
    <3>3. /\ d \in Disks /\ d.content = content /\ d.place = disk.place /\ d.journal = disk.journal
      BY <1>1, <3>2 DEF Disks
    <3> HIDE DEF d
    <3>4. \A x \in Dirs : Lost(d, x) => Lost(disk, x)
      BY <3>2, <3>3 DEF Lost
    <3>5. ~Pending(d) /\ ~Pending(disk) /\ \A x : ~Condemned(d, x) /\ ~Condemned(disk, x)
      BY <1>2, <3>3 DEF Pending, Condemned, NoJournal
    <3>6. DiskOK(d)
      <4>1. OneEach(d)
        BY <1>1, <3>3 DEF DiskOK, OneEach
      <4>2. Named(d)
        BY <1>1, <3>3, <3>5 DEF DiskOK, Named
      <4>3. LostIsCondemned(d)
        BY <1>1, <3>3, <3>4, <3>5 DEF DiskOK, LostIsCondemned
      <4> QED BY <3>5, <4>1, <4>2, <4>3 DEF DiskOK
    <3>7. Follows(d)
      BY <3>3, <3>4, <3>5, <3>6 DEF Follows
    <3> QED BY <1>1, <2>2, <3>3, <3>5, <3>7, RestBecomes
  <2> QED BY <1>3, <2>1, <2>2
<1> HIDE DEF p
<1>5. OnlyMoves(p) /\ proc'[p].at = "running"
  BY <1>1, GotoMoves DEF Steps
<1>6. ProcOK(p)'
  BY <1>2, <1>4, <1>5 DEF ProcOK, Knows, Clear, Preparing, Cancelling
<1> QED BY <1>1, <1>4, <1>5, <1>6, MoveKeeps DEF ResetInvariantHolds

\* The user asks for the reset.
LEMMA PrepareDataResetSound ==
  ASSUME ResetInvariantHolds, PrepareDataReset
  PROVE  ResetInvariantHolds'
<1> DEFINE p == "app"
<1>1. /\ DiskPart /\ ProcPart /\ nonces \in 0..MaxResets /\ Rest /\ Keep /\ p \in Processes
      /\ proc[p].at = "running" /\ proc[p].at # "off" /\ Goto(p, "verify")
  BY DEF ResetInvariantHolds, PrepareDataReset, Processes
<1> HIDE DEF p
<1>2. DiskPart' /\ disk' = disk /\ nonces' = nonces /\ (Untouched => Untouched')
  BY <1>1, RestKeeps
<1>3. disk.journal = NoJournal /\ ~Pending(disk)
  BY <1>1 DEF ProcPart, ProcOK, Clear, Pending, NoJournal
<1>4. Untouched'
  BY <1>1, <1>2, <1>3, ClearIsUntouched
<1>5. OnlyMoves(p) /\ proc'[p].at = "verify"
  BY <1>1, GotoMoves DEF Steps, Preparing
<1>6. ProcOK(p)'
  BY <1>2, <1>3, <1>4, <1>5 DEF ProcOK, Knows, Clear, Preparing, Cancelling, NoJournal
<1> QED BY <1>1, <1>2, <1>5, <1>6, MoveKeeps DEF ResetInvariantHolds

\* The deadline passes: the process stays where it is, or is to end.
LEMMA DeadlineSound ==
  ASSUME ResetInvariantHolds, Deadline
  PROVE  ResetInvariantHolds'
<1> DEFINE p == "app"
           at == IF proc[p].at = "draining" THEN "quitting" ELSE proc[p].at
           own == [proc[p] EXCEPT !.late = TRUE, !.at = at]
<1>1. /\ DiskPart /\ ProcPart /\ nonces \in 0..MaxResets /\ Rest /\ Keep /\ p \in Processes
      /\ proc[p] \in Processing /\ proc[p].at # "off" /\ ProcOK(p)
  BY DEF ResetInvariantHolds, Deadline, Processes, ProcPart, Preparing, Cancelling
<1>2. proc' = [proc EXCEPT ![p] = own]
  BY <1>1 DEF Deadline, ProcPart, Processing
<1>3. /\ own \in Processing /\ own.at = at /\ own.journal = proc[p].journal /\ own.dir = proc[p].dir
  BY <1>1 DEF Processing, Steps
<1>4. at = proc[p].at \/ at = "quitting"
  OBVIOUS
<1> HIDE DEF own, at, p
<1>5. DiskPart' /\ disk' = disk /\ nonces' = nonces /\ (Untouched => Untouched')
  BY <1>1, RestKeeps
<1>6. OnlyMoves(p) /\ proc'[p] = own
  BY <1>1, <1>2, <1>3, TurnsMoves
<1>7. CASE at = "quitting"
  BY <1>1, <1>3, <1>5, <1>6, <1>7, HarmlessOK, MoveKeeps DEF ResetInvariantHolds
<1>8. CASE at = proc[p].at
  <2>1. Outcomes' = Outcomes /\ Doomed' = Doomed
    BY <1>1, OutcomesAre DEF Rest, history, Doomed
  <2>2. proc'[p].at = proc[p].at /\ proc'[p].journal = proc[p].journal /\ proc'[p].dir = proc[p].dir
    BY <1>3, <1>6, <1>8
  <2>3. Held(proc[p].journal) => Held(proc[p].journal)'
    BY <1>5, <2>1, <2>2 DEF Held
  <2>4. ProcOK(p)'
    BY <1>1, <1>5, <2>1, <2>2, <2>3 DEF ProcOK
  <2> QED BY <1>1, <1>5, <1>6, <2>4, MoveKeeps DEF ResetInvariantHolds
<1> QED BY <1>4, <1>7, <1>8

\* A process is over.
LEMMA StoppedKeeps ==
  ASSUME ProcPart, NEW p \in Processes, proc[p].at # "off", proc' = [proc EXCEPT ![p] = Stopped]
  PROVE  ProcPart'
<1>1. Stopped \in Processing /\ Stopped.at = "off"
  BY DEF Stopped, Processing, Steps
<1>2. OnlyMoves(p) /\ proc'[p] = Stopped
  BY <1>1, TurnsMoves
<1> QED BY <1>1, <1>2, HarmlessOK, MoveKeeps

\* The application ends, or has nothing left to wait for.
LEMMA EndSound ==
  ASSUME ResetInvariantHolds, Exit \/ Drained
  PROVE  ResetInvariantHolds'
<1>1. /\ DiskPart /\ ProcPart /\ nonces \in 0..MaxResets /\ Rest /\ Keep /\ "app" \in Processes
  BY DEF ResetInvariantHolds, Exit, Drained, Processes
<1>2. DiskPart' /\ nonces' = nonces
  BY <1>1, RestKeeps
<1>3. ProcPart'
  <2>1. CASE Drained
    <3>1. proc["app"].at # "off" /\ Goto("app", "quitting")
      BY <2>1 DEF Drained
    <3>2. OnlyMoves("app") /\ proc'["app"].at = "quitting"
      BY <1>1, <3>1, GotoMoves DEF Steps
    <3> QED BY <1>1, <3>1, <3>2, HarmlessOK, MoveKeeps
  <2>2. CASE Exit /\ proc["app"].at # "off"
    BY <1>1, <2>2, StoppedKeeps DEF Exit
  <2>3. CASE Exit /\ proc["app"].at = "off"
    <3>1. /\ Stopped \in Processing /\ Stopped.at = "off" /\ proc' = [proc EXCEPT !["app"] = Stopped]
      BY <2>3 DEF Exit, Stopped, Processing, Steps
    <3>2. OnlyMoves("app") /\ proc'["app"].at = "off"
      BY <1>1, <3>1, TurnsMoves
    <3>3. ASSUME NEW q \in Processes PROVE ProcOK(q)'
      <4>1. CASE q = "app"
        BY <3>2, <4>1, HarmlessOK
      <4>2. CASE q # "app" /\ proc[q].at \in {"off", "read", "quitting"}
        BY <3>2, <4>2, HarmlessOK DEF OnlyMoves
      <4>3. CASE q # "app" /\ proc[q].at \notin {"off", "read", "quitting"}
        <5>1. proc'[q] = proc[q] /\ disk' = disk /\ Outcomes' = Outcomes /\ Doomed' = Doomed /\ ProcOK(q)
              /\ (Untouched => Untouched')
          BY <1>1, <3>2, <4>3, OutcomesAre, RestKeeps DEF OnlyMoves, ProcPart, Rest, history, Doomed
        <5>2. Held(proc[q].journal) => Held(proc[q].journal)'
          BY <5>1 DEF Held
        <5> QED BY <5>1, <5>2 DEF ProcOK
      <4> QED BY <4>1, <4>2, <4>3
    <3>4. Apart'
      BY <3>2 DEF Apart, OnlyMoves
    <3> QED BY <3>2, <3>3, <3>4 DEF ProcPart, OnlyMoves
  <2> QED BY <2>1, <2>2, <2>3
<1> QED BY <1>1, <1>2, <1>3 DEF ResetInvariantHolds

-----------------------------------------------------------------------------
(* The removals *)

\* A directory that is moved is no longer where it was, and nothing comes to a path
\* but what somebody puts there; whatever a process relies on stays true.
LEMMA ProcStays ==
  ASSUME DiskPart, ProcPart, proc' = proc, disk'.journal = disk.journal, Doomed' = Doomed,
         Untouched => Untouched',
         \A d \in Dirs : disk.place[d] = Gone => disk'.place[d] = Gone,
         \A d \in Dirs \ Foreign : disk'.place[d] \in {disk.place[d], Elsewhere, Gone},
         \A journal : disk.journal = NoJournal /\ Names(disk.place, journal) => Names(disk'.place, journal),
         \A dir : disk.journal = NoJournal /\ WasRoot(disk.place, dir) => WasRoot(disk'.place, dir),
         (\A v \in Outcomes : v.journal = NoJournal) => \A v \in Outcomes' : v.journal = NoJournal
  PROVE  ProcPart'
<1>1. ASSUME NEW p \in Processes PROVE ProcOK(p)'
  <2> DEFINE own == proc[p]
  <2>1. ProcOK(p) /\ own = proc'[p]
    BY DEF ProcPart
  <2>2. disk.journal = NoJournal /\ Held(own.journal) => Held(own.journal)'
    BY <2>1 DEF Held
  <2>3. \A d \in Dirs \ Foreign : \A path : path \notin {Elsewhere, Gone} /\ disk'.place[d] = path => disk.place[d] = path
    OBVIOUS
  <2>4. Root \notin {Elsewhere, Gone} /\ \A n : Tombstone(n) \notin {Elsewhere, Gone} /\ Disposal(n) \notin {Elsewhere, Gone}
    BY PathsApart
  <2>5. own.at = "renameRoot" => \A d \in Dirs \ Foreign : disk'.place[d] = Root => d = own.journal.dir
    BY <2>1, <2>3, <2>4 DEF ProcOK
  <2>6. own.at = "cancelRemove" /\ own.journal # NoJournal => \A d \in Dirs \ Foreign :
          disk'.place[d] \notin {Tombstone(own.journal.nonce), Disposal(own.journal.nonce)}
    BY <2>1, <2>3, <2>4 DEF ProcOK
  <2>7. own.at \in {"cancelSync", "cancelCheck", "cancelRestore", "writeJournal"} => disk.journal = NoJournal
    BY <2>1 DEF ProcOK, Clear
  <2>8. own.at \in {"removeJournal", "syncJournal"} => own.journal.dir \in Dirs /\ disk'.place[own.journal.dir] = Gone
    BY <2>1 DEF ProcOK
  <2>9. own.at = "writeJournal" => WasRoot(disk'.place, own.dir)
    BY <2>1, <2>7 DEF ProcOK
  <2>10. own.at \in {"cancelSync", "cancelCheck", "cancelRestore"} => Held(own.journal)'
    BY <2>1, <2>2, <2>7 DEF ProcOK
  <2> HIDE DEF own
  <2> QED BY <2>1, <2>5, <2>6, <2>8, <2>9, <2>10 DEF ProcOK, own
<1> QED BY <1>1 DEF ProcPart, Apart

\* A step that leaves the disk and the processes alone.
LEMMA RemoverMoves ==
  ASSUME ResetInvariantHolds, proc' = proc, Keep \/ Flush, RemovalsFrom, remover' \in [Removers -> Removals],
         nonces' = nonces, asked' = asked, completed' = completed, revived' = revived
  PROVE  ResetInvariantHolds'
<1>1. DiskPart /\ ProcPart /\ nonces \in 0..MaxResets /\ completed \subseteq Dirs
  BY DEF ResetInvariantHolds, DiskPart
<1>2. DiskPart' /\ (Untouched => Untouched')
  BY <1>1, KeepKeeps
<1>3. disk' = disk /\ Outcomes' \subseteq Outcomes /\ Doomed' = Doomed
  BY <1>1, OutcomesAre DEF DiskPart, DiskTypes, Keep, diskVars, Doomed
<1>4. ProcPart'
  BY <1>1, <1>2, <1>3, ProcStays
<1> QED BY <1>1, <1>2, <1>4 DEF ResetInvariantHolds

\* A removal that goes on keeps its directory.
LEMMA AdvanceFrom ==
  ASSUME DiskPart, NEW s \in Removers, NEW stage \in {"erasing", "unlinking", "flushing", "done", "failed"},
         Advance(s, stage), stage \in Active => remover[s].stage \in Active
  PROVE  RemovalsFrom /\ remover' \in [Removers -> Removals]
<1> DEFINE removal == [remover[s] EXCEPT !.stage = stage]
<1>1. remover \in [Removers -> Removals] /\ remover[s] \in Removals
  BY DEF DiskPart
<1>2. removal \in Removals /\ removal.stage = stage /\ removal.dir = remover[s].dir /\ removal.nonce = remover[s].nonce
  BY <1>1 DEF Removals
<1>3. remover' = [remover EXCEPT ![s] = removal]
  BY <1>1 DEF Advance
<1> HIDE DEF removal
<1>4. \A r \in Removers : remover'[r] = IF r = s THEN removal ELSE remover[r]
  BY <1>1, <1>3
<1> QED BY <1>1, <1>2, <1>3, <1>4 DEF RemovalsFrom

\* What is being removed.
LEMMA RemovedIs ==
  ASSUME DiskPart, NEW s \in Removers, remover[s].stage \in Active
  PROVE  /\ remover[s].dir \in Dirs /\ remover[s].dir \in Doomed
         /\ disk.place[remover[s].dir] = Gone \/ Condemned(disk, remover[s].dir)
BY DEF DiskPart, RemoverOK, Doomed

\* What is inside of the directory is removed.
LEMMA EraseTreeSound ==
  ASSUME ResetInvariantHolds, NEW s \in Removers, EraseTree(s)
  PROVE  ResetInvariantHolds'
<1> DEFINE r == remover[s].dir
           what == IF disk.content[r] \in {"owned", "bare"} THEN "partial" ELSE "empty"
           content == [disk.content EXCEPT ![r] = what]
           d == [disk EXCEPT !.content = content]
<1>1. /\ DiskPart /\ ProcPart /\ nonces \in 0..MaxResets /\ disk \in Disks
      /\ disk \in Outcomes /\ disk \in survivors /\ DiskOK(disk)
      /\ remover[s].stage = "erasing" /\ proc' = proc /\ nonces' = nonces
      /\ asked' = asked /\ completed' = completed /\ revived' = revived
  BY OutcomesAre DEF ResetInvariantHolds, DiskPart, DiskTypes, EraseTree, RemoverRest, history
<1>2. r \in Dirs /\ r \in Doomed /\ (disk.place[r] = Gone \/ Condemned(disk, r))
  BY <1>1, RemovedIs DEF Active
<1>3. Become(d) /\ (remover' = remover \/ Advance(s, "unlinking"))
  <2>1. d = [disk EXCEPT !.content[r] = what]
    BY <1>1 DEF Disks
  <2> QED BY <2>1 DEF EraseTree
<1>4. content \in [Dirs -> Contents] /\ \A x \in Dirs : x # r => content[x] = disk.content[x]
  BY <1>1, <1>2, DiskFields DEF Contents
<1> HIDE DEF content
<1>5. /\ d \in Disks /\ d.content = content /\ d.place = disk.place /\ d.journal = disk.journal
  BY <1>1, <1>4 DEF Disks
<1> HIDE DEF d, what, r
<1>6. (Pending(d) <=> Pending(disk)) /\ \A x : Condemned(d, x) <=> Condemned(disk, x)
  BY <1>5 DEF Pending, Condemned
<1>7. \A x \in Dirs : Lost(d, x) => Lost(disk, x) \/ x = r
  BY <1>4, <1>5 DEF Lost
<1>8. DiskOK(d)
  <2>1. OneEach(d)
    BY <1>1, <1>5 DEF DiskOK, OneEach
  <2>2. Named(d)
    BY <1>1, <1>5, <1>6 DEF DiskOK, Named
  <2>3. LostIsCondemned(d)
    BY <1>1, <1>2, <1>5, <1>6, <1>7 DEF DiskOK, LostIsCondemned
  <2>4. Pending(d) => Names(d.place, d.journal)
    BY <1>1, <1>5, <1>6 DEF DiskOK
  <2> QED BY <2>1, <2>2, <2>3, <2>4 DEF DiskOK
<1>9. Follows(d)
  BY <1>1, <1>5, <1>6, <1>7, <1>8 DEF Follows, Active, r
<1>10. RemovalsFrom /\ remover' \in [Removers -> Removals]
  <2>1. CASE remover' = remover
    BY <1>1, <2>1 DEF RemovalsFrom, DiskPart
  <2>2. CASE Advance(s, "unlinking")
    BY <1>1, <2>2, AdvanceFrom DEF Active
  <2> QED BY <1>3, <2>1, <2>2
<1>11. Pending(d) => d.journal.dir \in Doomed'
  BY <1>1, <1>5, <1>6 DEF DiskPart, AskedFor, Doomed
<1>12. DiskPart' /\ (Untouched => Untouched')
  BY <1>1, <1>3, <1>9, <1>10, <1>11, BecomeKeeps DEF DiskPart
<1>13. disk' = d /\ \A v \in Outcomes' : v \in Outcomes \/ v = d
  BY <1>3, OutcomesAre DEF Become
<1>14. ProcPart'
  BY <1>1, <1>5, <1>12, <1>13, ProcStays DEF Doomed
<1> QED BY <1>1, <1>12, <1>14 DEF ResetInvariantHolds

\* The directory itself is removed, from where it is put aside.
LEMMA UnlinkTreeSound ==
  ASSUME ResetInvariantHolds, NEW s \in Removers, UnlinkTree(s)
  PROVE  ResetInvariantHolds'
<1> DEFINE r == remover[s].dir
           d == Placed(r, Gone)
<1>1. /\ DiskPart /\ ProcPart /\ nonces \in 0..MaxResets /\ disk \in Disks
      /\ disk \in Outcomes /\ disk \in survivors /\ DiskOK(disk)
      /\ remover[s].stage = "unlinking" /\ proc' = proc /\ nonces' = nonces
      /\ asked' = asked /\ completed' = completed /\ revived' = revived
  BY OutcomesAre DEF ResetInvariantHolds, DiskPart, DiskTypes, UnlinkTree, RemoverRest, history
<1>2. r \in Dirs /\ r \in Doomed /\ (disk.place[r] = Gone \/ Condemned(disk, r))
  BY <1>1, RemovedIs DEF Active
<1>3. CASE Advance(s, "failed") /\ Keep
  BY <1>1, <1>3, AdvanceFrom, RemoverMoves DEF Active
<1>4. CASE At(Disposal(remover[s].nonce)) = r /\ Advance(s, "flushing") /\ Become(d)
  <2>1. disk.place[r] # Gone
    BY <1>2, <1>4, AtWhat, PathsApart, DirsAssumption DEF None
  <2>2. Condemned(disk, r) /\ disk.journal # NoJournal /\ ~Untouched
    <3>1. Condemned(disk, r)
      BY <1>2, <2>1
    <3>2. ~Untouched
      BY <1>1, <2>1 DEF Untouched, Active
    <3> QED BY <3>1, <3>2 DEF Condemned, Pending, NoJournal
  <2>3. /\ d \in Disks /\ d.content = disk.content /\ d.journal = disk.journal /\ d.place[r] = Gone
        /\ \A x \in Dirs : x # r => d.place[x] = disk.place[x]
    BY <1>1, <1>2, PlacedFields DEF Places
  <2> HIDE DEF d, r
  <2>4. (Pending(d) <=> Pending(disk)) /\ \A x : Condemned(d, x) <=> Condemned(disk, x)
    BY <2>3 DEF Pending, Condemned
  <2>5. DiskOK(d)
    <3>1. OneEach(d)
      BY <1>1, <1>2, <2>3, PathsKnown DEF DiskOK, OneEach
    <3>2. Named(d)
      BY <1>1, <1>2, <2>3, <2>4, PathsApart DEF DiskOK, Named
    <3>3. LostIsCondemned(d)
      BY <1>1, <1>2, <2>3, <2>4 DEF DiskOK, LostIsCondemned, Lost
    <3>4. Pending(d) => Names(d.place, d.journal)
      BY <1>1, <1>2, <2>2, <2>3, <2>4 DEF DiskOK, Names, Condemned
    <3> QED BY <3>1, <3>2, <3>3, <3>4 DEF DiskOK
  <2>6. Follows(d)
    BY <2>2, <2>3, <2>4, <2>5 DEF Follows, Lost, Condemned
  <2>7. RemovalsFrom /\ remover' \in [Removers -> Removals]
    BY <1>1, <1>4, AdvanceFrom DEF Active
  <2>8. Pending(d) => d.journal.dir \in Doomed'
    BY <1>1, <2>3, <2>4 DEF DiskPart, AskedFor, Doomed
  <2>9. DiskPart' /\ (Untouched => Untouched')
    BY <1>1, <1>4, <2>6, <2>7, <2>8, BecomeKeeps DEF DiskPart
  <2>10. disk' = d /\ ~(\A v \in Outcomes : v.journal = NoJournal)
    BY <1>1, <1>4, <2>2 DEF Become
  <2>11. ProcPart'
    <3>1. \A x \in Dirs : disk.place[x] = Gone => disk'.place[x] = Gone
      BY <2>3, <2>10
    <3>2. \A x \in Dirs \ Foreign : disk'.place[x] \in {disk.place[x], Elsewhere, Gone}
      BY <2>3, <2>10
    <3> QED BY <1>1, <2>2, <2>3, <2>9, <2>10, <3>1, <3>2, ProcStays DEF Doomed
  <2> QED BY <1>1, <2>9, <2>11 DEF ResetInvariantHolds
<1>5. \/ Advance(s, "failed") /\ Keep
      \/ At(Disposal(remover[s].nonce)) = r /\ Advance(s, "flushing") /\ Become(d)
  BY DEF UnlinkTree
<1> QED BY <1>3, <1>4, <1>5

\* Every step of a removal, and its failures.
LEMMA RemoveTreeSound ==
  ASSUME ResetInvariantHolds, NEW s \in Removers, RemoveTree(s) \/ RemoverFails(s)
  PROVE  ResetInvariantHolds'
<1>1. DiskPart
  BY DEF ResetInvariantHolds
<1>2. CASE OpenTree(s)
  <2>1. /\ proc' = proc /\ nonces' = nonces /\ asked' = asked /\ completed' = completed /\ revived' = revived /\ Keep
        /\ remover[s].stage = "opening" /\ (Advance(s, "failed") \/ Advance(s, "erasing"))
    BY <1>2 DEF OpenTree, RemoverRest, history
  <2>2. RemovalsFrom /\ remover' \in [Removers -> Removals]
    BY <1>1, <2>1, AdvanceFrom DEF Active
  <2> QED BY <2>1, <2>2, RemoverMoves
<1>3. CASE FlushParent(s) \/ RemoverFails(s)
  <2>1. /\ proc' = proc /\ nonces' = nonces /\ (Keep \/ Flush)
        /\ asked' = asked /\ completed' = completed /\ revived' = revived
        /\ (Advance(s, "failed") \/ Advance(s, "done"))
    BY <1>3 DEF FlushParent, RemoverFails, RemoverRest, history
  <2>2. RemovalsFrom /\ remover' \in [Removers -> Removals]
    BY <1>1, <2>1, AdvanceFrom DEF Active
  <2> QED BY <2>1, <2>2, RemoverMoves
<1>4. CASE OrphanEnds(s)
  <2>1. /\ proc' = proc /\ nonces' = nonces /\ asked' = asked /\ completed' = completed /\ revived' = revived /\ Keep
        /\ remover' = [remover EXCEPT ![s] = Idle]
    BY <1>4 DEF OrphanEnds, RemoverRest, history
  <2>2. RemovalsFrom /\ remover' \in [Removers -> Removals]
    BY <1>1, <2>1, IdleTyped, RemovalEnds
  <2> QED BY <2>1, <2>2, RemoverMoves
<1> QED BY <1>2, <1>3, <1>4, EraseTreeSound, UnlinkTreeSound DEF RemoveTree

-----------------------------------------------------------------------------
(* Faults *)

\* An operation of a process rejects, or Windows does not let it rename the root.
LEMMA RejectedSound ==
  ASSUME ResetInvariantHolds, NEW p \in Processes, Rejected(p) \/ (p = "app" /\ RootHeldOpen)
  PROVE  ResetInvariantHolds'
<1>1. /\ DiskPart /\ ProcPart /\ nonces \in 0..MaxResets /\ Reject(p) /\ Keep /\ proc[p].at # "off"
      /\ remover' = remover /\ nonces' = nonces /\ asked' = asked /\ completed' = completed /\ revived' = revived
  BY DEF ResetInvariantHolds, Rejected, RootHeldOpen, Rest, history
<1>2. DiskPart' /\ disk' = disk /\ (Untouched => Untouched')
  BY <1>1, KeepKeeps DEF DiskPart, RemovalsFrom, Keep, diskVars
<1> QED BY <1>1, <1>2, RejectKeeps DEF ResetInvariantHolds

\* A process dies, and the removal that it started goes on without it.
LEMMA CrashSound ==
  ASSUME ResetInvariantHolds, NEW p \in Processes, Crash(p)
  PROVE  ResetInvariantHolds'
<1>1. /\ DiskPart /\ ProcPart /\ nonces \in 0..MaxResets /\ Keep /\ proc[p].at # "off"
      /\ proc' = [proc EXCEPT ![p] = Stopped]
      /\ nonces' = nonces /\ asked' = asked /\ completed' = completed /\ revived' = revived
      /\ remover \in [Removers -> Removals] /\ p \in Removers /\ "orphan" \in Removers
      /\ completed \subseteq Dirs
  BY DEF ResetInvariantHolds, Crash, history, DiskPart, Removers
<1>2. RemovalsFrom /\ remover' \in [Removers -> Removals]
  <2>1. CASE remover' = remover
    BY <1>1, <2>1 DEF RemovalsFrom
  <2>2. CASE remover' = [remover EXCEPT ![p] = Idle, !["orphan"] = remover[p]]
    <3>1. \A s \in Removers : remover'[s] = IF s = "orphan" THEN remover[p] ELSE IF s = p THEN Idle ELSE remover[s]
      BY <1>1, <2>2
    <3>2. remover' \in [Removers -> Removals]
      BY <1>1, <2>2, IdleTyped
    <3> QED BY <1>1, <3>1, <3>2, IdleTyped DEF RemovalsFrom
  <2> QED BY <2>1, <2>2 DEF Crash
<1>3. DiskPart'
  BY <1>1, <1>2, KeepKeeps
<1> QED BY <1>1, <1>3, StoppedKeeps DEF ResetInvariantHolds

\* The power is lost: the disk is one of those that it may leave.
LEMMA PowerLossSound ==
  ASSUME ResetInvariantHolds, PowerLoss
  PROVE  ResetInvariantHolds'
<1>1. /\ DiskPart /\ ProcPart /\ nonces \in 0..MaxResets /\ nonces' = nonces /\ asked' = asked /\ completed' = completed
      /\ revived' = revived \cup Returned(disk') /\ platform \in {"darwin", "win32"}
      /\ platform' = platform /\ disk' \in survivors /\ survivors' = {disk'}
      /\ proc' = [p \in Processes |-> Stopped] /\ remover' = [s \in DOMAIN remover |-> Idle]
      /\ remover \in [Removers -> Removals]
  BY DEF ResetInvariantHolds, PowerLoss, DiskPart, DiskTypes
<1>2. Outcomes' = {disk'} /\ DiskOK(disk') /\ disk' \in Disks
  BY <1>1 DEF Outcomes, DiskPart, DiskTypes
<1>3. Returned(disk') \subseteq Dirs /\ (platform = "darwin" => Returned(disk') = {})
  BY DEF Returned
<1>4. \A s \in Removers : remover'[s] = Idle
  BY <1>1
<1>5. \A s \in Removers : RemoverOK(s)'
  BY <1>4, IdleTyped DEF RemoverOK
<1>6. AskedFor'
  <2>1. Pending(disk') => disk'.journal.dir \in Doomed'
    <3> SUFFICES ASSUME Pending(disk') PROVE disk'.journal.dir \in Doomed'
      OBVIOUS
    <3>1. disk'.journal.dir \in Dirs
      BY <1>2 DEF DiskOK, Names
    <3>2. CASE platform = "darwin"
      BY <1>1, <3>2 DEF DiskPart, AskedFor, Outcomes, Doomed
    <3>3. CASE platform = "win32"
      BY <1>1, <3>1, <3>3 DEF Returned, Doomed
    <3> QED BY <1>1, <3>2, <3>3
  <2>2. \A d \in Dirs : Lost(disk', d) => d \in Doomed' /\ (disk'.place[d] = Gone \/ Condemned(disk', d))
    BY <1>1, <1>2 DEF DiskPart, AskedFor, DiskOK, LostIsCondemned, Doomed
  <2> QED BY <1>1, <1>2, <2>1, <2>2 DEF AskedFor
<1>7. Finished'
  <2> SUFFICES ASSUME NEW d \in completed, d \notin revived, d \notin Returned(disk')
               PROVE  disk'.place[d] = Gone
    BY <1>1, <1>2 DEF Finished
  <2>1. d \in Dirs
    BY <1>1 DEF DiskPart
  <2>2. CASE platform = "darwin"
    BY <1>1, <2>2 DEF DiskPart, Finished, Outcomes
  <2>3. CASE platform = "win32"
    BY <2>1, <2>3 DEF Returned
  <2> QED BY <1>1, <2>2, <2>3
<1>8. DiskTypes' /\ \A v \in survivors' : DiskOK(v)
  BY <1>1, <1>2, <1>3 DEF DiskPart, DiskTypes
<1>9. remover' \in [Removers -> Removals]
  BY <1>1, IdleTyped
<1>10. DiskPart'
  BY <1>1, <1>5, <1>6, <1>8, <1>9, <1>3, <1>7 DEF DiskPart
<1>11. ProcPart'
  <2>1. Stopped \in Processing /\ Stopped.at = "off"
    BY DEF Stopped, Processing, Steps
  <2>2. \A p \in Processes : ProcOK(p)'
    BY <1>1, <2>1, HarmlessOK
  <2> QED BY <1>1, <2>1, <2>2 DEF ProcPart, Apart, Processes
<1> QED BY <1>1, <1>10, <1>11 DEF ResetInvariantHolds

\* Somebody puts another directory at a path of the reset.
LEMMA SomebodyReplacesSound ==
  ASSUME ResetInvariantHolds, SomebodyReplaces
  PROVE  ResetInvariantHolds'
<1>1. /\ DiskPart /\ ProcPart /\ nonces \in 0..MaxResets /\ disk \in Disks
      /\ disk \in Outcomes /\ disk \in survivors /\ DiskOK(disk)
      /\ proc' = proc /\ remover' = remover /\ nonces' = nonces
      /\ asked' = asked /\ completed' = completed /\ revived' = revived
      /\ remover \in [Removers -> Removals]
  BY OutcomesAre DEF ResetInvariantHolds, DiskPart, DiskTypes, SomebodyReplaces, resetVars, history
<1>2. PICK path \in PathsOf(disk.journal) : (path = Root \/ disk.journal.nonce # 0) /\ Replace(path)
  BY DEF SomebodyReplaces, PathsOf
<1> DEFINE placing(f) == [x \in Dirs |-> IF x = f THEN path ELSE IF disk.place[x] = path THEN Elsewhere ELSE disk.place[x]]
<1>3. PICK f \in Foreign : disk.place[f] = Elsewhere /\ Become([disk EXCEPT !.place = placing(f)])
  BY <1>2 DEF Replace
<1> DEFINE place == placing(f)
           d == [disk EXCEPT !.place = place]
<1>4. /\ path \in Paths /\ path \notin {Elsewhere, Gone, Unborn} /\ f \in Dirs
  <2>1. disk.journal.nonce \in Nonces \/ disk.journal.nonce = 0
    BY <1>1, DiskFields
  <2> QED BY <1>2, <2>1, PathsKnown, DirsAssumption DEF PathsOf
<1>5. \A x \in Dirs : place[x] = IF x = f THEN path ELSE IF disk.place[x] = path THEN Elsewhere ELSE disk.place[x]
  OBVIOUS
<1>6. place \in [Dirs -> Places]
  BY <1>1, <1>4, DiskFields DEF Places
<1> HIDE DEF place
<1>7. d \in Disks /\ d.content = disk.content /\ d.journal = disk.journal /\ d.place = place
  BY <1>1, <1>6 DEF Disks, Places
<1> HIDE DEF d
<1>8. (Pending(d) <=> Pending(disk)) /\ \A x : Condemned(d, x) <=> Condemned(disk, x)
  BY <1>7 DEF Pending, Condemned
<1>9. \A x \in Dirs : disk.place[x] = Gone => place[x] = Gone
  BY <1>3, <1>4, <1>5, PathsApart
<1>10. ASSUME NEW journal, path \in PathsOf(journal), Names(disk.place, journal)
       PROVE  Names(place, journal)
  <2>1. journal.dir \in Dirs /\ place[f] = path
    BY <1>4, <1>5, <1>10 DEF Names
  <2> QED BY <1>4, <1>5, <1>10, <2>1 DEF Names
<1>11. DiskOK(d)
  <2>1. OneEach(d)
    <3> SUFFICES ASSUME NEW x \in Dirs, NEW y \in Dirs, place[x] = place[y], place[x] \in Paths PROVE x = y
      BY <1>7 DEF OneEach
    <3>1. Elsewhere \notin Paths
      BY PathsKnown
    <3> QED BY <1>1, <1>5, <3>1 DEF DiskOK, OneEach
  <2>2. Named(d)
    <3> SUFFICES ASSUME NEW x \in Dirs \ Foreign, NEW n \in Nonces, place[x] \in {Tombstone(n), Disposal(n)}
                 PROVE  Condemned(disk, x) /\ disk.journal.nonce = n
      BY <1>7, <1>8 DEF Named
    <3>1. place[x] = disk.place[x]
      BY <1>5, PathsApart
    <3> QED BY <1>1, <3>1 DEF DiskOK, Named
  <2>3. LostIsCondemned(d)
    BY <1>1, <1>7, <1>8, <1>9 DEF DiskOK, LostIsCondemned, Lost
  <2>4. Pending(d) => Names(d.place, d.journal)
    BY <1>1, <1>7, <1>8, <1>10 DEF DiskOK
  <2> QED BY <2>1, <2>2, <2>3, <2>4 DEF DiskOK
<1>12. Follows(d)
  BY <1>7, <1>8, <1>9, <1>11 DEF Follows, Lost
<1>13. Pending(d) => d.journal.dir \in Doomed
  BY <1>1, <1>7, <1>8 DEF DiskPart, AskedFor
<1>14. Become(d)
  BY <1>3 DEF d, place
<1>15. DiskPart' /\ (Untouched => Untouched')
  <2>1. RemovalsFrom
    BY <1>1 DEF RemovalsFrom
  <2> QED BY <1>1, <1>12, <1>13, <1>14, <2>1, BecomeKeeps DEF DiskPart, Doomed
<1>16. disk' = d /\ \A v \in Outcomes' : v \in Outcomes \/ v = d
  BY <1>14, OutcomesAre DEF Become
<1>17. ProcPart'
  <2>1. \A x \in Dirs \ Foreign : disk'.place[x] \in {disk.place[x], Elsewhere, Gone}
    BY <1>3, <1>5, <1>7, <1>16
  <2>2. disk.journal = NoJournal => path = Root
    BY <1>2 DEF NoJournal
  <2>3. \A journal : disk.journal = NoJournal /\ Names(disk.place, journal) => Names(disk'.place, journal)
    BY <1>7, <1>10, <1>16, <2>2 DEF PathsOf
  <2>4. \A dir : disk.journal = NoJournal /\ WasRoot(disk.place, dir) => WasRoot(disk'.place, dir)
    BY <1>4, <1>5, <1>7, <1>16, <2>2 DEF WasRoot
  <2>5. disk'.journal = disk.journal /\ \A x \in Dirs : disk.place[x] = Gone => disk'.place[x] = Gone
    BY <1>7, <1>9, <1>16
  <2>6. (\A v \in Outcomes : v.journal = NoJournal) => \A v \in Outcomes' : v.journal = NoJournal
    BY <1>1, <1>7, <1>16
  <2> QED BY <1>1, <1>15, <2>1, <2>3, <2>4, <2>5, <2>6, ProcStays DEF Doomed
<1> QED BY <1>1, <1>15, <1>17 DEF ResetInvariantHolds

-----------------------------------------------------------------------------
(* The first state, and the steps together *)

\* What an earlier run may have left.
LEMMA InheritedOK ==
  ASSUME NEW b \in Dirs \ Foreign, NEW v, v \in Inherited(b)
  PROVE  /\ v \in Disks /\ DiskOK(v) /\ \A x \in Dirs : ~Lost(v, x)
         /\ v.journal.nonce \in 0..MaxResets
         /\ Pending(v) => v.journal.version = 3 /\ v.journal.dir \in Dirs
         /\ v.journal.version = 3 => v.journal.dir \in Dirs
<1> DEFINE place(path) == [c \in Dirs |-> IF c = b THEN path ELSE IF c \in Foreign THEN Elsewhere ELSE Unborn]
           content == [c \in Dirs |-> IF c = b \/ c \in Foreign THEN "owned" ELSE "bare"]
           version3 == [version |-> 3, nonce |-> 1, dir |-> b, phase |-> "rename-pending"]
           found(path, journal) == [place |-> place(path), content |-> content, journal |-> journal]
           version2 == [NoJournal EXCEPT !.version = 2]
<1>1. \E path, journal :
        /\ v = found(path, journal) /\ journal.version \in Inherits
        /\ \/ path = Root /\ journal \in {NoJournal, version2, version3}
           \/ path = Tombstone(1) /\ journal = version3
  <2>1. Inherited(b) = {f \in {found(Root, NoJournal), found(Root, version2), found(Root, version3),
                               found(Tombstone(1), version3)} : f.journal.version \in Inherits}
    BY ZenonT(30) DEF Inherited
  <2>2. \A path, journal : found(path, journal).journal = journal
    OBVIOUS
  <2> HIDE DEF found, version2, version3
  <2>3. CASE v = found(Root, NoJournal)
    BY <2>1, <2>2, <2>3
  <2>4. CASE v = found(Root, version2)
    BY <2>1, <2>2, <2>4
  <2>5. CASE v = found(Root, version3)
    BY <2>1, <2>2, <2>5
  <2>6. CASE v = found(Tombstone(1), version3)
    BY <2>1, <2>2, <2>6
  <2> QED BY <2>1, <2>3, <2>4, <2>5, <2>6
<1> PICK path, journal :
        /\ v = found(path, journal) /\ journal.version \in Inherits
        /\ \/ path = Root /\ journal \in {NoJournal, version2, version3}
           \/ path = Tombstone(1) /\ journal = version3
  BY <1>1
<1>2. version3.version = 3 /\ version3.nonce = 1 /\ version3.dir = b
  OBVIOUS
<1>3. journal = version3 => 1 \in Nonces /\ version3 \in Journals
  <2>1. journal = version3 => 1 \in Nonces
    BY <1>2, ResetsAssumption DEF Nonces
  <2> QED BY <2>1 DEF Journals
<1>4. version2 \in Journals /\ version2.version = 2
      /\ version2.nonce = 0 /\ NoJournal.version = 0 /\ NoJournal.nonce = 0
  BY DEF NoJournal, Journals, Nonces
<1>5. path \in Paths
  BY <1>3, PathsKnown
<1> DEFINE p == place(path)
<1>6. /\ p \in [Dirs -> Places]
      /\ \A x \in Dirs : p[x] = IF x = b THEN path ELSE IF x \in Foreign THEN Elsewhere ELSE Unborn
  BY <1>5 DEF Places
<1>7. content \in [Dirs -> Contents] /\ \A x \in Dirs : content[x] \in {"owned", "bare"}
  BY DEF Contents
<1>8. v.place = p /\ v.content = content /\ v.journal = journal
  OBVIOUS
<1> HIDE DEF p, content, version3, version2
<1>9. journal \in Journals \cup {NoJournal}
  BY <1>3, <1>4
<1>10. v \in Disks
  BY <1>1, <1>6, <1>7, <1>8, <1>9 DEF Disks, Places, p
<1>11. \A x \in Dirs : ~Lost(v, x)
  BY <1>7, <1>8 DEF Lost
<1>12. Pending(v) \/ v.journal.version = 3 => journal = version3
  BY <1>2, <1>4, <1>8 DEF Pending
<1>13. DiskOK(v)
  <2>1. OneEach(v)
    BY <1>6, <1>8, PathsKnown DEF OneEach
  <2>2. Named(v)
    <3> SUFFICES ASSUME NEW x \in Dirs \ Foreign, NEW n \in Nonces, p[x] \in {Tombstone(n), Disposal(n)}
                 PROVE  Condemned(v, x) /\ v.journal.nonce = n
      BY <1>8 DEF Named
    <3>1. x = b /\ path \in {Tombstone(n), Disposal(n)}
      BY <1>6, PathsApart
    <3>2. path = Tombstone(1) /\ n = 1
      BY <3>1, PathsApart
    <3>3. journal = version3
      BY <3>2, PathsApart
    <3> QED BY <1>2, <1>8, <3>1, <3>2, <3>3 DEF Condemned, Pending
  <2>3. LostIsCondemned(v)
    BY <1>11 DEF LostIsCondemned
  <2>4. Pending(v) => Names(v.place, v.journal)
    <3> SUFFICES ASSUME journal = version3 PROVE Names(p, journal)
      BY <1>8, <1>12
    <3>1. p[b] \in PathsOf(journal)
      BY <1>2, <1>6 DEF PathsOf
    <3> QED BY <1>2, <1>3, <3>1 DEF Names
  <2> QED BY <2>1, <2>2, <2>3, <2>4 DEF DiskOK
<1>14. v.journal.nonce \in 0..MaxResets
  BY <1>2, <1>3, <1>4, <1>8, ResetsAssumption DEF Nonces
<1> QED BY <1>2, <1>8, <1>10, <1>11, <1>12, <1>13, <1>14

\* The first state.
LEMMA InitSound ==
  ASSUME Init
  PROVE  ResetInvariantHolds
<1>1. PICK b \in Dirs \ Foreign : disk \in Inherited(b)
  BY DEF Init, DiskInit
<1>2. /\ disk \in Disks /\ DiskOK(disk) /\ \A x \in Dirs : ~Lost(disk, x)
      /\ disk.journal.nonce \in 0..MaxResets
      /\ Pending(disk) => disk.journal.version = 3
      /\ disk.journal.version = 3 => disk.journal.dir \in Dirs
  BY <1>1, InheritedOK
<1>3. /\ survivors = {disk} /\ platform \in {"darwin", "win32"}
      /\ proc = [p \in Processes |-> Stopped] /\ remover = [s \in Removers |-> Idle]
      /\ nonces = disk.journal.nonce
      /\ asked = IF disk.journal.version = 3 THEN {disk.journal.dir} ELSE {}
      /\ completed = {} /\ revived = {}
  BY DEF Init, DiskInit, Removers
<1>4. Outcomes = {disk}
  BY <1>3 DEF Outcomes
<1>5. DiskPart
  <2>1. DiskTypes
    BY <1>2, <1>3 DEF DiskTypes
  <2>2. remover \in [Removers -> Removals] /\ \A s \in Removers : RemoverOK(s)
    BY <1>3, IdleTyped DEF RemoverOK
  <2>3. asked \subseteq Dirs /\ AskedFor /\ Finished
    BY <1>2, <1>3, <1>4 DEF AskedFor, Finished, Doomed
  <2> QED BY <1>2, <1>3, <1>4, <2>1, <2>2, <2>3 DEF DiskPart
<1>6. ProcPart
  <2>1. Stopped \in Processing /\ Stopped.at = "off"
    BY DEF Stopped, Processing, Steps
  <2>2. \A p \in Processes : proc[p].at = "off"
    BY <1>3, <2>1
  <2>3. \A p \in Processes : ProcOK(p)
    BY <2>2 DEF ProcOK, Knows, Clear, Preparing, Cancelling
  <2> QED BY <1>3, <2>1, <2>2, <2>3 DEF ProcPart, Apart, Processes
<1> QED BY <1>2, <1>3, <1>5, <1>6 DEF ResetInvariantHolds

\* Where nothing changes.
LEMMA StutterSound ==
  ASSUME ResetInvariantHolds, UNCHANGED vars
  PROVE  ResetInvariantHolds'
BY RemoverMoves DEF ResetInvariantHolds, vars, diskVars, resetVars, history, Keep, RemovalsFrom, DiskPart

\* Every step.
LEMMA NextSound ==
  ASSUME ResetInvariantHolds, [Next]_vars
  PROVE  ResetInvariantHolds'
<1>1. CASE UNCHANGED vars
  BY <1>1, StutterSound
<1>2. CASE \E p \in Processes : Live(p)
  BY <1>2, RecoverSound, PrepareSound, CancelResetSound, EndSound, EnsureRootSound, InitializeOwnershipSound
     DEF Live
<1>3. CASE \E p \in Processes : Rejected(p) \/ Crash(p)
  BY <1>3, RejectedSound, CrashSound
<1>4. CASE \E s \in DOMAIN remover : RemoveTree(s) \/ RemoverFails(s)
  <2>1. DOMAIN remover = Removers
    BY DEF ResetInvariantHolds, DiskPart
  <2> QED BY <1>4, <2>1, RemoveTreeSound
<1>5. CASE StartApp \/ StartUninstall \/ PrepareDataReset \/ Deadline \/ Exit
  BY <1>5, StartSound, PrepareDataResetSound, DeadlineSound, EndSound
<1>6. CASE RootHeldOpen \/ PowerLoss \/ SomebodyReplaces
  BY <1>6, RejectedSound, PowerLossSound, SomebodyReplacesSound DEF Processes
<1> QED BY <1>1, <1>2, <1>3, <1>4, <1>5, <1>6 DEF Next

-----------------------------------------------------------------------------
(* What the invariant says of the reset *)

\* Two at a path are one.
LEMMA AtMostOne ==
  ASSUME OneEach(disk), NEW path \in Paths
  PROVE  Cardinality({d \in Dirs : disk.place[d] = path}) <= 1
<1> DEFINE here == {d \in Dirs : disk.place[d] = path}
<1>1. CASE here = {}
  BY <1>1, FS_EmptySet
<1>2. CASE here # {}
  <2>1. PICK d \in here : TRUE
    BY <1>2
  <2>2. here = {d}
    BY <2>1 DEF OneEach
  <2>3. Cardinality({d}) = 1
    BY FS_Singleton
  <2> QED BY <2>2, <2>3
<1> QED BY <1>1, <1>2

\* Types.
LEMMA TypesHold ==
  ASSUME ResetInvariantHolds
  PROVE  ResetTypeOK
<1>1. DiskPart /\ ProcPart /\ OneEach(disk)
  BY OutcomesAre DEF ResetInvariantHolds, DiskPart, DiskOK
<1>2. \A path \in Paths : Cardinality({d \in Dirs : disk.place[d] = path}) <= 1
  BY <1>1, AtMostOne
<1>3. \A p \in Processes : proc[p].journal \in Journals \cup {NoJournal} /\ proc[p].dir \in Dirs \cup {None}
  BY <1>1 DEF ProcPart, Processing
<1>4. \A s \in DOMAIN remover : remover[s].dir \in Dirs \cup {None}
  BY <1>1 DEF DiskPart, Removals
<1> QED BY <1>1, <1>2, <1>3, <1>4 DEF ResetTypeOK, DiskPart, DiskTypes

\* The four properties in a state.
LEMMA InvariantSays ==
  ASSUME ResetInvariantHolds
  PROVE  OnlyAskedIsDeleted /\ NothingLeftBehind /\ CompletedStaysGone /\ RunningIsNotDoomed
<1>1. /\ DiskPart /\ ProcPart /\ disk \in Outcomes /\ disk \in survivors /\ disk \in Disks
  BY OutcomesAre DEF ResetInvariantHolds, DiskPart, DiskTypes
<1>2. OnlyAskedIsDeleted
  <2>1. \A d \in Dirs : ~Lossless(d) => Lost(disk, d)
    BY <1>1, DiskFields DEF Lossless, Lost, Contents
  <2> QED BY <1>1, <2>1 DEF OnlyAskedIsDeleted, DiskPart, AskedFor, Doomed
<1>3. NothingLeftBehind
  <2>1. ASSUME NEW v \in survivors, NEW d \in Dirs \ Foreign, NEW n \in Nonces, v.place[d] \in {Tombstone(n), Disposal(n)}
        PROVE  v.journal.version # 0 /\ v.journal.nonce = n /\ v.journal.dir = d
    BY <1>1, <2>1 DEF DiskPart, DiskOK, Named, Condemned, Pending
  <2> QED BY <2>1, TypesHold DEF NothingLeftBehind
<1>4. CompletedStaysGone
  BY <1>1 DEF DiskPart, Finished, CompletedStaysGone
<1>5. RunningIsNotDoomed
  BY <1>1 DEF ProcPart, ProcOK, Clear, Processes, NoJournal, RunningIsNotDoomed
<1> QED BY <1>2, <1>3, <1>4, <1>5

-----------------------------------------------------------------------------
(* Theorems *)

\* The inductive invariant holds of every reset of the application's data, where a
\* loss of power is one of the faults, and the directory can be synchronised or not
\* (DataLifecycleService, reset-journal.ts, owned_tree.rs).
THEOREM ResetKeepsInvariant ==
  Spec => []ResetInvariantHolds
<1>1. Init => ResetInvariantHolds
  BY InitSound
<1>2. ResetInvariantHolds /\ [Next]_vars => ResetInvariantHolds'
  BY NextSound
<1> QED BY <1>1, <1>2, PTL DEF Spec

\* Nothing is deleted but what was asked for: neither the directory of somebody else
\* that took a path of the reset, nor a new profile, nor one whose reset was
\* cancelled, but for what a loss of power on Windows has brought back to a reset
\* (cancelPreparedReset, recoverReset, remove_owned_tree).
THEOREM NothingElseIsDeleted ==
  Spec => []OnlyAskedIsDeleted
<1>1. ResetInvariantHolds => OnlyAskedIsDeleted
  BY InvariantSays
<1> QED BY <1>1, ResetKeepsInvariant, PTL

\* Wherever a reset is interrupted, a profile that was renamed is named by the journal,
\* on the disk as on each that a loss of power may leave (recoverReset).
THEOREM RecoveryFindsWhatWasRenamed ==
  Spec => []NothingLeftBehind
<1>1. ResetInvariantHolds => NothingLeftBehind
  BY InvariantSays
<1> QED BY <1>1, ResetKeepsInvariant, PTL

\* What was reported complete does not return: on macOS from no disk that a loss of
\* power may leave, as the directory is synchronised before recoverReset answers; on
\* Windows not without a loss of power, which what has returned is excepted by.
THEOREM CompletionIsFinal ==
  Spec => []CompletedStaysGone
<1>1. ResetInvariantHolds => CompletedStaysGone
  BY InvariantSays
<1> QED BY <1>1, ResetKeepsInvariant, PTL

\* The application runs only while no reset is pending (prepareFoundation).
THEOREM RunningIsSafe ==
  Spec => []RunningIsNotDoomed
<1>1. ResetInvariantHolds => RunningIsNotDoomed
  BY InvariantSays
<1> QED BY <1>1, ResetKeepsInvariant, PTL
=============================================================================
