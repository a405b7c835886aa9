--------------------------- MODULE ResetProperties ---------------------------
(***************************************************************************)
(* What the reset of the application's data promises.  On Windows no       *)
(* directory is synchronised, and a loss of power may bring a reset back:  *)
(* the directories concerned are revived, and excepted by that name where  *)
(* it matters.  Two statements are only stated, not kept by the program:   *)
(* CancelledIsNeverDeleted and InterruptedResetEnds.                       *)
(***************************************************************************)
EXTENDS DataReset

\* Types, that a path names one directory at most, and that nothing is revived
\* where directories are synchronised.
ResetTypeOK ==
  /\ survivors \subseteq Disks /\ disk \in survivors
  /\ \A path \in Paths : Cardinality({d \in Dirs : disk.place[d] = path}) <= 1
  /\ \A p \in Processes : proc[p].journal \in Journals \cup {NoJournal} /\ proc[p].dir \in Dirs \cup {None}
  /\ \A s \in DOMAIN remover : remover[s].dir \in Dirs \cup {None}
  /\ asked \subseteq Dirs /\ completed \subseteq Dirs
  /\ revived \subseteq Dirs /\ (platform = "darwin" => revived = {})

Lossless(d) == disk.content[d] \in {"bare", "owned"}

\* Nothing is deleted but what was asked for: not the directory of somebody
\* else that has taken a path of the reset at any moment, nor a new profile,
\* nor one whose reset was cancelled before the application said so, unless a
\* loss of power on Windows has brought that reset back
\* (cancelPreparedReset, recoverReset, remove_owned_tree).
OnlyAskedIsDeleted == \A d \in Dirs : ~Lossless(d) => d \in asked \cup revived

\* Documented, and not so on Windows: the same without that exception.  The
\* application relaunches only after "the journal is definitely absent"
\* (reset-preparation.ts:76-77), so that what was cancelled is not deleted later.
CancelledIsNeverDeleted == \A d \in Dirs : ~Lossless(d) => d \in asked

\* Whatever was interrupted where, and whatever a loss of power takes back:
\* a profile that was renamed for its removal is named by the journal, so
\* that the next recovery finds it (recoverReset's order of steps).  And no two
\* directories ever share a path.
NothingLeftBehind ==
  /\ ResetTypeOK
  /\ \A after \in survivors : \A d \in Dirs \ Foreign : \A n \in Nonces :
       after.place[d] \in {Tombstone(n), Disposal(n)} =>
         after.journal.version # 0 /\ after.journal.nonce = n /\ after.journal.dir = d

\* A reset that was reported complete stays complete: on macOS no loss of power
\* brings the profile back, from whatever disk it may leave; on Windows nothing
\* does but a loss of power, and what one has brought back is excepted, like the
\* directory of a removal that outlived its parent and was not yet flushed
\* (recoverReset: the removal of the journal is synchronised before it answers).
Outcomes == IF platform = "darwin" THEN survivors ELSE {disk}
CompletedStaysGone ==
  \A d \in completed \ revived : \A after \in Outcomes : after.place[d] = Gone

\* While the application runs on its profile no reset of it is pending, that
\* the next start would carry out (prepareFoundation).
RunningIsNotDoomed == proc["app"].at = "running" => disk.journal.version = 0

\* Something other than the directory of the reset stands at one of its paths.
InTheWay ==
  \E path \in {Root, Tombstone(disk.journal.nonce), Disposal(disk.journal.nonce)} :
    At(path) \notin {None, disk.journal.dir}

\* The profile is still to be renamed on Windows, which the files that the browser
\* holds open in it may prevent at every start (bootstrap.ts:72-73).
HeldOpen == platform = "win32" /\ At(Root) # None /\ At(Root) = disk.journal.dir

\* A reset that was asked for comes to an end wherever it was interrupted, and by
\* whatever, unless somebody else's directory, or a new root, is in its way, or
\* Windows does not let the root be renamed
\* ("recovers idempotently after a %s crash", data-lifecycle-service.test.ts:149).
ResetEnds == (disk.journal.version # 0) ~> (disk.journal.version = 0 \/ InTheWay \/ HeldOpen)

\* Documented, and not so: the same where nobody else puts anything in the way,
\* "recovers idempotently after a %s crash" (data-lifecycle-service.test.ts:149), as
\* "a missing root is created only after sibling-journal recovery has completed"
\* (application-startup-foundation.ts:58).
InterruptedResetEnds == (disk.journal.version # 0) ~> (disk.journal.version = 0 \/ HeldOpen)
=============================================================================
