------------------------------ MODULE ResetDisk ------------------------------
(***************************************************************************)
(* The part of the file system that a reset of the application's data      *)
(* moves through: directories, each with an identity that it keeps         *)
(* wherever it is renamed to, the journal beside them, and what of their   *)
(* changes a loss of power may take back.                                  *)
(* app/src/main/data/owned-data-location.ts, reset-journal.ts,             *)
(* app/src/main/persistence/atomic-json.ts.                                *)
(***************************************************************************)
EXTENDS Naturals, FiniteSets

CONSTANTS
  Dirs,        \* identities of directories
  Foreign,     \* those of somebody else, that hold what is not ours to delete
  MaxResets,   \* bound: resets prepared, each with a nonce of its own
  Inherits     \* versions of the journal that an earlier run may have left, 0 for none

ASSUME DirsAssumption == Foreign \subseteq Dirs /\ 0 \notin Dirs
ASSUME ResetsAssumption == MaxResets \in Nat /\ (3 \in Inherits => MaxResets > 0)

VARIABLES
  disk,        \* what the running system sees
  survivors,   \* what it may find after a loss of power
  platform

diskVars == <<disk, survivors, platform>>

None == 0
Nonces == 1 .. MaxResets

\* The paths of a reset are siblings of the root and carry its nonce.
Root == <<"root", 0>>
Tombstone(n) == <<"tombstone", n>>
Disposal(n) == <<"disposal", n>>
Paths == {Root} \cup {Tombstone(n) : n \in Nonces} \cup {Disposal(n) : n \in Nonces}

Unborn == <<"unborn", 0>>
Elsewhere == <<"elsewhere", 0>>
Gone == <<"gone", 0>>

\* A directory is bare until its ownership marker is written; one that is
\* being removed has lost something.
Contents == {"bare", "owned", "partial", "empty"}

Journals == [version : {2, 3, 4}, nonce : Nonces \cup {0}, dir : Dirs \cup {None},
             phase : {"rename-pending", "disposal-pending"}]
NoJournal == [version |-> 0, nonce |-> 0, dir |-> None, phase |-> "rename-pending"]

Disks == [place : [Dirs -> Paths \cup {Unborn, Elsewhere, Gone}], content : [Dirs -> Contents],
          journal : Journals \cup {NoJournal}]

\* lstat: the identity of what is at a path, or None.
At(path) == LET here == {d \in Dirs : disk.place[d] = path}
            IN IF here = {} THEN None ELSE CHOOSE d \in here : TRUE

\* Changes of directory entries reach the medium in their order, but later:
\* what a loss of power leaves is what was there at some moment since the
\* last synchronisation.
Become(d) == disk' = d /\ survivors' = survivors \cup {d} /\ UNCHANGED platform
Keep == UNCHANGED diskVars
Flush == disk' = disk /\ survivors' = {disk} /\ UNCHANGED platform

\* Mutant of SyncDirectory: nothing is synchronised anywhere.
SyncNothing == Keep

\* syncDirectory: Windows has no such call for a directory, and the error is
\* ignored there.
SyncDirectory == IF platform = "darwin" THEN Flush ELSE Keep

Placed(d, path) == [disk EXCEPT !.place[d] = path]
Journaled(journal) == [disk EXCEPT !.journal = journal]

Rename(from, to) == Become(Placed(At(from), to))

\* Somebody makes the root, which does not exist: a fresh directory.
MakeRoot ==
  /\ At(Root) = None
  /\ \E d \in Dirs \ Foreign :
       /\ disk.place[d] = Unborn /\ \A c \in Dirs \ Foreign : c < d => disk.place[c] # Unborn
       /\ Become(Placed(d, Root))

\* The profile is in use, or an earlier version has left a journal
\* that asks for its removal: by version 2 directly, by version 3 by way of a
\* tombstone.
Inherited(d) ==
  LET profile(path, journal) ==
        [place |-> [c \in Dirs |-> IF c = d THEN path ELSE IF c \in Foreign THEN Elsewhere ELSE Unborn],
         content |-> [c \in Dirs |-> IF c = d \/ c \in Foreign THEN "owned" ELSE "bare"],
         journal |-> journal]
      version3 == [version |-> 3, nonce |-> 1, dir |-> d, phase |-> "rename-pending"]
  IN {found \in {profile(Root, NoJournal), profile(Root, [NoJournal EXCEPT !.version = 2]),
                 profile(Root, version3), profile(Tombstone(1), version3)} :
        found.journal.version \in Inherits}

DiskInit ==
  /\ \E d \in Dirs \ Foreign : (\A c \in Dirs \ Foreign : d <= c) /\ disk \in Inherited(d)
  /\ survivors = {disk}
  /\ platform \in {"darwin", "win32"}

\* Somebody puts another directory where one of ours is, or was: a backup is
\* restored, say, while a reset is pending.
Replace(path) ==
  \E f \in Foreign :
    /\ disk.place[f] = Elsewhere
    /\ Become([disk EXCEPT !.place = [d \in Dirs |-> IF d = f THEN path
                                                     ELSE IF disk.place[d] = path THEN Elsewhere
                                                     ELSE disk.place[d]]])
=============================================================================
