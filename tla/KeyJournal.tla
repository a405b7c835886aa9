----------------------------- MODULE KeyJournal -----------------------------
(***************************************************************************)
(* The journal of captured edges, the batch that replays it and the        *)
(* cleanup batches that balance what a replay left down,                   *)
(* src/helper/keyboard-core/src/transactional/journal.rs and               *)
(* journal/batches.rs.  A cleanup batch holds only releases, one for each  *)
(* letter, and is the sequence of its letters.                             *)
(***************************************************************************)
EXTENDS KeyMatcher, SequencesExt

CONSTANT JournalCapacity

ASSUME JournalAssumption ==
  /\ JournalCapacity \in Nat
  /\ \A r \in 1..Len(Configurations) : \A b \in Configurations[r].bindings :
       2 * Len(b.keys) + 2 <= JournalCapacity

MustReplayBeforeNextCapture(journal) == Len(journal) + 1 >= JournalCapacity

\* The letters an accepted prefix leaves down, the last one down first.
CleanupForAccepted(prefix) ==
  LET Keep(held, edge) ==
        CASE edge.key \notin Letters \/ edge.phase = "Repeat" -> held
          [] edge.key \in Letters /\ edge.phase = "Up" -> SelectSeq(held, LAMBDA l : l # edge.key)
          [] OTHER -> IF Contains(held, edge.key) THEN held ELSE Append(held, edge.key)
  IN  Reverse(FoldLeft(Keep, <<>>, prefix))

ForMissingLetters(cleanup, held) == SelectSeq(cleanup, LAMBDA l : l \notin held)
WithoutLetter(cleanup, letter) == SelectSeq(cleanup, LAMBDA l : l # letter)
\* Mutant of Suffix: the first release that failed is dropped.
SuffixAfterNext(cleanup, accepted) == SubSeq(cleanup, accepted + 2, Len(cleanup))

Suffix(cleanup, accepted) == SubSeq(cleanup, accepted + 1, Len(cleanup))

Ready(cleanup, blocked) == SelectSeq(cleanup, LAMBDA l : l \notin blocked)
Blocked(cleanup, blocked) == SelectSeq(cleanup, LAMBDA l : l \in blocked)
FollowedBy(first, second) == first \o SelectSeq(second, LAMBDA l : ~Contains(first, l))

\* What a run of edges does to the keys some observer believes to be down.
Apply(held, edge) ==
  IF edge.phase = "Up"
  THEN [held EXCEPT !.letters = @ \ {edge.key}, !.sides = @ \ {edge.key}]
  ELSE [held EXCEPT !.letters = @ \cup ({edge.key} \cap Letters),
                    !.sides = @ \cup ({edge.key} \cap Sides)]
ApplyAll(held, edges) == FoldLeft(Apply, held, edges)
Releases(cleanup) == [i \in 1..Len(cleanup) |-> [key |-> cleanup[i], phase |-> "Up"]]
=============================================================================
