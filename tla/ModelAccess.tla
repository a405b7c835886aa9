---------------------------- MODULE ModelAccess ----------------------------
(***************************************************************************)
(* The writer-preferring lease on one model's files,                       *)
(* src/app/src/main/transcription/model-access-coordinator.ts.  A use      *)
(* lease is shared, a mutation lease is exclusive, and nobody overtakes a  *)
(* waiter: the state is a record, and each method is an operator on it.    *)
(***************************************************************************)
EXTENDS Naturals, SequencesExt

CONSTANTS
  Holders,   \* whoever may hold a lease
  Nobody     \* no holder

ASSUME NobodyAssumption == Nobody \notin Holders

Modes == {"use", "mutation"}

Waiters == [who : Holders, mode : Modes]

Locks == [readers : SUBSET Holders, writer : Holders \cup {Nobody}, queue : Seq(Waiters)]

FreeLock == [readers |-> {}, writer |-> Nobody, queue |-> <<>>]

Holds(lock, who) == who \in lock.readers \/ (who # Nobody /\ lock.writer = who)

\* How many waiters at the front of the queue ask for a use.
UsesInFront(queue) ==
  CHOOSE n \in 0..Len(queue) :
    /\ \A i \in 1..n : queue[i].mode = "use"
    /\ n < Len(queue) => queue[n + 1].mode # "use"

GrantMutation(lock) ==
  [lock EXCEPT !.writer = Head(lock.queue).who, !.queue = Tail(lock.queue)]

GrantUses(lock) ==
  LET n == UsesInFront(lock.queue)
  IN  [lock EXCEPT !.readers = @ \cup {lock.queue[i].who : i \in 1..n},
                   !.queue = SubSeq(@, n + 1, Len(@))]

\* Mutant of Drain: a waiting mutation does not ask for the readers.
DrainPastReaders(lock) ==
  IF lock.writer # Nobody \/ lock.queue = <<>> THEN lock
  ELSE IF Head(lock.queue).mode = "use" THEN GrantUses(lock)
  ELSE GrantMutation(lock)

Drain(lock) ==
  IF lock.writer # Nobody \/ lock.queue = <<>> THEN lock
  ELSE IF Head(lock.queue).mode = "use" THEN GrantUses(lock)
  ELSE IF lock.readers = {} THEN GrantMutation(lock)
  ELSE lock

Acquire(lock, holder, mode) ==
  Drain([lock EXCEPT !.queue = Append(@, [who |-> holder, mode |-> mode])])

CanTryMutation(lock) == lock.readers = {} /\ lock.writer = Nobody /\ lock.queue = <<>>

TryAcquireMutation(lock, holder) == [lock EXCEPT !.writer = holder]

\* A waiter whose signal aborts leaves the queue.
Abandon(lock, holder) ==
  LET place == CHOOSE i \in DOMAIN lock.queue : lock.queue[i].who = holder
  IN  Drain([lock EXCEPT !.queue = RemoveAt(@, place)])

ReleaseUses(lock, holders) == Drain([lock EXCEPT !.readers = @ \ holders])

ReleaseMutation(lock) == Drain([lock EXCEPT !.writer = Nobody])
=============================================================================
