--------------------------- MODULE WhisperProofs ----------------------------
(***************************************************************************)
(* Every step of the worker's client keeps ClientInvariant, takes a step   *)
(* of ModelUse or none, and starts no process under close(). First what    *)
(* its operations keep: the lease's (who is admitted, who waits), the      *)
(* termination's, the requests' and the streaming session's. Each lemma    *)
(* says of one operator which parts of the state it leaves alone and which *)
(* parts of the invariant its result has, for every state that has them.   *)
(* Then one lemma per action, which combines the operators, and the        *)
(* theorems that follow at the end.                                        *)
(***************************************************************************)
EXTENDS WhisperInvariant, FiniteSetTheorems, SequenceTheorems, WellFoundedInduction, TLAPS

\* Whoever a lock that serves the waiters of another one admits was waiting in it,
\* and nobody it had let in loses the lease.
Serves(lock, served) ==
  /\ LockOK(served)
  /\ Lined(served) \subseteq Lined(lock)
  /\ lock.readers \subseteq served.readers
  /\ served.readers \subseteq lock.readers \cup Lined(lock)
  /\ served.writer = lock.writer \/ (lock.writer = Nobody /\ served.writer \in Lined(lock))

\* The lock after some of its readers gave it back.
Yields(lock, gone, left) ==
  /\ LockOK(left)
  /\ Lined(left) \subseteq Lined(lock)
  /\ lock.readers \ gone \subseteq left.readers
  /\ left.readers \subseteq (lock.readers \ gone) \cup Lined(lock)
  /\ left.writer = lock.writer \/ (lock.writer = Nobody /\ left.writer \in Lined(lock))

\* The order of the numbers, as the relation the library's theorems speak of.
LEMMA LessIsOrder == \A m, n \in Nat : m < n => <<m, n>> \in OpToRel(<, Nat)
BY DEF OpToRel

\* A set of numbers has a least one.
LEMMA LeastNumber ==
  ASSUME NEW T \in SUBSET Nat, T # {}
  PROVE  \E m \in T : \A n \in T : m <= n
<1>1. IsWellFoundedOn(OpToRel(<, Nat), Nat)
  BY NatLessThanWellFounded
<1>2. PICK m \in T : \A n \in T : ~(<<n, m>> \in OpToRel(<, Nat))
  BY <1>1, WFMin
<1>3. \A n \in T : ~(n < m)
  BY <1>2, LessIsOrder
<1> QED BY <1>3

\* The waiters that GrantUses admits all wait for a use.
LEMMA FrontWaitsForUse ==
  ASSUME NEW queue \in Seq(Waiters)
  PROVE  /\ UsesInFront(queue) \in 0..Len(queue)
         /\ \A i \in 1..UsesInFront(queue) : queue[i].mode = "use"
<1> DEFINE T == {i \in 1..Len(queue) : queue[i].mode # "use"}
<1>1. Len(queue) \in Nat
  BY LenProperties
<1>2. \E n \in 0..Len(queue) :
        /\ \A i \in 1..n : queue[i].mode = "use"
        /\ n < Len(queue) => queue[n + 1].mode # "use"
  <2>1. CASE T = {}
    BY <1>1, <2>1
  <2>2. CASE T # {}
    <3>1. T \in SUBSET Nat
      OBVIOUS
    <3> HIDE DEF T
    <3>2. PICK m \in T : \A n \in T : m <= n
      BY <2>2, <3>1, LeastNumber
    <3> USE DEF T
    <3>3. /\ m - 1 \in 0..Len(queue) /\ (m - 1) + 1 = m
          /\ \A i \in 1..(m - 1) : i \in 1..Len(queue) /\ ~(m <= i)
      BY <1>1
    <3>4. \A i \in 1..(m - 1) : queue[i].mode = "use"
      BY <3>2, <3>3
    <3> QED BY <1>1, <3>3, <3>4
  <2> QED BY <2>1, <2>2
<1> QED BY <1>2 DEF UsesInFront

\* A sequence without the element at one place.
LEMMA RemoveAtProperties ==
  ASSUME NEW S, NEW seq \in Seq(S), NEW k \in 1..Len(seq)
  PROVE  /\ RemoveAt(seq, k) \in Seq(S)
         /\ Len(RemoveAt(seq, k)) = Len(seq) - 1
         /\ DOMAIN RemoveAt(seq, k) = 1..Len(RemoveAt(seq, k))
         /\ \A i \in 1..Len(RemoveAt(seq, k)) :
              RemoveAt(seq, k)[i] = IF i < k THEN seq[i] ELSE seq[i + 1]
<1> DEFINE before == SubSeq(seq, 1, k - 1)
           behind == SubSeq(seq, k + 1, Len(seq))
<1>1. Len(seq) \in Nat /\ \A i \in 1..Len(seq) : seq[i] \in S
  BY LenProperties, ElementOfSeq
<1>2. /\ before \in Seq(S) /\ Len(before) = k - 1
      /\ \A i \in 1..(k - 1) : before[i] = seq[i]
  BY <1>1, SubSeqProperties
<1>3. /\ behind \in Seq(S) /\ Len(behind) = Len(seq) - k
      /\ \A i \in 1..(Len(seq) - k) : behind[i] = seq[k + i]
  BY <1>1, SubSeqProperties
<1> HIDE DEF before, behind
<1>4. /\ before \o behind \in Seq(S) /\ Len(before \o behind) = Len(seq) - 1
      /\ \A i \in 1..(Len(seq) - 1) :
           (before \o behind)[i] = IF i <= k - 1 THEN before[i] ELSE behind[i - (k - 1)]
  BY <1>1, <1>2, <1>3, ConcatProperties
<1>5. \A i \in 1..(Len(seq) - 1) :
        (before \o behind)[i] = IF i < k THEN seq[i] ELSE seq[i + 1]
  <2> TAKE i \in 1..(Len(seq) - 1)
  <2>1. CASE i < k
    BY <1>1, <1>2, <1>4, <2>1
  <2>2. CASE ~(i < k)
    <3>1. i - (k - 1) \in 1..(Len(seq) - k) /\ k + (i - (k - 1)) = i + 1 /\ ~(i <= k - 1)
      BY <1>1, <2>2
    <3> QED BY <1>3, <1>4, <2>2, <3>1
  <2> QED BY <2>1, <2>2
<1>6. DOMAIN (before \o behind) = 1..(Len(seq) - 1)
  BY <1>4, LenProperties
<1>7. RemoveAt(seq, k) = before \o behind
  BY DEF RemoveAt, before, behind
<1> QED BY <1>4, <1>5, <1>6, <1>7

-----------------------------------------------------------------------------

\* The waiters of a queue that comes from another one by leaving some out.
LEMMA QueueWithin ==
  ASSUME NEW lock, LockOK(lock), NEW queue \in Seq(Waiters),
         NEW place \in [1..Len(queue) -> 1..Len(lock.queue)],
         \A i \in 1..Len(queue) : queue[i] = lock.queue[place[i]],
         \A i, j \in 1..Len(queue) : place[i] = place[j] => i = j
  PROVE  /\ \A i \in DOMAIN queue : queue[i].who \in Lined(lock)
         /\ \A i \in DOMAIN queue : queue[i].mode = "mutation" <=> queue[i].who \in Mutators
         /\ \A i, j \in DOMAIN queue : queue[i].who = queue[j].who => i = j
         /\ \A k \in 1..Len(lock.queue) :
              (\A i \in DOMAIN queue : place[i] # k) =>
                \A i \in DOMAIN queue : queue[i].who # lock.queue[k].who
<1>1. /\ lock.queue \in Seq(Waiters) /\ DOMAIN lock.queue = 1..Len(lock.queue)
      /\ DOMAIN queue = 1..Len(queue)
  BY LenProperties DEF LockOK, Locks
<1>2. \A i, j \in DOMAIN lock.queue : lock.queue[i].who = lock.queue[j].who => i = j
  BY DEF LockOK
<1>3. \A i \in DOMAIN lock.queue : lock.queue[i].mode = "mutation" <=> lock.queue[i].who \in Mutators
  BY DEF LockOK
<1>4. \A i \in DOMAIN queue : place[i] \in DOMAIN lock.queue /\ queue[i] = lock.queue[place[i]]
  BY <1>1
<1>5. \A i \in DOMAIN queue : queue[i].who \in Lined(lock)
  BY <1>4 DEF Lined
<1>6. \A i \in DOMAIN queue : queue[i].mode = "mutation" <=> queue[i].who \in Mutators
  BY <1>3, <1>4
<1>7. \A i, j \in DOMAIN queue : queue[i].who = queue[j].who => i = j
  BY <1>1, <1>2, <1>4
<1>8. ASSUME NEW k \in 1..Len(lock.queue), NEW i \in DOMAIN queue, place[i] # k
      PROVE  queue[i].who # lock.queue[k].who
  BY <1>1, <1>2, <1>4, <1>8
<1> QED BY <1>5, <1>6, <1>7, <1>8

\* A lock with fewer waiters, and some of them among its readers or its writer.
LEMMA DrainServes ==
  ASSUME NEW lock, LockOK(lock)
  PROVE  Serves(lock, Drain(lock))
<1> DEFINE queue == lock.queue
<1>1. /\ lock.readers \in SUBSET Holders /\ lock.writer \in Holders \cup {Nobody}
      /\ queue \in Seq(Waiters) /\ DOMAIN queue = 1..Len(queue) /\ Len(queue) \in Nat
      /\ \A i \in 1..Len(queue) : queue[i] \in Waiters
  BY LenProperties, ElementOfSeq DEF LockOK, Locks
<1>2. CASE lock.writer # Nobody \/ queue = <<>>
  BY <1>2 DEF Drain, Serves
<1>3. CASE lock.writer = Nobody /\ queue # <<>> /\ Head(queue).mode = "use"
  <2> DEFINE n == UsesInFront(queue)
             rest == SubSeq(queue, n + 1, Len(queue))
             admitted == {queue[i].who : i \in 1..n}
             place == [i \in 1..Len(rest) |-> n + i]
  <2>1. n \in 0..Len(queue) /\ \A i \in 1..n : queue[i].mode = "use"
    BY <1>1, FrontWaitsForUse
  <2> HIDE DEF n
  <2>2. /\ rest \in Seq(Waiters) /\ DOMAIN rest = 1..Len(rest) /\ Len(rest) = Len(queue) - n
        /\ \A i \in 1..Len(rest) : rest[i] = queue[n + i]
    <3>1. \A i \in (n + 1)..Len(queue) : queue[i] \in Waiters
      BY <1>1, <2>1
    <3> QED BY <1>1, <2>1, <3>1, SubSeqProperties, LenProperties
  <2> HIDE DEF rest
  <2>3. /\ \A i \in DOMAIN rest : rest[i].who \in Lined(lock)
        /\ \A i \in DOMAIN rest : rest[i].mode = "mutation" <=> rest[i].who \in Mutators
        /\ \A i, j \in DOMAIN rest : rest[i].who = rest[j].who => i = j
        /\ \A k \in 1..n : \A i \in DOMAIN rest : rest[i].who # queue[k].who
    <3>1. place \in [1..Len(rest) -> 1..Len(queue)]
      BY <1>1, <2>1, <2>2
    <3>2. \A i \in 1..Len(rest) : rest[i] = lock.queue[place[i]]
      BY <2>2
    <3>3. /\ \A i, j \in 1..Len(rest) : place[i] = place[j] => i = j
          /\ \A k \in 1..n : \A i \in 1..Len(rest) : place[i] # k
      BY <1>1, <2>1, <2>2
    <3>4. \A k \in 1..n : k \in 1..Len(queue)
      BY <1>1, <2>1
    <3>5. rest \in Seq(Waiters)
      BY <2>2
    <3>6. \A i, j \in 1..Len(rest) : place[i] = place[j] => i = j
      BY <3>3
    <3> HIDE DEF place
    <3>7. /\ \A i \in DOMAIN rest : rest[i].who \in Lined(lock)
          /\ \A i \in DOMAIN rest : rest[i].mode = "mutation" <=> rest[i].who \in Mutators
          /\ \A i, j \in DOMAIN rest : rest[i].who = rest[j].who => i = j
          /\ \A k \in 1..Len(lock.queue) :
               (\A i \in DOMAIN rest : place[i] # k) =>
                 \A i \in DOMAIN rest : rest[i].who # lock.queue[k].who
      BY ONLY LockOK(lock), <3>1, <3>2, <3>5, <3>6, QueueWithin
    <3> QED BY <2>2, <3>3, <3>4, <3>7
  <2>4. admitted \subseteq Lined(lock) /\ admitted \subseteq Holders /\ admitted \cap Mutators = {}
    <3>1. \A k \in 1..n : k \in DOMAIN queue /\ queue[k] \in Waiters
      BY <1>1, <2>1
    <3>2. \A k \in 1..n : queue[k].who \notin Mutators
      BY <2>1, <3>1 DEF LockOK
    <3> QED BY <3>1, <3>2 DEF Lined, Waiters
  <2>5. \A i \in DOMAIN rest : rest[i].who \notin admitted
    BY <2>3
  <2> HIDE DEF admitted
  <2> DEFINE d == [lock EXCEPT !.readers = lock.readers \cup admitted, !.queue = rest]
  <2>6. Drain(lock) = d
    BY <1>3 DEF Drain, GrantUses, n, rest, admitted
  <2>7. /\ d \in Locks
        /\ d.readers = lock.readers \cup admitted /\ d.queue = rest /\ d.writer = lock.writer
    BY <1>1, <2>2, <2>4 DEF LockOK, Locks
  <2> HIDE DEF d
  <2>8. Lined(d) \subseteq Lined(lock) /\ Lined(d) \cap admitted = {}
    BY <2>3, <2>5, <2>7 DEF Lined
  <2>9. LockOK(d)
    BY <1>3, <2>3, <2>4, <2>7, <2>8 DEF LockOK
  <2> QED BY <1>3, <2>4, <2>6, <2>7, <2>8, <2>9 DEF Serves
<1>4. CASE lock.writer = Nobody /\ queue # <<>> /\ Head(queue).mode # "use" /\ lock.readers = {}
  <2> DEFINE rest == Tail(queue)
             d == [lock EXCEPT !.writer = Head(queue).who, !.queue = rest]
             place == [i \in 1..Len(rest) |-> i + 1]
  <2>1. /\ rest \in Seq(Waiters) /\ Len(rest) = Len(queue) - 1
        /\ DOMAIN rest = 1..Len(rest)
        /\ \A i \in 1..Len(rest) : rest[i] = queue[i + 1]
        /\ Head(queue) = queue[1] /\ 1 \in 1..Len(queue)
    BY <1>1, <1>4, HeadTailProperties, LenProperties, EmptySeq
  <2> HIDE DEF rest
  <2>2. /\ \A i \in DOMAIN rest : rest[i].who \in Lined(lock)
        /\ \A i \in DOMAIN rest :
             rest[i].mode = "mutation" <=> rest[i].who \in Mutators
        /\ \A i, j \in DOMAIN rest : rest[i].who = rest[j].who => i = j
        /\ \A i \in DOMAIN rest : rest[i].who # queue[1].who
    <3>1. place \in [1..Len(rest) -> 1..Len(queue)]
      BY <1>1, <2>1
    <3>2. \A i \in 1..Len(rest) : rest[i] = lock.queue[place[i]]
      BY <2>1
    <3>3. \A i, j \in 1..Len(rest) : place[i] = place[j] => i = j
      BY <1>1, <2>1
    <3>4. \A i \in 1..Len(rest) : place[i] # 1
      BY <1>1, <2>1
    <3>5. rest \in Seq(Waiters)
      BY <2>1
    <3> HIDE DEF place
    <3>6. /\ \A i \in DOMAIN rest : rest[i].who \in Lined(lock)
          /\ \A i \in DOMAIN rest : rest[i].mode = "mutation" <=> rest[i].who \in Mutators
          /\ \A i, j \in DOMAIN rest : rest[i].who = rest[j].who => i = j
          /\ \A k \in 1..Len(lock.queue) :
               (\A i \in DOMAIN rest : place[i] # k) =>
                 \A i \in DOMAIN rest : rest[i].who # lock.queue[k].who
      BY <3>1, <3>2, <3>3, <3>5, QueueWithin
    <3> QED BY <2>1, <3>4, <3>6
  <2>3. Head(queue).who \in Holders /\ Head(queue).who \in Lined(lock)
    BY <1>1, <2>1 DEF Waiters, Lined
  <2>4. /\ d \in Locks
        /\ d.readers = lock.readers /\ d.queue = rest /\ d.writer = Head(queue).who
    BY <1>1, <2>1, <2>3 DEF LockOK, Locks
  <2>5. Drain(lock) = d
    BY <1>4 DEF Drain, GrantMutation, rest
  <2> HIDE DEF d
  <2>6. Lined(d) \subseteq Lined(lock) /\ Head(queue).who \notin Lined(d)
    BY <2>1, <2>2, <2>4 DEF Lined
  <2>7. LockOK(d)
    BY <1>4, <2>2, <2>4, <2>6 DEF LockOK
  <2> QED BY <1>4, <2>3, <2>4, <2>5, <2>6, <2>7 DEF Serves
<1>5. CASE lock.writer = Nobody /\ queue # <<>> /\ Head(queue).mode # "use" /\ lock.readers # {}
  BY <1>5 DEF Drain, Serves
<1> QED BY <1>2, <1>3, <1>4, <1>5

-----------------------------------------------------------------------------
(* The operations of the lease *)

\* A caller that neither waits nor holds asks for the lease.
LEMMA AcquireServes ==
  ASSUME NEW lock, LockOK(lock), NEW holder \in Holders, NEW mode \in Modes,
         holder \notin Lined(lock), holder \notin lock.readers, holder # lock.writer,
         mode = "mutation" <=> holder \in Mutators
  PROVE  LET asked == [lock EXCEPT !.queue = Append(@, [who |-> holder, mode |-> mode])]
         IN  /\ asked.readers = lock.readers /\ asked.writer = lock.writer
             /\ Lined(asked) = Lined(lock) \cup {holder}
             /\ Serves(asked, Acquire(lock, holder, mode))
<1> DEFINE waiter == [who |-> holder, mode |-> mode]
           queue == Append(lock.queue, waiter)
           asked == [lock EXCEPT !.queue = queue]
<1>1. /\ lock.queue \in Seq(Waiters) /\ DOMAIN lock.queue = 1..Len(lock.queue)
      /\ waiter \in Waiters /\ Len(lock.queue) \in Nat
  BY LenProperties DEF LockOK, Locks, Waiters
<1>2. /\ queue \in Seq(Waiters) /\ DOMAIN queue = 1..(Len(lock.queue) + 1)
      /\ \A i \in DOMAIN lock.queue : queue[i] = lock.queue[i]
      /\ queue[Len(lock.queue) + 1] = waiter
  BY <1>1
<1> HIDE DEF queue
<1>3. /\ asked \in Locks /\ asked.readers = lock.readers /\ asked.writer = lock.writer
      /\ asked.queue = queue
  BY <1>2 DEF LockOK, Locks
<1>4. Acquire(lock, holder, mode) = Drain(asked)
  BY DEF Acquire, queue
<1> HIDE DEF asked
<1>5. Lined(asked) = Lined(lock) \cup {holder}
  BY <1>1, <1>2, <1>3 DEF Lined
<1>6. \A i \in DOMAIN queue : queue[i].mode = "mutation" <=> queue[i].who \in Mutators
  BY <1>1, <1>2 DEF LockOK
<1>7. \A i, j \in DOMAIN queue : queue[i].who = queue[j].who => i = j
  <2>1. \A i \in DOMAIN lock.queue : queue[i].who # holder
    BY <1>2 DEF Lined
  <2>2. \A i, j \in DOMAIN lock.queue : queue[i].who = queue[j].who => i = j
    BY <1>2 DEF LockOK
  <2>3. /\ \A i \in DOMAIN queue : i \in DOMAIN lock.queue \/ i = Len(lock.queue) + 1
        /\ queue[Len(lock.queue) + 1].who = holder
    BY <1>1, <1>2
  <2> QED BY <2>1, <2>2, <2>3
<1>8. LockOK(asked)
  BY <1>3, <1>5, <1>6, <1>7 DEF LockOK
<1> QED BY <1>3, <1>4, <1>5, <1>8, DrainServes DEF asked, queue

\* deleteIfIdle's mutation takes a lease that nobody holds or waits for.
LEMMA TryAcquireOK ==
  ASSUME NEW lock, LockOK(lock), NEW holder \in Holders, CanTryMutation(lock)
  PROVE  /\ LockOK(TryAcquireMutation(lock, holder))
         /\ TryAcquireMutation(lock, holder).readers = {}
         /\ TryAcquireMutation(lock, holder).writer = holder
         /\ Lined(TryAcquireMutation(lock, holder)) = {}
<1> DEFINE taken == TryAcquireMutation(lock, holder)
<1>1. /\ taken \in Locks /\ taken.readers = {} /\ taken.writer = holder /\ taken.queue = <<>>
  BY DEF LockOK, Locks, CanTryMutation, TryAcquireMutation
<1> HIDE DEF taken
<1>2. Lined(taken) = {}
  BY <1>1 DEF Lined
<1>3. LockOK(taken)
  BY <1>1, <1>2 DEF LockOK
<1> QED BY <1>1, <1>2, <1>3 DEF taken

\* A waiter leaves the queue, and whoever it kept waiting may be let in.
LEMMA AbandonYields ==
  ASSUME NEW lock, LockOK(lock), NEW holder \in Lined(lock)
  PROVE  /\ Yields(lock, {}, Abandon(lock, holder))
         /\ holder \notin Lined(Abandon(lock, holder))
         /\ holder \notin Abandon(lock, holder).readers
         /\ holder # Abandon(lock, holder).writer
<1> DEFINE k == CHOOSE i \in DOMAIN lock.queue : lock.queue[i].who = holder
           queue == RemoveAt(lock.queue, k)
           left == [lock EXCEPT !.queue = queue]
           place == [i \in 1..Len(queue) |-> IF i < k THEN i ELSE i + 1]
<1>1. /\ lock.queue \in Seq(Waiters) /\ DOMAIN lock.queue = 1..Len(lock.queue)
      /\ Len(lock.queue) \in Nat /\ \A i \in 1..Len(lock.queue) : lock.queue[i] \in Waiters
  BY LenProperties, ElementOfSeq DEF LockOK, Locks
<1>2. k \in 1..Len(lock.queue) /\ lock.queue[k].who = holder
  BY <1>1 DEF Lined
<1> HIDE DEF k
<1>3. /\ queue \in Seq(Waiters) /\ Len(queue) = Len(lock.queue) - 1 /\ DOMAIN queue = 1..Len(queue)
      /\ \A i \in 1..Len(queue) : queue[i] = IF i < k THEN lock.queue[i] ELSE lock.queue[i + 1]
  BY <1>1, <1>2, RemoveAtProperties
<1> HIDE DEF queue
<1>4. /\ \A i \in DOMAIN queue : queue[i].who \in Lined(lock)
      /\ \A i \in DOMAIN queue : queue[i].mode = "mutation" <=> queue[i].who \in Mutators
      /\ \A i, j \in DOMAIN queue : queue[i].who = queue[j].who => i = j
      /\ \A i \in DOMAIN queue : queue[i].who # holder
  <2>1. place \in [1..Len(queue) -> 1..Len(lock.queue)]
    BY <1>1, <1>2, <1>3
  <2>2. \A i \in 1..Len(queue) : queue[i] = lock.queue[place[i]]
    BY <1>3
  <2>3. \A i, j \in 1..Len(queue) : place[i] = place[j] => i = j
    BY <1>1, <1>2, <1>3
  <2>4. \A i \in 1..Len(queue) : place[i] # k
    BY <1>1, <1>2, <1>3
  <2>5. queue \in Seq(Waiters)
    BY <1>3
  <2> HIDE DEF place
  <2>6. /\ \A i \in DOMAIN queue : queue[i].who \in Lined(lock)
        /\ \A i \in DOMAIN queue : queue[i].mode = "mutation" <=> queue[i].who \in Mutators
        /\ \A i, j \in DOMAIN queue : queue[i].who = queue[j].who => i = j
        /\ \A n \in 1..Len(lock.queue) :
             (\A i \in DOMAIN queue : place[i] # n) =>
               \A i \in DOMAIN queue : queue[i].who # lock.queue[n].who
    BY <2>1, <2>2, <2>3, <2>5, QueueWithin
  <2> QED BY <1>2, <1>3, <2>4, <2>6
<1>5. /\ left \in Locks /\ left.readers = lock.readers /\ left.writer = lock.writer
      /\ left.queue = queue
  BY <1>3 DEF LockOK, Locks
<1>6. Abandon(lock, holder) = Drain(left)
  BY DEF Abandon, k, queue
<1> HIDE DEF left
<1>7. Lined(left) \subseteq Lined(lock) /\ holder \notin Lined(left)
  BY <1>4, <1>5 DEF Lined
<1>8. LockOK(left)
  BY <1>4, <1>5, <1>7 DEF LockOK
<1>9. Serves(left, Drain(left))
  BY <1>8, DrainServes
<1> QED BY <1>5, <1>6, <1>7, <1>9 DEF Serves, Yields, LockOK

\* The use leases are given back.
LEMMA ReleaseUsesYields ==
  ASSUME NEW lock, LockOK(lock), NEW holders
  PROVE  Yields(lock, holders, ReleaseUses(lock, holders))
<1> DEFINE left == [lock EXCEPT !.readers = lock.readers \ holders]
<1>1. /\ left \in Locks /\ left.readers = lock.readers \ holders /\ left.writer = lock.writer
      /\ left.queue = lock.queue
  BY DEF LockOK, Locks
<1>2. ReleaseUses(lock, holders) = Drain(left)
  BY DEF ReleaseUses
<1> HIDE DEF left
<1>3. LockOK(left) /\ Lined(left) = Lined(lock)
  BY <1>1 DEF LockOK, Lined
<1> QED BY <1>1, <1>2, <1>3, DrainServes DEF Serves, Yields

\* The mutation is over.
LEMMA ReleaseMutationServes ==
  ASSUME NEW lock, LockOK(lock), lock.writer # Nobody
  PROVE  LET left == ReleaseMutation(lock)
         IN  /\ LockOK(left) /\ Lined(left) \subseteq Lined(lock)
             /\ left.readers \subseteq Lined(lock) /\ left.writer \in Lined(lock) \cup {Nobody}
<1> DEFINE left == [lock EXCEPT !.writer = Nobody]
<1>1. /\ left \in Locks /\ left.readers = lock.readers /\ left.writer = Nobody
      /\ left.queue = lock.queue /\ lock.readers = {}
  BY DEF LockOK, Locks
<1>2. ReleaseMutation(lock) = Drain(left)
  BY DEF ReleaseMutation
<1> HIDE DEF left
<1>3. /\ \A i \in DOMAIN left.queue : left.queue[i] \in Waiters
  BY <1>1, ElementOfSeq, LenProperties DEF Locks
<1>4. LockOK(left) /\ Lined(left) = Lined(lock)
  BY <1>1, <1>3, NobodyAssumption DEF LockOK, Lined, Waiters
<1> QED BY <1>1, <1>2, <1>4, DrainServes DEF Serves

\* What a process may be terminated for.
Causes == {"cancel", "close", "health", "unavailable", "protocol"}

\* Only the termination, and the processes it kills, may differ.
EndsOnly(s, t) ==
  /\ t.cast = s.cast /\ t.lock = s.lock /\ t.pc = s.pc /\ t.expected = s.expected
  /\ t.sess = s.sess /\ t.req = s.req /\ t.chain = s.chain /\ t.gen = s.gen
  /\ t.process = s.process /\ t.lastExited = s.lastExited /\ t.health = s.health
  /\ t.restarts = s.restarts /\ t.restartDue = s.restartDue /\ t.retired = s.retired
  /\ t.leases = s.leases /\ t.closing = s.closing

\* A kill of a process that a termination or a quarantine has given up.
LEMMA KilledOK ==
  ASSUME NEW s, ClientInvariant(s), NEW g \in Generations
  PROVE  /\ ClientInvariant(Killed(s, g)) /\ EndsOnly(s, Killed(s, g))
         /\ Killed(s, g).term = s.term
         /\ \A h \in Generations : Killed(s, g).alive[h] <=> s.alive[h] /\ h # g
         /\ \A h \in Generations : Killed(s, g).job[h] = IF h = g THEN NoSlot ELSE s.job[h]
<1> DEFINE t == Killed(s, g)
<1>1. /\ t \in States /\ EndsOnly(s, t) /\ t.term = s.term
      /\ t.alive = [s.alive EXCEPT ![g] = FALSE] /\ t.job = [s.job EXCEPT ![g] = NoSlot]
      /\ s.alive \in [Generations -> BOOLEAN] /\ s.job \in [Generations -> Slots \cup {NoSlot}]
  BY DEF ClientInvariant, States, Killed, EndsOnly
<1> HIDE DEF t
<1>2. /\ \A h \in Generations : t.alive[h] <=> s.alive[h] /\ h # g
      /\ \A h \in Generations : t.job[h] = IF h = g THEN NoSlot ELSE s.job[h]
  BY <1>1
<1>3. LockOK(t.lock) /\ CallersHold(t)
  BY <1>1 DEF ClientInvariant, CallersHold, EndsOnly
<1>4. ProcessesKnown(t) /\ TerminationIsCurrent(t)
  BY <1>1, <1>2 DEF ClientInvariant, ProcessesKnown, TerminationIsCurrent, EndsOnly
<1>5. RequestsOwned(t) /\ SessionStays(t) /\ ChainSound(t) /\ CancelsOwned(t)
  BY <1>1 DEF ClientInvariant, RequestsOwned, Owned, SessionStays, ChainSound, CancelsOwned, Closing, EndsOnly
<1>6. JobIsSent(t)
  BY <1>1, <1>2 DEF ClientInvariant, JobIsSent, EndsOnly
<1>7. SessionSound(t) /\ SessionCovered(t)
  BY <1>1 DEF ClientInvariant, SessionSound, SessionCovered, Risk, Active, IsCurrent, EndsOnly
<1>8. LeasesOwed(t) /\ NoneLeaked(t)
  BY <1>1 DEF ClientInvariant, LeasesOwed, NoneLeaked, EndsOnly
<1>9. JobsCovered(t)
  BY <1>1, <1>2 DEF ClientInvariant, JobsCovered, EndsOnly
<1> QED BY <1>1, <1>2, <1>3, <1>4, <1>5, <1>6, <1>7, <1>8, <1>9 DEF ClientInvariant, t

\* A termination of the current process.
LEMMA TerminationOK ==
  ASSUME NEW s, ClientInvariant(s), NEW term \in Terminations, s.process, term.gen = s.gen,
         term.confirmed => ~s.alive[s.gen],
         term.kind = "cancel" => \A slot \in term.cancelled : s.req[slot].phase = "sent" => s.req[slot].asked,
         term.kind = "close" => Closing(s)
  PROVE  LET t == [s EXCEPT !.term = term]
         IN  ClientInvariant(t) /\ EndsOnly(s, t) /\ t.term = term /\ t.alive = s.alive /\ t.job = s.job
<1> DEFINE t == [s EXCEPT !.term = term]
<1>1. /\ t \in States /\ EndsOnly(s, t) /\ t.term = term /\ t.alive = s.alive /\ t.job = s.job
  BY DEF ClientInvariant, States, EndsOnly
<1> HIDE DEF t
<1>2. s.gen \in Generations
  BY DEF ClientInvariant, States, ProcessesKnown, Generations
<1>3. LockOK(t.lock) /\ CallersHold(t)
  BY <1>1 DEF ClientInvariant, CallersHold, EndsOnly
<1>4. ProcessesKnown(t) /\ TerminationIsCurrent(t)
  BY <1>1, <1>2 DEF ClientInvariant, ProcessesKnown, TerminationIsCurrent, EndsOnly, Generations
<1>5. RequestsOwned(t) /\ SessionStays(t) /\ ChainSound(t)
  BY <1>1 DEF ClientInvariant, RequestsOwned, Owned, SessionStays, ChainSound, Closing, EndsOnly
<1>6. CancelsOwned(t)
  BY <1>1 DEF ClientInvariant, CancelsOwned, Closing, EndsOnly
<1>7. JobIsSent(t)
  BY <1>1, <1>2 DEF ClientInvariant, JobIsSent, EndsOnly
<1>8. SessionSound(t) /\ SessionCovered(t)
  BY <1>1 DEF ClientInvariant, SessionSound, SessionCovered, Risk, Active, IsCurrent, EndsOnly
<1>9. LeasesOwed(t) /\ JobsCovered(t)
  BY <1>1 DEF ClientInvariant, LeasesOwed, JobsCovered, EndsOnly
<1>10. NoneLeaked(t)
  BY <1>1, <1>2 DEF ClientInvariant, TerminationIsCurrent, NoneLeaked, EndsOnly, Generations
<1> QED BY <1>1, <1>3, <1>4, <1>5, <1>6, <1>7, <1>8, <1>9, <1>10 DEF ClientInvariant, t

\* Beginning a termination, also one of a process that is gone or ends already,
\* ends processes and nothing else.
LEMMA BeginTerminationOK ==
  ASSUME NEW s, ClientInvariant(s), NEW g, NEW kind \in Causes, NEW restart \in BOOLEAN,
         NEW cancelled \in SUBSET Slots, NEW killed \in BOOLEAN,
         kind = "cancel" => \A slot \in cancelled : s.req[slot].phase = "sent" => s.req[slot].asked,
         kind = "close" => Closing(s)
  PROVE  LET t == BeginTermination(s, g, kind, restart, cancelled, killed)
         IN  /\ ClientInvariant(t) /\ EndsOnly(s, t)
             /\ g = s.gen /\ s.process => t.term.gen = g
<1> DEFINE t == BeginTermination(s, g, kind, restart, cancelled, killed)
<1>0. s.process => s.gen \in Generations
  BY DEF ClientInvariant, States, ProcessesKnown, Generations
<1>1. CASE g # s.gen \/ ~s.process
  BY <1>1 DEF BeginTermination, EndsOnly
<1>2. CASE g = s.gen /\ s.process /\ s.term.gen = g
  <2>1. CASE kind = "close"
    <3> DEFINE term == [s.term EXCEPT !.kind = "close", !.restart = FALSE]
    <3>1. /\ term \in Terminations /\ term.gen = s.gen /\ term.confirmed = s.term.confirmed
          /\ term.kind = "close"
      BY <1>2 DEF ClientInvariant, States, Terminations
    <3>2. t = [s EXCEPT !.term = term]
      BY <1>2, <2>1 DEF BeginTermination, ClientInvariant, States, Terminations
    <3>3. s.term.gen # 0 /\ (term.confirmed => ~s.alive[s.gen])
      BY <1>0, <1>2, <3>1 DEF ClientInvariant, TerminationIsCurrent, Generations
    <3> HIDE DEF term
    <3>4. /\ ClientInvariant([s EXCEPT !.term = term]) /\ EndsOnly(s, [s EXCEPT !.term = term])
          /\ [s EXCEPT !.term = term].term = term
      BY <1>2, <2>1, <3>1, <3>3, TerminationOK
    <3> QED BY <1>2, <3>1, <3>2, <3>4
  <2>2. CASE kind # "close"
    BY <1>2, <2>2 DEF BeginTermination, EndsOnly
  <2> QED BY <2>1, <2>2
<1>3. CASE g = s.gen /\ s.process /\ s.term.gen # g
  <2> DEFINE term == [gen |-> g, kind |-> kind, restart |-> restart, cancelled |-> cancelled,
                      confirmed |-> killed, timer |-> "force"]
             u == IF killed THEN Killed(s, g) ELSE s
  <2>1. /\ term \in Terminations /\ term.gen = g /\ term.confirmed = killed
        /\ term.kind = kind /\ term.cancelled = cancelled
    BY <1>0, <1>3 DEF Terminations, Causes, Generations
  <2>2. ClientInvariant(u) /\ EndsOnly(s, u) /\ (killed => ~u.alive[g])
    <3>1. CASE killed
      BY <1>0, <1>3, <3>1, KilledOK
    <3>2. CASE ~killed
      BY <3>2 DEF EndsOnly
    <3> QED BY <3>1, <3>2
  <2>3. t = [u EXCEPT !.term = term]
    BY <1>3 DEF BeginTermination, Killed, ClientInvariant, States
  <2> HIDE DEF term, u
  <2>4. u.process /\ u.gen = g /\ u.req = s.req /\ (Closing(u) <=> Closing(s))
    BY <1>3, <2>2 DEF EndsOnly, Closing
  <2>5. /\ ClientInvariant([u EXCEPT !.term = term]) /\ EndsOnly(u, [u EXCEPT !.term = term])
        /\ [u EXCEPT !.term = term].term = term
    BY <2>1, <2>2, <2>4, TerminationOK
  <2> QED BY <2>1, <2>2, <2>3, <2>5 DEF EndsOnly
<1> QED BY <1>1, <1>2, <1>3

-----------------------------------------------------------------------------
(* The operations of a request *)

\* Only the requests and their chain may differ.
AsksOnly(s, t) ==
  /\ t.cast = s.cast /\ t.lock = s.lock /\ t.pc = s.pc /\ t.expected = s.expected
  /\ t.sess = s.sess /\ t.gen = s.gen /\ t.process = s.process /\ t.lastExited = s.lastExited
  /\ t.health = s.health /\ t.restarts = s.restarts /\ t.restartDue = s.restartDue
  /\ t.term = s.term /\ t.retired = s.retired /\ t.leases = s.leases /\ t.closing = s.closing
  /\ t.alive = s.alive /\ t.job = s.job

\* The chain without the request at place k, which is over.
LEMMA ChainWithout ==
  ASSUME NEW s, ClientInvariant(s), NEW t, NEW k \in 1..Len(s.chain),
         t.chain \in Seq(Slots), Len(t.chain) = Len(s.chain) - 1,
         \A i \in 1..Len(t.chain) : t.chain[i] = IF i < k THEN s.chain[i] ELSE s.chain[i + 1],
         \A slot \in Slots : slot # s.chain[k] => t.req[slot].phase = s.req[slot].phase,
         t.req[s.chain[k]].phase \notin {"turn", "sent"}
  PROVE  ChainSound(t)
<1>1. /\ s.chain \in Seq(Slots) /\ Len(s.chain) \in Nat /\ DOMAIN s.chain = 1..Len(s.chain)
      /\ \A i \in 1..Len(s.chain) : s.chain[i] \in Slots
      /\ DOMAIN t.chain = 1..Len(t.chain)
  BY LenProperties, ElementOfSeq DEF ClientInvariant, States
<1>2. \A i, j \in 1..Len(s.chain) : s.chain[i] = s.chain[j] => i = j
  BY <1>1 DEF ClientInvariant, ChainSound
<1> DEFINE place == [i \in 1..Len(t.chain) |-> IF i < k THEN i ELSE i + 1]
<1>P. /\ \A i \in 1..Len(t.chain) : place[i] \in 1..Len(s.chain) /\ place[i] # k
      /\ \A i, j \in 1..Len(t.chain) : place[i] = place[j] => i = j
  BY <1>1
<1>Q. \A i \in 1..Len(t.chain) : t.chain[i] = s.chain[place[i]]
  OBVIOUS
<1> HIDE DEF place
<1>3. ASSUME NEW i \in DOMAIN t.chain, NEW j \in DOMAIN t.chain, t.chain[i] = t.chain[j]
      PROVE  i = j
  <2>1. i \in 1..Len(t.chain) /\ j \in 1..Len(t.chain)
    BY <1>1
  <2>2. /\ place[i] \in 1..Len(s.chain) /\ place[j] \in 1..Len(s.chain)
        /\ s.chain[place[i]] = s.chain[place[j]]
    BY <1>3, <1>P, <1>Q, <2>1
  <2>3. place[i] = place[j]
    BY <1>2, <2>2
  <2> QED BY <1>P, <2>1, <2>3
<1>4. \A i \in 1..Len(t.chain) : t.chain[i] \in Slots /\ t.chain[i] # s.chain[k]
  <2> TAKE i \in 1..Len(t.chain)
  <2>1. place[i] \in 1..Len(s.chain) /\ place[i] # k /\ t.chain[i] = s.chain[place[i]]
    BY <1>P, <1>Q
  <2>2. s.chain[place[i]] # s.chain[k]
    BY <1>2, <2>1
  <2> QED BY <1>1, <2>1, <2>2
<1>5. \A i \in DOMAIN t.chain : t.req[t.chain[i]].phase \in {"turn", "sent"}
  <2>1. \A j \in 1..Len(s.chain) : s.req[s.chain[j]].phase \in {"turn", "sent"}
    BY <1>1 DEF ClientInvariant, ChainSound
  <2>2. \A i \in 1..Len(t.chain) : s.req[t.chain[i]].phase \in {"turn", "sent"}
    BY <1>P, <1>Q, <2>1
  <2>3. \A i \in 1..Len(t.chain) : t.req[t.chain[i]].phase = s.req[t.chain[i]].phase
    BY <1>4
  <2> QED BY <1>1, <2>2, <2>3
<1>6. ASSUME NEW slot \in Slots, t.req[slot].phase \in {"turn", "sent"}
      PROVE  \E i \in DOMAIN t.chain : t.chain[i] = slot
  <2>1. slot # s.chain[k] /\ s.req[slot].phase \in {"turn", "sent"}
    BY <1>6
  <2>2. PICK j \in 1..Len(s.chain) : s.chain[j] = slot
    BY <1>1, <2>1 DEF ClientInvariant, ChainSound
  <2>3. CASE j < k
    BY <1>1, <2>2, <2>3
  <2>4. CASE ~(j < k)
    <3>1. j # k
      BY <2>1, <2>2
    <3>2. j - 1 \in 1..Len(t.chain) /\ ~(j - 1 < k) /\ (j - 1) + 1 = j
      BY <1>1, <2>4, <3>1
    <3> QED BY <1>1, <2>2, <3>2
  <2> QED BY <2>3, <2>4
<1>7. ASSUME NEW slot \in Slots, t.req[slot].phase = "sent"
      PROVE  t.chain[1] = slot
  <2>1. slot # s.chain[k] /\ s.req[slot].phase = "sent"
    BY <1>7
  <2>2. s.chain[1] = slot
    BY <2>1 DEF ClientInvariant, ChainSound
  <2>3. PICK i \in DOMAIN t.chain : t.chain[i] = slot
    BY <1>6, <1>7
  <2>4. k # 1 /\ 1 \in 1..Len(t.chain)
    BY <1>1, <2>1, <2>2, <2>3
  <2> QED BY <2>2, <2>4
<1> QED BY <1>3, <1>5, <1>6, <1>7 DEF ChainSound

\* What a request may be told.
Results == {"ok", "error", "crashed", "cancelled"}

\* A settled request keeps what it captured.
LEMMA SettleOK ==
  ASSUME NEW request \in Requested, NEW result \in Results
  PROVE  LET settled == Settle(request, result)
         IN  /\ settled \in Requested
             /\ settled.phase = "done" /\ settled.result = result
             /\ settled.asked = request.asked /\ settled.captured = request.captured
<1> DEFINE settled == Settle(request, result)
<1>1. settled = [phase |-> "done", kind |-> request.kind, waits |-> 0, expected |-> 0, gen |-> 0,
                 captured |-> request.captured, result |-> result, asked |-> request.asked]
  <2> DEFINE done == [phase |-> "done", kind |-> request.kind, waits |-> request.waits,
                      expected |-> request.expected, gen |-> request.gen,
                      captured |-> request.captured, result |-> request.result,
                      asked |-> request.asked]
  <2>1. request = [done EXCEPT !.phase = request.phase]
    BY DEF Requested
  <2>2. [request EXCEPT !.phase = "done"] = done
    BY <2>1
  <2>3. settled = [done EXCEPT !.result = result, !.waits = 0, !.expected = 0, !.gen = 0]
    BY <2>2 DEF Settle
  <2> QED BY <2>3
<1> HIDE DEF settled
<1>2. settled \in Requested
  BY <1>1, BoundsAssumption DEF Requested, Results, Phases
<1> QED BY <1>1, <1>2 DEF settled

\* A request fails, or is answered when no worker does it any more.
LEMMA FailOK ==
  ASSUME NEW s, ClientInvariant(s), NEW slot \in Slots, NEW result \in Results,
         Active(s, slot),
         \A g \in Generations :
           s.alive[g] /\ g = s.gen /\ s.process /\ s.term.gen # g => s.job[g] # slot,
         result = "cancelled" => s.req[slot].asked \/ Closing(s)
  PROVE  LET t == Fail(s, slot, result)
         IN  /\ ClientInvariant(t) /\ AsksOnly(s, t)
             /\ \A other \in Slots \ {slot} : t.req[other] = s.req[other]
             /\ t.req[slot].phase = "done" /\ t.req[slot].asked = s.req[slot].asked
<1> DEFINE t == Fail(s, slot, result)
           places == {i \in DOMAIN s.chain : s.chain[i] = slot}
           k == CHOOSE i \in places : TRUE
<1>1. /\ s.chain \in Seq(Slots) /\ Len(s.chain) \in Nat /\ DOMAIN s.chain = 1..Len(s.chain)
      /\ s.req \in [Slots -> Requested]
  BY LenProperties DEF ClientInvariant, States
<1>2. /\ t.chain \in Seq(Slots)
      /\ t.chain = IF places = {} THEN s.chain ELSE RemoveAt(s.chain, k)
      /\ t.req = [s.req EXCEPT ![slot] = Settle(s.req[slot], result)]
      /\ t \in States /\ AsksOnly(s, t)
  <2>1. (IF places = {} THEN s.chain ELSE RemoveAt(s.chain, k)) \in Seq(Slots)
    BY <1>1, RemoveAtProperties
  <2>2. [s.req EXCEPT ![slot] = Settle(s.req[slot], result)] \in [Slots -> Requested]
    BY <1>1, SettleOK
  <2> QED BY <2>1, <2>2 DEF Fail, ClientInvariant, States, AsksOnly
<1> HIDE DEF t, places, k
<1>3. /\ \A other \in Slots : other # slot => t.req[other] = s.req[other]
      /\ t.req[slot].phase = "done" /\ t.req[slot].asked = s.req[slot].asked
      /\ t.req[slot].captured = s.req[slot].captured /\ t.req[slot].result = result
  BY <1>1, <1>2, SettleOK
<1>4. ChainSound(t)
  <2>1. CASE places = {}
    <3>1. s.req[slot].phase = "term"
      BY <2>1 DEF places, ClientInvariant, ChainSound, Active
    <3> QED BY <1>2, <1>3, <2>1, <3>1 DEF ClientInvariant, ChainSound, places
  <2>2. CASE places # {}
    <3>1. k \in 1..Len(s.chain) /\ s.chain[k] = slot
      BY <1>1, <2>2 DEF places, k
    <3>2. /\ t.chain \in Seq(Slots) /\ Len(t.chain) = Len(s.chain) - 1
          /\ \A i \in 1..Len(t.chain) : t.chain[i] = IF i < k THEN s.chain[i] ELSE s.chain[i + 1]
      BY <1>1, <1>2, <2>2, <3>1, RemoveAtProperties
    <3> QED BY <1>3, <3>1, <3>2, ChainWithout
  <2> QED BY <2>1, <2>2
<1>5. /\ LockOK(t.lock) /\ CallersHold(t) /\ ProcessesKnown(t) /\ TerminationIsCurrent(t)
      /\ LeasesOwed(t) /\ NoneLeaked(t)
  BY <1>2 DEF AsksOnly, ClientInvariant, CallersHold, ProcessesKnown, TerminationIsCurrent,
              LeasesOwed, NoneLeaked
<1>6. RequestsOwned(t)
  BY <1>2, <1>3 DEF AsksOnly, ClientInvariant, RequestsOwned, Owned, Active, Closing
<1>7. JobIsSent(t)
  BY <1>2, <1>3 DEF AsksOnly, ClientInvariant, JobIsSent, States
<1>8. SessionStays(t)
  BY <1>2, <1>3 DEF AsksOnly, ClientInvariant, SessionStays, Slots
<1>9. CancelsOwned(t)
  BY <1>2, <1>3 DEF AsksOnly, ClientInvariant, CancelsOwned, Closing, States, Terminations
<1>10. SessionSound(t) /\ SessionCovered(t)
  <2>1. Risk(t) => Risk(s)
    BY <1>2, <1>3 DEF AsksOnly, Risk, Active, Slots
  <2> QED BY <1>2, <2>1 DEF AsksOnly, ClientInvariant, SessionSound, SessionCovered, IsCurrent
<1>11. JobsCovered(t)
  <2>1. \A other \in Slots : t.req[other].captured = s.req[other].captured
    BY <1>3
  <2> QED BY <1>2, <2>1 DEF AsksOnly, ClientInvariant, JobsCovered, Slots
<1> QED BY <1>2, <1>3, <1>4, <1>5, <1>6, <1>7, <1>8, <1>9, <1>10, <1>11 DEF ClientInvariant, t

\* The caller's signal is noted, or anything no part of the invariant is about.
LEMMA AskedOK ==
  ASSUME NEW s, ClientInvariant(s), NEW slot \in Slots
  PROVE  LET t == [s EXCEPT !.req[slot].asked = TRUE]
         IN  /\ ClientInvariant(t) /\ AsksOnly(s, t) /\ t.chain = s.chain
             /\ t.req[slot].asked /\ t.req[slot].phase = s.req[slot].phase
             /\ t.req[slot].gen = s.req[slot].gen
             /\ \A other \in Slots \ {slot} : t.req[other] = s.req[other]
<1> DEFINE t == [s EXCEPT !.req[slot].asked = TRUE]
<1>1. s.req \in [Slots -> Requested] /\ s \in States
  BY DEF ClientInvariant, States
<1>2. [s.req[slot] EXCEPT !.asked = TRUE] \in Requested
  BY <1>1 DEF Requested
<1>3. /\ t \in States /\ AsksOnly(s, t) /\ t.chain = s.chain
      /\ t.req = [s.req EXCEPT ![slot] = [s.req[slot] EXCEPT !.asked = TRUE]]
  BY <1>1, <1>2 DEF States, AsksOnly
<1> HIDE DEF t
<1>4. /\ \A other \in Slots : other # slot => t.req[other] = s.req[other]
      /\ t.req[slot].asked
  BY <1>1, <1>3 DEF Requested
<1>5. \A other \in Slots :
        /\ t.req[other].phase = s.req[other].phase /\ t.req[other].gen = s.req[other].gen
        /\ t.req[other].expected = s.req[other].expected /\ t.req[other].result = s.req[other].result
        /\ t.req[other].captured = s.req[other].captured
        /\ s.req[other].asked => t.req[other].asked
  BY <1>1, <1>3, <1>4 DEF Requested
<1>6. /\ LockOK(t.lock) /\ CallersHold(t) /\ ProcessesKnown(t) /\ TerminationIsCurrent(t)
      /\ LeasesOwed(t) /\ NoneLeaked(t)
  BY <1>3 DEF AsksOnly, ClientInvariant, CallersHold, ProcessesKnown, TerminationIsCurrent,
              LeasesOwed, NoneLeaked
<1>7. RequestsOwned(t)
  BY <1>3, <1>5 DEF AsksOnly, ClientInvariant, RequestsOwned, Owned, Closing
<1>8. ChainSound(t)
  <2>1. \A i \in DOMAIN s.chain : s.chain[i] \in Slots
    BY <1>1, ElementOfSeq, LenProperties DEF States
  <2> QED BY <1>3, <1>5, <2>1 DEF ClientInvariant, ChainSound
<1>9. JobIsSent(t)
  BY <1>1, <1>3, <1>5 DEF AsksOnly, ClientInvariant, JobIsSent, States
<1>10. SessionStays(t)
  BY <1>3, <1>5 DEF AsksOnly, ClientInvariant, SessionStays, Slots
<1>11. CancelsOwned(t)
  BY <1>1, <1>3, <1>5 DEF AsksOnly, ClientInvariant, CancelsOwned, Closing, States, Terminations
<1>12. SessionSound(t) /\ SessionCovered(t)
  <2>1. Risk(t) => Risk(s)
    BY <1>3, <1>5 DEF AsksOnly, Risk, Active, Slots
  <2> QED BY <1>3, <2>1 DEF AsksOnly, ClientInvariant, SessionSound, SessionCovered, IsCurrent
<1>13. JobsCovered(t)
  BY <1>3, <1>5 DEF AsksOnly, ClientInvariant, JobsCovered, Slots
<1> QED BY <1>3, <1>4, <1>5, <1>6, <1>7, <1>8, <1>9, <1>10, <1>11, <1>12, <1>13 DEF ClientInvariant, t

\* The worker does what was sent to it, so what waits is not what it does.
LEMMA WaitingIsNoJob ==
  ASSUME NEW s, ClientInvariant(s), NEW slot \in Slots, s.req[slot].phase # "sent"
  PROVE  \A g \in Generations :
           s.alive[g] /\ g = s.gen /\ s.process /\ s.term.gen # g => s.job[g] # slot
<1>1. NoSlot \notin Slots
  BY DistinctAssumption, CallersAssumption DEF Slots, NoSlot
<1> QED BY <1>1 DEF ClientInvariant, JobIsSent

\* A request that is cancelled, before or after it was sent, keeps the invariant
\* and leaves the callers and the lease as they are.
LEMMA AbortOK ==
  ASSUME NEW s, ClientInvariant(s), NEW slot \in Slots, NEW killed \in BOOLEAN
  PROVE  LET t == Abort(s, slot, killed)
         IN  /\ ClientInvariant(t)
             /\ t.cast = s.cast /\ t.lock = s.lock /\ t.pc = s.pc /\ t.expected = s.expected
             /\ t.sess = s.sess /\ t.gen = s.gen /\ t.process = s.process
             /\ t.leases = s.leases /\ t.closing = s.closing
             /\ \A other \in Slots \ {slot} : t.req[other] = s.req[other]
             /\ t.req[slot].phase = "sent" => s.req[slot].phase = "sent" /\ t.req[slot].asked
             /\ t.req[slot].phase = IF Waiting(s, slot) THEN "done" ELSE s.req[slot].phase
<1> DEFINE asked == [s EXCEPT !.req[slot].asked = TRUE]
<1>1. /\ ClientInvariant(asked) /\ AsksOnly(s, asked)
      /\ asked.req[slot].asked /\ asked.req[slot].phase = s.req[slot].phase
      /\ \A other \in Slots \ {slot} : asked.req[other] = s.req[other]
  BY AskedOK
<1> HIDE DEF asked
<1>2. CASE Waiting(s, slot)
  <2>1. Active(asked, slot) /\ asked.req[slot].phase # "sent"
    BY <1>1, <1>2 DEF Waiting, Active
  <2>2. \A g \in Generations :
          asked.alive[g] /\ g = asked.gen /\ asked.process /\ asked.term.gen # g => asked.job[g] # slot
    BY <1>1, <2>1, WaitingIsNoJob
  <2> DEFINE t == Fail(asked, slot, "cancelled")
  <2>3. "cancelled" \in Results
    BY DEF Results
  <2>4. /\ ClientInvariant(t) /\ AsksOnly(asked, t)
        /\ \A other \in Slots \ {slot} : t.req[other] = asked.req[other]
        /\ t.req[slot].phase = "done" /\ t.req[slot].asked = asked.req[slot].asked
    BY <1>1, <2>1, <2>2, <2>3, FailOK
  <2>5. Abort(s, slot, killed) = t
    BY <1>2 DEF Abort, asked
  <2> HIDE DEF t
  <2> QED BY <1>1, <1>2, <2>4, <2>5 DEF AsksOnly
<1>3. CASE s.req[slot].phase = "sent"
  <2> DEFINE t == BeginTermination(asked, s.req[slot].gen, "cancel", FALSE, {slot}, killed)
  <2>1. ClientInvariant(t) /\ EndsOnly(asked, t)
    BY <1>1, BeginTerminationOK DEF Causes
  <2>2. Abort(s, slot, killed) = t /\ ~Waiting(s, slot)
    BY <1>3 DEF Abort, asked, Waiting
  <2> HIDE DEF t
  <2> QED BY <1>1, <1>3, <2>1, <2>2 DEF AsksOnly, EndsOnly
<1>4. CASE ~Waiting(s, slot) /\ s.req[slot].phase # "sent"
  BY <1>4 DEF Abort
<1> QED BY <1>2, <1>3, <1>4

\* What a request may ask for.
Kinds == {"open", "transcribe", "check", "unload", "push", "finish", "drop", "shutdown"}

\* The request of a caller that asks for nothing.
LEMMA NoRequestTyped ==
  /\ NoRequest \in Requested /\ NoRequest.phase = "none" /\ NoRequest.result = "none"
  /\ NoRequest.gen = 0 /\ NoRequest.captured = 0 /\ NoRequest.asked = FALSE
BY BoundsAssumption DEF NoRequest, Requested, Phases

\* A call makes its request: no worker has been asked for it yet.
LEMMA BeginRequestOK ==
  ASSUME NEW s, ClientInvariant(s), NEW slot \in Slots, NEW kind \in Kinds,
         NEW expected \in 0..MaxGeneration,
         s.req[slot].phase = "none", Owned(s, slot),
         slot \in Transcribers \/ (slot = "push" /\ s.pc[Session] = "opening") =>
           \A g \in Generations : s.alive[g] => s.job[g] # slot,
         slot \in {"push", "finish"} => s.sess.drop = "none",
         slot \in {"push", "finish"} /\ s.pc[Session] = "open" /\ IsCurrent(s, s.sess.gen) =>
           Session \in s.lock.readers,
         slot \in {"push", "finish", "drop"} /\ s.pc[Session] = "open" => expected = s.sess.gen
  PROVE  LET t == BeginRequest(s, slot, kind, expected)
         IN  /\ ClientInvariant(t) /\ AsksOnly(s, t) /\ t.chain = s.chain
             /\ \A other \in Slots \ {slot} : t.req[other] = s.req[other]
             /\ t.req[slot].phase = "term"
<1> DEFINE t == BeginRequest(s, slot, kind, expected)
           request == [NoRequest EXCEPT !.phase = "term", !.kind = kind,
                                        !.waits = s.term.gen, !.expected = expected]
<1>1. s.req \in [Slots -> Requested] /\ s \in States /\ s.term.gen \in 0..MaxGeneration
  BY DEF ClientInvariant, States, Terminations
<1>2. /\ request \in Requested /\ request.phase = "term" /\ request.expected = expected
      /\ request.gen = 0 /\ request.captured = 0 /\ request.result = "none"
  <2>1. PICK none \in Requested :
          /\ none = NoRequest
          /\ none.gen = 0 /\ none.captured = 0 /\ none.result = "none"
    BY NoRequestTyped
  <2>2. request = [none EXCEPT !.phase = "term", !.kind = kind, !.waits = s.term.gen,
                               !.expected = expected]
    BY <2>1
  <2> HIDE DEF request
  <2>3. request \in Requested
    BY <1>1, <2>2 DEF Requested, Phases, Kinds
  <2>4. /\ request.phase = "term" /\ request.expected = expected /\ request.gen = none.gen
        /\ request.captured = none.captured /\ request.result = none.result
    BY <1>1, <2>2 DEF Requested, Phases, Kinds
  <2> QED BY <2>1, <2>3, <2>4
<1>3. /\ t \in States /\ AsksOnly(s, t) /\ t.chain = s.chain
      /\ t.req = [s.req EXCEPT ![slot] = request]
  <2> HIDE DEF request
  <2>1. t = [s EXCEPT !.req[slot] = request]
    BY DEF BeginRequest, request
  <2> HIDE DEF t
  <2> QED BY <1>1, <1>2, <2>1 DEF States, AsksOnly
<1> HIDE DEF t, request
<1>4. (\A other \in Slots : other # slot => t.req[other] = s.req[other]) /\ t.req[slot] = request
  BY <1>1, <1>3
<1>5. /\ LockOK(t.lock) /\ CallersHold(t) /\ ProcessesKnown(t) /\ TerminationIsCurrent(t)
      /\ LeasesOwed(t) /\ NoneLeaked(t)
  BY <1>3 DEF AsksOnly, ClientInvariant, CallersHold, ProcessesKnown, TerminationIsCurrent,
              LeasesOwed, NoneLeaked
<1>6. RequestsOwned(t)
  BY <1>2, <1>3, <1>4 DEF AsksOnly, ClientInvariant, RequestsOwned, Owned, Closing
<1>7. ChainSound(t)
  <2>1. \A i \in DOMAIN s.chain : s.chain[i] \in Slots /\ s.chain[i] # slot
    BY <1>1, ElementOfSeq, LenProperties DEF States, ClientInvariant, ChainSound
  <2> QED BY <1>2, <1>3, <1>4, <2>1 DEF ClientInvariant, ChainSound
<1>8. JobIsSent(t)
  BY <1>1, <1>3, <1>4 DEF AsksOnly, ClientInvariant, JobIsSent, States
<1>9. SessionStays(t)
  BY <1>2, <1>3, <1>4 DEF AsksOnly, ClientInvariant, SessionStays, Slots
<1>10. CancelsOwned(t)
  BY <1>1, <1>2, <1>3, <1>4 DEF AsksOnly, ClientInvariant, CancelsOwned, Closing, States, Terminations
<1>11. SessionSound(t) /\ SessionCovered(t)
  <2>1. Risk(t) => Risk(s) \/ slot \in {"push", "finish"}
    BY <1>3, <1>4 DEF AsksOnly, Risk, Active, Slots
  <2> QED BY <1>3, <2>1 DEF AsksOnly, ClientInvariant, SessionSound, SessionCovered, IsCurrent
<1>12. JobsCovered(t)
  BY <1>1, <1>3, <1>4 DEF AsksOnly, ClientInvariant, JobsCovered, Slots
<1> QED BY <1>2, <1>3, <1>4, <1>5, <1>6, <1>7, <1>8, <1>9, <1>10, <1>11, <1>12 DEF ClientInvariant, t

-----------------------------------------------------------------------------
(* Processes come and go *)

\* Only the quarantined processes and the lease may differ.
CleansOnly(s, t) ==
  /\ t.cast = s.cast /\ t.pc = s.pc /\ t.expected = s.expected
  /\ t.sess = s.sess /\ t.req = s.req /\ t.chain = s.chain /\ t.gen = s.gen
  /\ t.process = s.process /\ t.lastExited = s.lastExited /\ t.health = s.health
  /\ t.restarts = s.restarts /\ t.restartDue = s.restartDue /\ t.term = s.term
  /\ t.closing = s.closing

\* The callers, when some of them gave a lease back that they do not rely on.
LEMMA YieldedCallers ==
  ASSUME NEW s, CallersHold(s), NEW t, t.pc = s.pc, NEW gone, Yields(s.lock, gone, t.lock),
         \A c \in gone : s.pc[c] \notin {"working", "opening"}, gone \cap Verifiers = {}
  PROVE  CallersHold(t)
<1>1. Mutators \subseteq Holders /\ Transcribers \subseteq Holders /\ Session \in Holders
  BY CallersAssumption
<1>2. \A c \in Lined(t.lock) : t.pc[c] = "waiting"
  BY DEF CallersHold, Yields
<1>3. ASSUME NEW c \in Holders, t.pc[c] = "idle"
      PROVE  c \notin t.lock.readers /\ c # t.lock.writer
  BY <1>3 DEF CallersHold, Yields
<1>4. ASSUME NEW m \in Mutators, t.pc[m] \in {"unload", "unloading", "files", "checking"}
      PROVE  t.lock.writer = m
  BY <1>1, <1>4, NobodyAssumption DEF CallersHold, Yields
<1>5. /\ \A c \in Transcribers : t.pc[c] = "working" => c \in t.lock.readers
      /\ t.pc[Session] = "opening" => Session \in t.lock.readers
      /\ \A v \in Verifiers : t.pc[v] = "checking" => v \in t.lock.readers
  BY DEF CallersHold, Yields
<1> QED BY <1>2, <1>3, <1>4, <1>5 DEF CallersHold

\* Quarantined processes are gone, and what their generations owed is given back.
LEMMA CleanedOK ==
  ASSUME NEW s, ClientInvariant(s), NEW cleaned \in SUBSET s.retired,
         NEW t \in States, CleansOnly(s, t), t.retired = s.retired \ cleaned,
         \A g \in Generations : t.alive[g] <=> s.alive[g] /\ g \notin cleaned,
         \A g \in Generations : t.job[g] = IF g \in cleaned THEN NoSlot ELSE s.job[g],
         \A g \in Generations : t.leases[g] = IF g \in cleaned THEN {} ELSE s.leases[g],
         NEW holders, t.lock = ReleaseUses(s.lock, holders),
         \A c \in holders : \E g \in cleaned : c \in s.leases[g],
         \A g \in cleaned : s.leases[g] \subseteq holders
  PROVE  ClientInvariant(t)
<1>1. /\ s \in States /\ s.retired \in SUBSET Generations
      /\ s.leases \in [Generations -> SUBSET Users]
  BY DEF ClientInvariant, States
<1>2. Yields(s.lock, holders, t.lock)
  BY ReleaseUsesYields DEF ClientInvariant
<1>3. \A c \in holders : c \in Users /\ s.pc[c] \notin {"working", "opening"}
  BY <1>1 DEF ClientInvariant, LeasesOwed, Users
<1>4. LockOK(t.lock) /\ CallersHold(t)
  <2>1. holders \cap Verifiers = {}
    BY <1>3, DistinctAssumption DEF Users
  <2> QED BY <1>2, <1>3, <2>1, YieldedCallers DEF Yields, CleansOnly, ClientInvariant
<1>5. ProcessesKnown(t) /\ TerminationIsCurrent(t)
  <2>1. s.process => s.gen \in Generations
    BY DEF ClientInvariant, States, ProcessesKnown, Generations
  <2>2. ProcessesKnown(t)
    BY <1>1 DEF CleansOnly, ClientInvariant, ProcessesKnown
  <2> QED BY <2>1, <2>2 DEF CleansOnly, ClientInvariant, TerminationIsCurrent
<1>6. RequestsOwned(t) /\ SessionStays(t) /\ ChainSound(t) /\ CancelsOwned(t)
  BY DEF CleansOnly, ClientInvariant, RequestsOwned, Owned, SessionStays, ChainSound,
              CancelsOwned, Closing
<1>7. JobIsSent(t)
  BY <1>1 DEF CleansOnly, ClientInvariant, JobIsSent
<1>8. SessionSound(t)
  BY DEF CleansOnly, ClientInvariant, SessionSound, Risk, Active
<1>9. SessionCovered(t)
  <2>1. s.pc[Session] = "open" /\ IsCurrent(s, s.sess.gen) => Session \notin holders
    BY <1>1 DEF ClientInvariant, LeasesOwed, ProcessesKnown, IsCurrent
  <2> QED BY <1>2, <2>1 DEF Yields, CleansOnly, ClientInvariant, SessionCovered, IsCurrent, Risk, Active
<1>10. LeasesOwed(t)
  BY <1>1 DEF CleansOnly, ClientInvariant, LeasesOwed
<1>11. JobsCovered(t)
  <2> SUFFICES ASSUME NEW g \in Generations, t.alive[g]
               PROVE  /\ t.job[g] \in Transcribers =>
                           /\ t.job[g] \in t.lock.readers
                           /\ \/ t.pc[t.job[g]] = "working" /\ t.req[t.job[g]].captured = g
                              \/ t.pc[t.job[g]] = "over" /\ t.job[g] \in t.leases[g]
                      /\ t.job[g] \in {"push", "finish"} =>
                           /\ Session \in t.lock.readers
                           /\ \/ t.pc[Session] = "opening" /\ t.job[g] = "push" /\ t.req["push"].captured = g
                              \/ t.pc[Session] = "open" /\ t.sess.gen = g
                              \/ t.pc[Session] = "over" /\ Session \in t.leases[g]
                      /\ t.job[g] \in Verifiers => t.pc[t.job[g]] \in {"checking", "over"}
    BY DEF JobsCovered
  <2>1. s.alive[g] /\ g \notin cleaned /\ t.job[g] = s.job[g] /\ t.leases[g] = s.leases[g]
    OBVIOUS
  <2>2. s.job[g] \in Transcribers => s.job[g] \notin holders
    BY <1>1, <2>1 DEF ClientInvariant, LeasesOwed, JobsCovered
  <2>3. s.job[g] \in {"push", "finish"} => Session \notin holders
    BY <1>1, <2>1 DEF ClientInvariant, LeasesOwed, JobsCovered
  <2> QED BY <1>2, <2>1, <2>2, <2>3 DEF Yields, CleansOnly, ClientInvariant, JobsCovered
<1>12. NoneLeaked(t)
  <2> SUFFICES ASSUME NEW user \in t.lock.readers, t.pc[user] = "over"
               PROVE  \E g \in Generations : user \in t.leases[g] /\ (g \in t.retired \/ t.term.gen = g)
    BY DEF NoneLeaked
  <2>1. user \in s.lock.readers /\ user \notin holders
    BY <1>2 DEF Yields, CleansOnly, ClientInvariant, CallersHold
  <2>2. PICK g \in Generations : user \in s.leases[g] /\ (g \in s.retired \/ s.term.gen = g)
    BY <2>1 DEF CleansOnly, ClientInvariant, NoneLeaked
  <2>3. g \notin cleaned
    BY <2>1, <2>2
  <2> QED BY <2>2, <2>3 DEF CleansOnly
<1> QED BY <1>4, <1>5, <1>6, <1>7, <1>8, <1>9, <1>10, <1>11, <1>12 DEF ClientInvariant

\* retryRetiredProcessCleanup: some of the quarantined processes can be killed.
LEMMA CleanRetiredOK ==
  ASSUME NEW s, ClientInvariant(s), NEW cleaned \in SUBSET s.retired
  PROVE  LET t == CleanRetired(s, cleaned)
         IN  /\ ClientInvariant(t) /\ CleansOnly(s, t)
             /\ t.retired = s.retired \ cleaned
             /\ \A g \in Generations : t.alive[g] => s.alive[g]
<1> DEFINE t == CleanRetired(s, cleaned)
           holders == UNION {s.leases[g] : g \in cleaned}
<1>1. /\ s \in States /\ s.retired \in SUBSET Generations
      /\ s.alive \in [Generations -> BOOLEAN] /\ s.job \in [Generations -> Slots \cup {NoSlot}]
      /\ s.leases \in [Generations -> SUBSET Users]
  BY DEF ClientInvariant, States
<1>2. Yields(s.lock, holders, ReleaseUses(s.lock, holders))
  BY ReleaseUsesYields DEF ClientInvariant
<1>3. ReleaseUses(s.lock, holders) \in Locks
  BY <1>2 DEF Yields, LockOK
<1>4. /\ t \in States /\ CleansOnly(s, t)
      /\ t.retired = s.retired \ cleaned
      /\ t.alive = [g \in Generations |-> s.alive[g] /\ g \notin cleaned]
      /\ t.job = [g \in Generations |-> IF g \in cleaned THEN NoSlot ELSE s.job[g]]
      /\ t.leases = [g \in Generations |-> IF g \in cleaned THEN {} ELSE s.leases[g]]
      /\ t.lock = ReleaseUses(s.lock, holders)
  <2> HIDE DEF holders
  <2>1. [g \in Generations |-> s.alive[g] /\ g \notin cleaned] \in [Generations -> BOOLEAN]
    OBVIOUS
  <2>2. [g \in Generations |-> IF g \in cleaned THEN NoSlot ELSE s.job[g]]
          \in [Generations -> Slots \cup {NoSlot}]
    BY <1>1
  <2>3. [g \in Generations |-> IF g \in cleaned THEN {} ELSE s.leases[g]]
          \in [Generations -> SUBSET Users]
    BY <1>1
  <2> QED BY <1>1, <1>3, <2>1, <2>2, <2>3 DEF CleanRetired, States, CleansOnly, holders
<1> HIDE DEF t
<1>5. \A g \in Generations : t.alive[g] <=> s.alive[g] /\ g \notin cleaned
  BY <1>4, Zenon
<1>6. /\ \A g \in Generations : t.job[g] = IF g \in cleaned THEN NoSlot ELSE s.job[g]
      /\ \A g \in Generations : t.leases[g] = IF g \in cleaned THEN {} ELSE s.leases[g]
  BY <1>4
<1>7. /\ \A c \in holders : \E g \in cleaned : c \in s.leases[g]
      /\ \A g \in cleaned : s.leases[g] \subseteq holders
  OBVIOUS
<1> HIDE DEF holders
<1>8. ClientInvariant(t)
  BY <1>4, <1>5, <1>6, <1>7, CleanedOK
<1> QED BY <1>4, <1>5, <1>8 DEF t

\* Only the health, the restarts, what callers expect and how far close() is may differ.
FlagsOnly(s, t) ==
  /\ t.lock = s.lock /\ t.pc = s.pc /\ t.sess = s.sess /\ t.req = s.req /\ t.chain = s.chain
  /\ t.gen = s.gen /\ t.process = s.process /\ t.lastExited = s.lastExited /\ t.term = s.term
  /\ t.retired = s.retired /\ t.leases = s.leases /\ t.alive = s.alive /\ t.job = s.job
  /\ Closing(s) => Closing(t)

\* The flags of the restarts, of the health and of close() are in no other part of
\* the invariant.
LEMMA FlagsOK ==
  ASSUME NEW s, ClientInvariant(s), NEW t \in States, FlagsOnly(s, t)
  PROVE  ClientInvariant(t)
<1>1. LockOK(t.lock) /\ CallersHold(t) /\ ProcessesKnown(t) /\ TerminationIsCurrent(t)
  BY DEF FlagsOnly, ClientInvariant, CallersHold, ProcessesKnown, TerminationIsCurrent
<1>2. RequestsOwned(t) /\ JobIsSent(t) /\ SessionStays(t) /\ ChainSound(t) /\ CancelsOwned(t)
  BY DEF FlagsOnly, ClientInvariant, RequestsOwned, Owned, JobIsSent, SessionStays, ChainSound, CancelsOwned
<1>3. SessionSound(t) /\ SessionCovered(t)
  BY DEF FlagsOnly, ClientInvariant, SessionSound, SessionCovered, Risk, Active, IsCurrent
<1>4. LeasesOwed(t) /\ JobsCovered(t) /\ NoneLeaked(t)
  BY DEF FlagsOnly, ClientInvariant, LeasesOwed, JobsCovered, NoneLeaked
<1> QED BY <1>1, <1>2, <1>3, <1>4 DEF ClientInvariant

\* A restart that is scheduled, or refused, is a flag.
LEMMA ScheduleRestartOK ==
  ASSUME NEW s, ClientInvariant(s)
  PROVE  /\ ClientInvariant(ScheduleRestart(s)) /\ FlagsOnly(s, ScheduleRestart(s))
         /\ ScheduleRestart(s).cast = s.cast
         /\ ScheduleRestart(s).expected = s.expected /\ ScheduleRestart(s).closing = s.closing
<1>1. CASE s.restartDue \/ Closing(s) \/ s.restarts >= MaxRestarts
  BY <1>1 DEF ScheduleRestart, FlagsOnly
<1>2. CASE ~(s.restartDue \/ Closing(s) \/ s.restarts >= MaxRestarts)
  <2> DEFINE t == [s EXCEPT !.restartDue = TRUE, !.restarts = @ + 1]
  <2>1. s \in States /\ s.restarts + 1 \in 0..MaxRestarts
    BY <1>2, BoundsAssumption DEF ClientInvariant, States
  <2>2. t \in States /\ FlagsOnly(s, t) /\ t.cast = s.cast /\ t.expected = s.expected
        /\ t.closing = s.closing
    BY <2>1 DEF States, FlagsOnly, Closing
  <2>3. ScheduleRestart(s) = t
    BY <1>2 DEF ScheduleRestart
  <2> QED BY <2>2, <2>3, FlagsOK
<1> QED BY <1>1, <1>2

\* Only the current process may differ.
SpawnsOnly(s, t) ==
  /\ t.cast = s.cast /\ t.lock = s.lock /\ t.pc = s.pc /\ t.expected = s.expected
  /\ t.sess = s.sess /\ t.req = s.req /\ t.chain = s.chain /\ t.lastExited = s.lastExited
  /\ t.restarts = s.restarts /\ t.restartDue = s.restartDue /\ t.term = s.term
  /\ t.retired = s.retired /\ t.leases = s.leases /\ t.closing = s.closing /\ t.job = s.job

\* A new generation, with a process or without one.
LEMMA SpawnOK ==
  ASSUME NEW s, ClientInvariant(s), ~s.process, NEW t \in States, SpawnsOnly(s, t),
         t.gen >= s.gen, t.process => t.gen > s.gen,
         \A g \in Generations : t.alive[g] <=> s.alive[g] \/ (t.process /\ g = t.gen)
  PROVE  ClientInvariant(t)
<1>1. /\ s \in States /\ s.gen \in 0..MaxGeneration /\ t.gen \in 0..MaxGeneration
      /\ t.process => t.gen \in Generations
  BY BoundsAssumption DEF SpawnsOnly, ClientInvariant, States, Generations
<1>2. t.process => s.job[t.gen] = NoSlot
  BY <1>1 DEF SpawnsOnly, ClientInvariant, ProcessesKnown
<1>3. NoSlot \notin Slots
  BY DistinctAssumption, CallersAssumption DEF Slots, NoSlot
<1>4. LockOK(t.lock) /\ CallersHold(t)
  BY DEF SpawnsOnly, ClientInvariant, CallersHold
<1>5. ProcessesKnown(t)
  <2>1. s.lastExited \in Nat /\ s.lastExited <= s.gen
    BY DEF SpawnsOnly, ClientInvariant, States, ProcessesKnown
  <2>2. \A g \in s.retired : g \in Nat /\ g <= s.gen
    BY DEF SpawnsOnly, ClientInvariant, States, ProcessesKnown, Generations
  <2>3. \A g \in Generations : s.alive[g] => g \in s.retired
    BY DEF SpawnsOnly, ClientInvariant, ProcessesKnown
  <2>4. /\ t.lastExited <= t.gen /\ (t.process => t.lastExited < t.gen)
        /\ \A g \in t.retired : g <= t.gen /\ (g = t.gen => ~t.process)
    BY <1>1, <2>1, <2>2 DEF SpawnsOnly
  <2>5. \A g \in Generations : t.alive[g] => (g = t.gen /\ t.process) \/ g \in t.retired
    BY <2>3 DEF SpawnsOnly
  <2>6. \A g \in Generations : ~t.alive[g] => t.job[g] = NoSlot
    BY DEF SpawnsOnly, ClientInvariant, ProcessesKnown
  <2> QED BY <2>4, <2>5, <2>6 DEF ProcessesKnown
<1>6. TerminationIsCurrent(t)
  BY DEF SpawnsOnly, ClientInvariant, TerminationIsCurrent
<1>7. RequestsOwned(t) /\ ChainSound(t) /\ CancelsOwned(t)
  BY DEF SpawnsOnly, ClientInvariant, RequestsOwned, Owned, ChainSound, CancelsOwned, Closing
<1>8. SessionStays(t)
  BY <1>1 DEF SpawnsOnly, ClientInvariant, SessionStays, States, Sessions
<1>9. JobIsSent(t)
  BY <1>1, <1>2 DEF SpawnsOnly, JobIsSent
<1>10. SessionSound(t)
  BY DEF SpawnsOnly, ClientInvariant, SessionSound, Risk, Active
<1>11. SessionCovered(t)
  <2>1. s.pc[Session] = "open" => s.sess.gen \in 1..s.gen
    BY DEF SpawnsOnly, ClientInvariant, SessionStays
  <2> QED BY <1>1, <2>1 DEF SpawnsOnly, SessionCovered, IsCurrent
<1>12. LeasesOwed(t) /\ NoneLeaked(t)
  BY DEF SpawnsOnly, ClientInvariant, LeasesOwed, NoneLeaked
<1>13. JobsCovered(t)
  <2>1. Transcribers \cup Verifiers \subseteq Slots /\ {"push", "finish"} \subseteq Slots
    BY DEF Slots
  <2>2. \A g \in Generations : t.alive[g] /\ t.job[g] # NoSlot => s.alive[g]
    BY <1>2 DEF SpawnsOnly
  <2> QED BY <1>3, <2>1, <2>2 DEF SpawnsOnly, ClientInvariant, JobsCovered
<1> QED BY <1>4, <1>5, <1>6, <1>7, <1>8, <1>9, <1>10, <1>11, <1>12, <1>13 DEF SpawnsOnly, ClientInvariant

\* ensureProcess, when no termination is under way.
LEMMA EnsureProcessOK ==
  ASSUME NEW s, ClientInvariant(s), NEW cleaned \in SUBSET s.retired, NEW spawned \in BOOLEAN,
         ~s.process /\ spawned => s.gen < MaxGeneration
  PROVE  LET t == EnsureProcess(s, cleaned, spawned)
         IN  /\ ClientInvariant(t)
             /\ t.cast = s.cast /\ t.pc = s.pc /\ t.sess = s.sess /\ t.req = s.req
             /\ t.chain = s.chain /\ t.closing = s.closing /\ t.term = s.term
             /\ s.process \/ spawned => t.process
             /\ s.process => t = CleanRetired(s, cleaned)
             /\ ~s.process => /\ \A g \in Generations : t.job[g] = CleanRetired(s, cleaned).job[g]
                              /\ \A g \in Generations :
                                   t.alive[g] => CleanRetired(s, cleaned).alive[g] \/ g > s.gen
<1> DEFINE clean == CleanRetired(s, cleaned)
           next  == IF s.gen < MaxGeneration THEN s.gen + 1 ELSE s.gen
           health == IF "health" \in s.cast THEN "awaited" ELSE "confirmed"
<1>1. ClientInvariant(clean) /\ CleansOnly(s, clean)
  BY CleanRetiredOK
<1> HIDE DEF clean
<1>2. CASE s.process
  BY <1>1, <1>2 DEF EnsureProcess, CleansOnly, clean
<1>3. CASE ~s.process
  <2> DEFINE t == EnsureProcess(s, cleaned, spawned)
  <2>1. clean.gen = s.gen /\ ~clean.process /\ clean \in States
    BY <1>1, <1>3 DEF CleansOnly, ClientInvariant
  <2>2. /\ next \in 0..MaxGeneration /\ next >= s.gen /\ (spawned => next > s.gen)
        /\ spawned => next \in Generations
        /\ health \in {"none", "awaited", "confirmed"}
    BY <1>3, <2>1, BoundsAssumption DEF States, Generations
  <2> HIDE DEF next, health
  <2>3. /\ t \in States /\ SpawnsOnly(clean, t) /\ t.gen = next /\ (t.process <=> spawned)
        /\ t.alive = IF spawned THEN [clean.alive EXCEPT ![next] = TRUE] ELSE clean.alive
    <3>1. CASE spawned
      <4> DEFINE alive == [clean.alive EXCEPT ![next] = TRUE]
      <4>1. alive \in [Generations -> BOOLEAN]
        BY <2>1 DEF States
      <4> HIDE DEF alive
      <4>2. t = [clean EXCEPT !.gen = next, !.process = TRUE, !.alive = alive, !.health = health]
        BY <1>3, <3>1 DEF EnsureProcess, clean, next, health, alive
      <4> HIDE DEF t
      <4> QED BY <2>1, <2>2, <3>1, <4>1, <4>2 DEF States, SpawnsOnly, alive
    <3>2. CASE ~spawned
      <4>1. t = [clean EXCEPT !.gen = next]
        BY <1>3, <3>2 DEF EnsureProcess, clean, next
      <4> HIDE DEF t
      <4> QED BY <2>1, <2>2, <3>2, <4>1 DEF States, SpawnsOnly
    <3> QED BY <3>1, <3>2
  <2> HIDE DEF t
  <2>4. \A g \in Generations : t.alive[g] <=> clean.alive[g] \/ (t.process /\ g = t.gen)
    BY <2>1, <2>2, <2>3 DEF States
  <2>5. ClientInvariant(t)
    BY <1>1, <2>1, <2>2, <2>3, <2>4, SpawnOK
  <2>6. \A g \in Generations : t.alive[g] => clean.alive[g] \/ g > s.gen
    BY <2>2, <2>3, <2>4
  <2> QED BY <1>1, <1>3, <2>3, <2>5, <2>6 DEF CleansOnly, SpawnsOnly, t, clean
<1> QED BY <1>2, <1>3

\* Only what is known of the current process, which is given up, and the requests
\* may differ.
GivesUp(s, t) ==
  /\ t.cast = s.cast /\ t.lock = s.lock /\ t.pc = s.pc /\ t.expected = s.expected
  /\ t.sess = s.sess /\ t.gen = s.gen /\ t.restarts = s.restarts /\ t.restartDue = s.restartDue
  /\ t.leases = s.leases /\ t.closing = s.closing /\ t.alive = s.alive /\ t.job = s.job
  /\ ~t.process /\ t.lastExited = s.gen /\ t.term = NoTermination

\* What a request is told that the current process leaves unanswered.
Told(s, slot) ==
  IF s.term.gen = s.gen THEN ErrorOf(s.term, slot)
  ELSE IF Closing(s) THEN "cancelled" ELSE "crashed"

\* The requests that the current process leaves unanswered.
Lost(s) == {slot \in Slots : s.req[slot].phase = "sent" /\ s.req[slot].gen = s.gen}

\* What rejectGeneration leaves of the requests of the current process.
Rejects(s, t) ==
  /\ \A slot \in Slots :
       t.req[slot] = IF slot \in Lost(s) THEN Settle(s.req[slot], Told(s, slot)) ELSE s.req[slot]
  /\ t.chain = IF s.chain # <<>> /\ Head(s.chain) \in Lost(s) THEN Tail(s.chain) ELSE s.chain

\* A request that its process leaves unanswered is told of a cancellation only when
\* its caller asked for it, or when the client closes.
LEMMA ToldOK ==
  ASSUME NEW s, ClientInvariant(s), NEW slot \in Slots, s.req[slot].phase = "sent"
  PROVE  /\ Told(s, slot) \in Results
         /\ Told(s, slot) = "cancelled" => s.req[slot].asked \/ Closing(s)
BY DEF Told, ErrorOf, Results, ClientInvariant, CancelsOwned

\* The exit of a process that is quarantined, since its end is not confirmed.
LEMMA GivesUpOK ==
  ASSUME NEW s, ClientInvariant(s), s.process, NEW t \in States, GivesUp(s, t), Rejects(s, t),
         t.retired = s.retired \cup {s.gen}
  PROVE  ClientInvariant(t)
<1> DEFINE lost == Lost(s)
<1>1. /\ s.chain \in Seq(Slots) /\ Len(s.chain) \in Nat /\ DOMAIN s.chain = 1..Len(s.chain)
      /\ s.req \in [Slots -> Requested] /\ s.gen \in Generations
  BY LenProperties DEF ClientInvariant, States, ProcessesKnown, Generations
<1>2. t.chain = IF s.chain # <<>> /\ Head(s.chain) \in lost THEN Tail(s.chain) ELSE s.chain
  BY DEF Rejects
<1>3. \A slot \in Slots :
        /\ slot \notin lost => t.req[slot] = s.req[slot]
        /\ slot \in lost => /\ s.req[slot].phase = "sent"
                            /\ t.req[slot].phase = "done" /\ t.req[slot].asked = s.req[slot].asked
                            /\ t.req[slot].result = Told(s, slot)
        /\ t.req[slot].captured = s.req[slot].captured
  <2> TAKE slot \in Slots
  <2>1. CASE slot \in lost
    <3>1. s.req[slot].phase = "sent" /\ t.req[slot] = Settle(s.req[slot], Told(s, slot))
      BY <2>1 DEF Lost, Rejects
    <3>2. Told(s, slot) \in Results
      BY <3>1, ToldOK
    <3> QED BY <1>1, <2>1, <3>1, <3>2, SettleOK
  <2>2. CASE slot \notin lost
    BY <2>2 DEF Rejects
  <2> QED BY <2>1, <2>2
<1>4. \A slot \in lost : slot \in Slots /\ s.chain[1] = slot /\ Len(s.chain) > 0
  BY <1>1 DEF Lost, ClientInvariant, ChainSound
<1> HIDE DEF lost
<1>5. ChainSound(t)
  <2>1. CASE lost = {}
    <3>1. t.chain = s.chain /\ \A slot \in Slots : t.req[slot] = s.req[slot]
      BY <1>2, <1>3, <2>1
    <3>2. \A i \in DOMAIN s.chain : s.chain[i] \in Slots
      BY <1>1, ElementOfSeq
    <3> QED BY <3>1, <3>2 DEF ClientInvariant, ChainSound
  <2>2. CASE lost # {}
    <3>1. Len(s.chain) > 0 /\ s.chain[1] \in lost /\ lost \subseteq {s.chain[1]}
      BY <1>4, <2>2
    <3>2. t.chain = Tail(s.chain)
      BY <1>1, <1>2, <3>1
    <3>3. /\ t.chain \in Seq(Slots) /\ Len(t.chain) = Len(s.chain) - 1
          /\ \A i \in 1..Len(t.chain) : t.chain[i] = IF i < 1 THEN s.chain[i] ELSE s.chain[i + 1]
      BY <1>1, <3>1, <3>2
    <3>4. 1 \in 1..Len(s.chain)
      BY <1>1, <3>1
    <3>5. /\ \A slot \in Slots : slot # s.chain[1] => t.req[slot].phase = s.req[slot].phase
          /\ t.req[s.chain[1]].phase \notin {"turn", "sent"}
      BY <1>3, <1>4, <3>1
    <3> QED BY <3>3, <3>4, <3>5, ChainWithout
  <2> QED BY <2>1, <2>2
<1>6. /\ LockOK(t.lock) /\ CallersHold(t) /\ LeasesOwed(t)
  BY DEF GivesUp, ClientInvariant, CallersHold, LeasesOwed
<1>7. ProcessesKnown(t) /\ TerminationIsCurrent(t)
  BY <1>1 DEF GivesUp, ClientInvariant, ProcessesKnown, TerminationIsCurrent, NoTermination,
              States, Generations
<1>8. RequestsOwned(t)
  BY <1>3 DEF GivesUp, ClientInvariant, RequestsOwned, Owned, Closing
<1>9. JobIsSent(t) /\ SessionCovered(t)
  BY DEF GivesUp, JobIsSent, SessionCovered, IsCurrent
<1>10. SessionStays(t)
  BY <1>3 DEF GivesUp, ClientInvariant, SessionStays, Slots
<1>11. CancelsOwned(t)
  BY <1>3, ToldOK DEF GivesUp, ClientInvariant, CancelsOwned, Closing, NoTermination
<1>12. SessionSound(t)
  <2>1. Risk(t) => Risk(s)
    BY <1>3 DEF GivesUp, Risk, Active, Slots
  <2> QED BY <2>1 DEF GivesUp, ClientInvariant, SessionSound
<1>13. JobsCovered(t)
  BY <1>3 DEF GivesUp, ClientInvariant, JobsCovered, Slots
<1>14. NoneLeaked(t)
  BY <1>1 DEF GivesUp, ClientInvariant, NoneLeaked, TerminationIsCurrent, Generations
<1> QED BY <1>5, <1>6, <1>7, <1>8, <1>9, <1>10, <1>11, <1>12, <1>13, <1>14 DEF ClientInvariant

-----------------------------------------------------------------------------
(* What an operation leaves alone                                          *)

\* No caller moves, no process starts, and none is given work.
Calms(s, t) ==
  /\ t.pc = s.pc
  /\ \A g \in Generations : t.alive[g] => s.alive[g]
  /\ \A g \in Generations : t.job[g] \in {s.job[g], NoSlot}

\* Operations one after the other.
LEMMA CalmsTwice ==
  ASSUME NEW s, NEW t, NEW u, Calms(s, t), Calms(t, u)
  PROVE  Calms(s, u)
BY DEF Calms

\* Ending a process starts none.
LEMMA BeginTerminationCalms ==
  ASSUME NEW s, ClientInvariant(s), NEW g, NEW kind, NEW restart, NEW cancelled,
         NEW killed \in BOOLEAN
  PROVE  Calms(s, BeginTermination(s, g, kind, restart, cancelled, killed))
<1> DEFINE t == BeginTermination(s, g, kind, restart, cancelled, killed)
<1>1. /\ t.pc = s.pc
      /\ \/ t.alive = s.alive /\ t.job = s.job
         \/ /\ g \in Generations
            /\ t.alive = [s.alive EXCEPT ![g] = FALSE] /\ t.job = [s.job EXCEPT ![g] = NoSlot]
  <2>1. s.process => s.gen \in Generations
    BY DEF ClientInvariant, States, ProcessesKnown, Generations
  <2>2. s \in States
    BY DEF ClientInvariant
  <2> QED BY <2>1, <2>2 DEF BeginTermination, Killed, States
<1>2. s.alive \in [Generations -> BOOLEAN] /\ s.job \in [Generations -> Slots \cup {NoSlot}]
  BY DEF ClientInvariant, States
<1> HIDE DEF t
<1>3. Calms(s, t)
  BY <1>1, <1>2 DEF Calms
<1> QED BY <1>3 DEF t

\* A kill that succeeds starts none.
LEMMA CleanRetiredCalms ==
  ASSUME NEW s, ClientInvariant(s), NEW cleaned \in SUBSET s.retired
  PROVE  Calms(s, CleanRetired(s, cleaned))
<1> DEFINE t == CleanRetired(s, cleaned)
<1>1. ClientInvariant(t) /\ CleansOnly(s, t) /\ \A g \in Generations : t.alive[g] => s.alive[g]
  BY CleanRetiredOK
<1>2. t.job = [g \in Generations |-> IF g \in cleaned THEN NoSlot ELSE s.job[g]]
  BY DEF CleanRetired, ClientInvariant, States
<1> HIDE DEF t
<1>3. Calms(s, t)
  BY <1>1, <1>2 DEF Calms, CleansOnly
<1> QED BY <1>3 DEF t

-----------------------------------------------------------------------------
(* The exit of a process                                                   *)

\* What handleExit makes of the client's state, whatever becomes of the generation.
LEMMA RejectOK ==
  ASSUME NEW s, ClientInvariant(s), s.process, NEW retired \in SUBSET Generations
  PROVE  LET gone == [s EXCEPT !.lastExited = s.gen, !.process = FALSE, !.health = "none",
                               !.term = NoTermination, !.retired = retired]
             t == RejectGeneration(gone, s.gen, s.term)
         IN  t \in States /\ GivesUp(s, t) /\ Rejects(s, t) /\ t.retired = retired
<1> DEFINE g == s.gen
           gone == [s EXCEPT !.lastExited = g, !.process = FALSE, !.health = "none",
                             !.term = NoTermination, !.retired = retired]
           t == RejectGeneration(gone, g, s.term)
<1>1. /\ s \in States /\ s.gen \in Generations /\ s.gen \in 0..MaxGeneration
      /\ s.req \in [Slots -> Requested] /\ s.chain \in Seq(Slots)
      /\ NoTermination \in Terminations
  <2>1. NoTermination \in Terminations
    BY BoundsAssumption DEF NoTermination, Terminations
  <2> QED BY <2>1 DEF ClientInvariant, States, ProcessesKnown, Generations
<1>2. /\ gone \in States /\ GivesUp(s, gone) /\ gone.retired = retired
      /\ gone.req = s.req /\ gone.chain = s.chain
  BY <1>1 DEF States, GivesUp
<1> DEFINE lost == {slot \in Sent(gone) : gone.req[slot].gen = g}
           error(slot) == IF s.term.gen = g THEN ErrorOf(s.term, slot)
                          ELSE IF Closing(gone) THEN "cancelled" ELSE "crashed"
           req == [slot \in Slots |->
                     IF slot \in lost THEN Settle(gone.req[slot], error(slot)) ELSE gone.req[slot]]
           chain == IF gone.chain # <<>> /\ Head(gone.chain) \in lost
                    THEN Tail(gone.chain) ELSE gone.chain
<1>3. t = [gone EXCEPT !.req = req, !.chain = chain]
  BY DEF RejectGeneration
<1> HIDE DEF gone, t
<1>4. lost = Lost(s) /\ \A slot \in Slots : error(slot) = Told(s, slot)
  BY <1>2 DEF Sent, Lost, Told, Closing, GivesUp
<1> HIDE DEF lost, error
<1>5. \A slot \in Slots :
        req[slot] = IF slot \in Lost(s) THEN Settle(s.req[slot], Told(s, slot)) ELSE s.req[slot]
  BY <1>2, <1>4
<1>6. req \in [Slots -> Requested]
  <2>1. \A slot \in Lost(s) : slot \in Slots /\ s.req[slot].phase = "sent"
    BY DEF Lost
  <2>2. \A slot \in Lost(s) : Settle(s.req[slot], Told(s, slot)) \in Requested
    BY <1>1, <2>1, ToldOK, SettleOK
  <2>3. \A slot \in Slots : req[slot] \in Requested
    BY <1>1, <1>5, <2>2
  <2> QED BY <2>3
<1>7. chain = (IF s.chain # <<>> /\ Head(s.chain) \in Lost(s) THEN Tail(s.chain) ELSE s.chain)
      /\ chain \in Seq(Slots)
  BY <1>1, <1>2, <1>4
<1> HIDE DEF req, chain
<1>8. t \in States /\ GivesUp(s, t) /\ Rejects(s, t) /\ t.retired = retired
  BY <1>2, <1>3, <1>5, <1>6, <1>7 DEF States, GivesUp, Rejects
<1> QED BY <1>8 DEF t, gone

\* A restart, or none.
LEMMA RestartCalms ==
  ASSUME NEW s, ClientInvariant(s)
  PROVE  Calms(s, ScheduleRestart(s))
<1>1. FlagsOnly(s, ScheduleRestart(s))
  BY ScheduleRestartOK
<1> QED BY <1>1 DEF FlagsOnly, Calms

\* The exit of a process that is quarantined, since its end is not confirmed.
LEMMA QuarantineOK ==
  ASSUME NEW s, ClientInvariant(s), s.process
  PROVE  LET t == HandleExit([s EXCEPT !.retired = @ \cup {s.gen}], s.gen, FALSE)
         IN  ClientInvariant(t) /\ Calms(s, t)
<1> DEFINE t == HandleExit([s EXCEPT !.retired = @ \cup {s.gen}], s.gen, FALSE)
           retired == s.retired \cup {s.gen}
           gone == [s EXCEPT !.lastExited = s.gen, !.process = FALSE, !.health = "none",
                             !.term = NoTermination, !.retired = retired]
           rejected == RejectGeneration(gone, s.gen, s.term)
<1>1. /\ s \in States /\ s.gen \in Generations /\ s.lastExited # s.gen
      /\ retired \in SUBSET Generations
  BY DEF ClientInvariant, States, ProcessesKnown, Generations
<1> HIDE DEF retired
<1>2. /\ rejected \in States /\ GivesUp(s, rejected) /\ Rejects(s, rejected)
      /\ rejected.retired = retired
  BY <1>1, RejectOK
<1>3. t = IF s.term.gen # s.gen \/ s.term.restart THEN ScheduleRestart(rejected) ELSE rejected
  BY <1>1 DEF HandleExit, States, retired
<1> HIDE DEF rejected, t
<1>4. ClientInvariant(rejected) /\ Calms(s, rejected)
  BY <1>2, GivesUpOK DEF retired, GivesUp, Calms
<1>5. ClientInvariant(t) /\ Calms(s, t)
  BY <1>3, <1>4, ScheduleRestartOK, RestartCalms, CalmsTwice
<1> QED BY <1>5 DEF t

\* The confirmed exit of a process: what its generation owed is given back.
LEMMA HandleExitOK ==
  ASSUME NEW s, ClientInvariant(s), NEW g \in Generations, ~s.alive[g],
         g \in s.retired \/ (g = s.gen /\ s.process)
  PROVE  LET t == HandleExit(s, g, TRUE)
         IN  ClientInvariant(t) /\ Calms(s, t)
<1> DEFINE t == HandleExit(s, g, TRUE)
<1>1. /\ s \in States /\ s.alive \in [Generations -> BOOLEAN] /\ s.retired \in SUBSET Generations
      /\ s.job \in [Generations -> Slots \cup {NoSlot}] /\ s.job[g] = NoSlot
      /\ s.leases \in [Generations -> SUBSET Users]
  BY DEF ClientInvariant, States, ProcessesKnown
<1> DEFINE holders == s.leases[g]
           lock == ReleaseUses(s.lock, holders)
           leases == [s.leases EXCEPT ![g] = {}]
<1>2. lock \in Locks /\ leases \in [Generations -> SUBSET Users]
  <2>1. Yields(s.lock, holders, lock)
    BY ReleaseUsesYields DEF ClientInvariant
  <2> QED BY <1>1, <2>1 DEF Yields, LockOK
<1>3. CASE g \in s.retired
  <2>1. t = [s EXCEPT !.retired = @ \ {g}, !.leases = leases, !.lock = lock]
    BY <1>1, <1>3 DEF HandleExit, ReleaseGenerationLeases, States
  <2> HIDE DEF t, lock, leases
  <2>2. /\ t \in States /\ CleansOnly(s, t) /\ t.retired = s.retired \ {g} /\ t.lock = lock
        /\ t.leases = leases /\ t.alive = s.alive /\ t.job = s.job
    BY <1>1, <1>2, <2>1 DEF States, CleansOnly
  <2>3. /\ \A h \in Generations : t.alive[h] <=> s.alive[h] /\ h \notin {g}
        /\ \A h \in Generations : t.job[h] = IF h \in {g} THEN NoSlot ELSE s.job[h]
        /\ \A h \in Generations : t.leases[h] = IF h \in {g} THEN {} ELSE s.leases[h]
    BY <1>1, <2>2 DEF leases
  <2>4. t.lock = ReleaseUses(s.lock, holders)
    BY <2>2 DEF lock
  <2>5. /\ {g} \in SUBSET s.retired /\ (\A c \in holders : \E h \in {g} : c \in s.leases[h])
        /\ \A h \in {g} : s.leases[h] \subseteq holders
    BY <1>3
  <2> HIDE DEF holders
  <2>6. ClientInvariant(t)
    BY <2>2, <2>3, <2>4, <2>5, CleanedOK
  <2> QED BY <2>2, <2>6 DEF t, Calms, CleansOnly
<1>4. CASE g \notin s.retired
  <2>1. g = s.gen /\ s.process /\ s.lastExited # g
    BY <1>1, <1>4 DEF ClientInvariant, States, ProcessesKnown, Generations
  <2> DEFINE gone == [s EXCEPT !.lastExited = s.gen, !.process = FALSE, !.health = "none",
                               !.term = NoTermination, !.retired = s.retired]
             rejected == RejectGeneration(gone, s.gen, s.term)
             quarantined == [rejected EXCEPT !.retired = s.retired \cup {g}]
             released == ReleaseGenerationLeases(rejected, g)
  <2>2. /\ rejected \in States /\ GivesUp(s, rejected) /\ Rejects(s, rejected)
        /\ rejected.retired = s.retired
    BY <1>1, <2>1, RejectOK
  <2>3. t = IF s.term.gen # g \/ s.term.restart THEN ScheduleRestart(released) ELSE released
    <3>1. gone = [s EXCEPT !.lastExited = g, !.process = FALSE, !.health = "none",
                           !.term = NoTermination]
      BY <1>1, <2>1 DEF States
    <3> HIDE DEF gone
    <3> QED BY <1>4, <2>1, <3>1 DEF HandleExit
  <2> HIDE DEF t, gone, rejected
  <2>4. /\ quarantined \in States /\ CleansOnly(rejected, quarantined)
        /\ quarantined.retired = s.retired \cup {s.gen}
        /\ quarantined.leases = rejected.leases /\ quarantined.lock = rejected.lock
        /\ quarantined.alive = rejected.alive /\ quarantined.job = rejected.job
    <3> DEFINE retired == s.retired \cup {g}
    <3>1. retired \in SUBSET Generations /\ retired = s.retired \cup {s.gen}
      BY <1>1, <2>1
    <3>2. rejected \in States
      BY <2>2
    <3> HIDE DEF retired
    <3>3. quarantined = [rejected EXCEPT !.retired = retired]
      BY DEF retired
    <3> HIDE DEF quarantined
    <3> QED BY <3>1, <3>2, <3>3 DEF States, CleansOnly
  <2>5. /\ released \in States
        /\ released.leases = leases /\ released.lock = lock
        /\ released.retired = s.retired
        /\ CleansOnly(rejected, released)
        /\ released.alive = s.alive /\ released.job = s.job
    <3>1. released = [rejected EXCEPT !.leases = leases, !.lock = lock]
      <4>1. rejected \in States /\ rejected.leases = s.leases /\ rejected.lock = s.lock
        BY <2>2 DEF GivesUp
      <4> QED BY <4>1 DEF ReleaseGenerationLeases, States
    <3>2. /\ rejected \in States /\ rejected.retired = s.retired
          /\ rejected.alive = s.alive /\ rejected.job = s.job
      BY <2>2 DEF GivesUp
    <3> HIDE DEF released, lock, leases
    <3> QED BY <1>2, <3>1, <3>2 DEF States, CleansOnly
  <2> HIDE DEF quarantined, released
  <2>6. ClientInvariant(quarantined)
    <3>1. GivesUp(s, quarantined) /\ Rejects(s, quarantined)
      BY <2>2, <2>4 DEF GivesUp, Rejects, CleansOnly
    <3> QED BY <2>1, <2>4, <3>1, GivesUpOK
  <2>7. /\ CleansOnly(quarantined, released)
        /\ released.retired = quarantined.retired \ {g}
        /\ quarantined.leases = s.leases /\ quarantined.lock = s.lock
        /\ quarantined.alive = s.alive /\ quarantined.job = s.job
    BY <1>4, <2>1, <2>2, <2>4, <2>5 DEF CleansOnly, GivesUp
  <2>8. /\ \A h \in Generations : released.alive[h] <=> quarantined.alive[h] /\ h \notin {g}
        /\ \A h \in Generations : released.job[h] = IF h \in {g} THEN NoSlot ELSE quarantined.job[h]
        /\ \A h \in Generations : released.leases[h] = IF h \in {g} THEN {} ELSE quarantined.leases[h]
        /\ released.lock = ReleaseUses(quarantined.lock, holders)
    BY <1>1, <2>5, <2>7
  <2>9. /\ {g} \in SUBSET quarantined.retired
        /\ \A c \in holders : \E h \in {g} : c \in quarantined.leases[h]
        /\ \A h \in {g} : quarantined.leases[h] \subseteq holders
    BY <2>1, <2>4, <2>7
  <2> HIDE DEF holders, lock, leases
  <2>10. ClientInvariant(released)
    BY <2>5, <2>6, <2>7, <2>8, <2>9, CleanedOK
  <2>11. Calms(s, released)
    BY <2>2, <2>5 DEF Calms, CleansOnly, GivesUp
  <2>12. ClientInvariant(t) /\ Calms(s, t)
    BY <2>3, <2>10, <2>11, ScheduleRestartOK, RestartCalms, CalmsTwice
  <2> QED BY <2>12 DEF t
<1> QED BY <1>3, <1>4

-----------------------------------------------------------------------------
(* The operations of the streaming session                                 *)

\* Only the session, and the lease of it, may differ.
StreamsOnly(s, t) ==
  /\ t.cast = s.cast /\ t.pc = s.pc /\ t.expected = s.expected /\ t.req = s.req
  /\ t.chain = s.chain /\ t.gen = s.gen /\ t.process = s.process /\ t.lastExited = s.lastExited
  /\ t.health = s.health /\ t.restarts = s.restarts /\ t.restartDue = s.restartDue
  /\ t.term = s.term /\ t.retired = s.retired /\ t.closing = s.closing
  /\ t.alive = s.alive /\ t.job = s.job /\ t.sess.gen = s.sess.gen

\* A step of an open session: whatever it does with its lease, what it may still send
\* and what a worker still reads stay covered.
LEMMA StreamOK ==
  ASSUME NEW s, ClientInvariant(s), s.pc[Session] = "open", NEW t \in States, StreamsOnly(s, t),
         t.lock = s.lock \/ Yields(s.lock, {Session}, t.lock),
         \A g \in Generations : \A user \in Users :
           user # Session => (user \in t.leases[g] <=> user \in s.leases[g]),
         \A g \in Generations : Session \in t.leases[g] => g = s.sess.gen,
         RequestsOwned(t), SessionSound(t), SessionCovered(t),
         Session \in s.lock.readers /\ Session \notin t.lock.readers =>
           \A g \in Generations : s.alive[g] => s.job[g] \notin {"push", "finish"}
  PROVE  ClientInvariant(t)
<1>1. /\ Users \subseteq Holders /\ Session \notin Transcribers
  BY CallersAssumption, DistinctAssumption DEF Users
<1>2. /\ s.leases \in [Generations -> SUBSET Users] /\ t.leases \in [Generations -> SUBSET Users]
  BY DEF ClientInvariant, States
<1>3. LockOK(t.lock) /\ CallersHold(t)
  <2>1. CASE t.lock = s.lock
    BY <2>1 DEF StreamsOnly, ClientInvariant, CallersHold
  <2>2. CASE Yields(s.lock, {Session}, t.lock)
    <3>1. (\A c \in {Session} : s.pc[c] \notin {"working", "opening"}) /\ {Session} \cap Verifiers = {}
      BY DistinctAssumption
    <3>2. t.pc = s.pc /\ CallersHold(s)
      BY DEF StreamsOnly, ClientInvariant
    <3>3. CallersHold(t)
      BY <2>2, <3>1, <3>2, YieldedCallers
    <3> QED BY <2>2, <3>3 DEF Yields
  <2> QED BY <2>1, <2>2
<1>4. ProcessesKnown(t) /\ TerminationIsCurrent(t)
  BY DEF StreamsOnly, ClientInvariant, ProcessesKnown, TerminationIsCurrent
<1>5. JobIsSent(t) /\ SessionStays(t) /\ ChainSound(t) /\ CancelsOwned(t)
  BY DEF StreamsOnly, ClientInvariant, JobIsSent, SessionStays, ChainSound, CancelsOwned, Closing
<1>6. LeasesOwed(t)
  <2>1. \A g \in Generations : \A user \in Transcribers : user \in t.leases[g] => t.pc[user] = "over"
    BY <1>1 DEF StreamsOnly, ClientInvariant, LeasesOwed, Users
  <2>2. \A g, h \in Generations : t.leases[g] \cap t.leases[h] # {} => g = h
    BY <1>2 DEF ClientInvariant, LeasesOwed
  <2> QED BY <2>1, <2>2 DEF StreamsOnly, LeasesOwed
<1>7. JobsCovered(t)
  BY <1>1, <1>2 DEF StreamsOnly, Yields, ClientInvariant, JobsCovered, Users
<1>8. NoneLeaked(t)
  <2> SUFFICES ASSUME NEW user \in t.lock.readers, t.pc[user] = "over"
               PROVE  \E g \in Generations : user \in t.leases[g] /\ (g \in t.retired \/ t.term.gen = g)
    BY DEF NoneLeaked
  <2>1. user # Session /\ user \in s.lock.readers
    BY DEF StreamsOnly, Yields, ClientInvariant, CallersHold
  <2>2. PICK g \in Generations : user \in s.leases[g] /\ (g \in s.retired \/ s.term.gen = g)
    BY <2>1 DEF StreamsOnly, ClientInvariant, NoneLeaked
  <2> QED BY <1>2, <2>1, <2>2 DEF StreamsOnly
<1> QED BY <1>3, <1>4, <1>5, <1>6, <1>7, <1>8 DEF ClientInvariant

\* A step of an open session that leaves its lease alone.
LEMMA SessOK ==
  ASSUME NEW s, ClientInvariant(s), s.pc[Session] = "open", NEW sess \in Sessions,
         sess.gen = s.sess.gen,
         s.req["push"].phase # "none" => sess.pushing,
         s.req["finish"].phase # "none" => sess.finish = "asked",
         s.req["drop"].phase # "none" => sess.drop = "asked",
         LET t == [s EXCEPT !.sess = sess] IN SessionSound(t) /\ (Risk(t) => Risk(s))
  PROVE  LET t == [s EXCEPT !.sess = sess]
         IN  ClientInvariant(t) /\ StreamsOnly(s, t) /\ Calms(s, t) /\ t.sess = sess /\ t.lock = s.lock
<1> DEFINE t == [s EXCEPT !.sess = sess]
<1>1. /\ t \in States /\ StreamsOnly(s, t) /\ t.sess = sess
      /\ t.lock = s.lock /\ t.leases = s.leases /\ LockOK(s.lock)
      /\ SessionSound(t) /\ (Risk(t) => Risk(s))
  BY DEF ClientInvariant, States, StreamsOnly
<1> HIDE DEF t
<1>2. t.lock = s.lock
  BY <1>1
<1>3. RequestsOwned(t)
  BY <1>1 DEF StreamsOnly, ClientInvariant, RequestsOwned, Owned, Closing
<1>4. SessionCovered(t)
  BY <1>1 DEF StreamsOnly, ClientInvariant, SessionCovered, IsCurrent
<1>5. \A g \in Generations : Session \in t.leases[g] => g = s.sess.gen
  BY <1>1 DEF ClientInvariant, LeasesOwed
<1>6. ClientInvariant(t)
  BY <1>1, <1>2, <1>3, <1>4, <1>5, StreamOK
<1> QED BY <1>1, <1>6 DEF t, Calms, StreamsOnly

\* The session gives its lease back, or leaves it with the generation that is being ended.
LEMMA ReleaseSessionOK ==
  ASSUME NEW s, ClientInvariant(s), s.pc[Session] = "open",
         IsCurrent(s, s.sess.gen) /\ s.term.gen # s.sess.gen => ~Risk(s)
  PROVE  ClientInvariant(ReleaseSession(s)) /\ Calms(s, ReleaseSession(s))
<1> DEFINE g == s.sess.gen
           t == ReleaseSession(s)
           sess == [s.sess EXCEPT !.release = "none"]
           kept == g > 0 /\ ((s.term.gen = g /\ s.process) \/ g \in s.retired)
           leases == IF kept THEN [s.leases EXCEPT ![g] = @ \cup {Session}] ELSE s.leases
           lock == IF kept THEN s.lock ELSE ReleaseUses(s.lock, {Session})
<1>1. /\ s \in States /\ s.sess \in Sessions /\ g \in Generations /\ g > 0 /\ LockOK(s.lock)
      /\ s.leases \in [Generations -> SUBSET Users] /\ Session \in Users
  <2>1. s \in States /\ s.gen \in 0..MaxGeneration /\ s.sess \in Sessions /\ g \in 1..s.gen
    BY DEF ClientInvariant, States, SessionStays
  <2>2. LockOK(s.lock) /\ s.leases \in [Generations -> SUBSET Users]
    BY DEF ClientInvariant, States
  <2> QED BY <2>1, <2>2, BoundsAssumption DEF Generations, Users
<1>2. /\ sess \in Sessions /\ sess.gen = g /\ sess.closed = s.sess.closed
      /\ sess.failed = s.sess.failed /\ sess.queued = s.sess.queued
      /\ sess.pushing = s.sess.pushing /\ sess.drop = s.sess.drop
      /\ sess.finish = s.sess.finish /\ sess.cancel = s.sess.cancel
  BY <1>1 DEF Sessions
<1>3. /\ leases \in [Generations -> SUBSET Users]
      /\ \A h \in Generations : \A user \in Users :
           user # Session => (user \in leases[h] <=> user \in s.leases[h])
      /\ \A h \in Generations : Session \in leases[h] => h = g
  BY <1>1 DEF ClientInvariant, LeasesOwed
<1>4. (IF kept THEN lock = s.lock ELSE Yields(s.lock, {Session}, lock)) /\ lock \in Locks
  <2>1. Yields(s.lock, {Session}, ReleaseUses(s.lock, {Session}))
    BY <1>1, ReleaseUsesYields
  <2> QED BY <1>1, <2>1 DEF Yields, LockOK
<1>5. /\ t \in States /\ StreamsOnly(s, t) /\ t.lock = lock /\ t.leases = leases /\ t.sess = sess
  <2>1. [s EXCEPT !.sess.release = "none"] = [s EXCEPT !.sess = sess]
    OBVIOUS
  <2> HIDE DEF sess
  <2> DEFINE r == [s EXCEPT !.sess = sess]
  <2>2. /\ r \in States /\ StreamsOnly(s, r)
        /\ r.lock = s.lock /\ r.leases = s.leases /\ r.sess = sess
    BY <1>1, <1>2 DEF States, StreamsOnly
  <2>3. t = IF kept THEN [r EXCEPT !.leases = leases] ELSE [r EXCEPT !.lock = lock]
    <3>1. t = ReleaseUseWhenSafe(r, g, Session)
      BY <2>1 DEF ReleaseSession
    <3> HIDE DEF r, t
    <3> QED BY <2>2, <3>1 DEF StreamsOnly, ReleaseUseWhenSafe
  <2>4. /\ kept => lock = s.lock
        /\ ~kept => leases = s.leases
    OBVIOUS
  <2> HIDE DEF r, t, kept, leases, lock
  <2>5. CASE kept
    <3>1. t \in States /\ t.leases = leases /\ t.lock = r.lock /\ t.sess = sess /\ StreamsOnly(r, t)
      BY <1>3, <2>2, <2>3, <2>5 DEF States, StreamsOnly
    <3> QED BY <2>2, <2>4, <2>5, <3>1 DEF StreamsOnly
  <2>6. CASE ~kept
    <3>1. t \in States /\ t.leases = r.leases /\ t.lock = lock /\ t.sess = sess /\ StreamsOnly(r, t)
      BY <1>4, <2>2, <2>3, <2>6 DEF States, StreamsOnly
    <3> QED BY <2>2, <2>4, <2>6, <3>1 DEF StreamsOnly
  <2> QED BY <2>5, <2>6
<1> HIDE DEF t, sess, leases, lock
<1>6. kept => t.lock = s.lock
  BY <1>4, <1>5
<1>7. (Risk(t) <=> Risk(s)) /\ SessionSound(t) /\ RequestsOwned(t)
  <2>1. Risk(t) <=> Risk(s)
    BY <1>2, <1>5 DEF StreamsOnly, Risk, Active
  <2>2. SessionSound(t)
    BY <1>2, <1>5, <2>1 DEF StreamsOnly, ClientInvariant, SessionSound
  <2> QED BY <1>2, <1>5, <2>1, <2>2 DEF StreamsOnly, ClientInvariant, RequestsOwned, Owned, Closing
<1>8. SessionCovered(t)
  BY <1>1, <1>5, <1>6, <1>7 DEF StreamsOnly, ClientInvariant, SessionCovered, IsCurrent, ProcessesKnown
<1>9. ~kept => \A h \in Generations : s.alive[h] => s.job[h] \notin {"push", "finish"}
  <2> SUFFICES ASSUME ~kept, NEW h \in Generations, s.alive[h], s.job[h] \in {"push", "finish"}
               PROVE  FALSE
    OBVIOUS
  <2>1. h = g
    BY DEF ClientInvariant, JobsCovered
  <2>2. IsCurrent(s, g) /\ s.term.gen # g
    BY <1>1, <2>1 DEF ClientInvariant, ProcessesKnown, IsCurrent
  <2>3. s.job[h] # NoSlot
    BY DEF NoSlot
  <2>4. s.req[s.job[h]].phase = "sent"
    BY <2>1, <2>2, <2>3 DEF ClientInvariant, JobIsSent, IsCurrent
  <2> QED BY <2>2, <2>4 DEF Risk, Active
<1>10. ClientInvariant(t)
  BY <1>3, <1>4, <1>5, <1>7, <1>8, <1>9, StreamOK
<1> QED BY <1>5, <1>10 DEF t, Calms, StreamsOnly

\* A call that its caller aborts starts nothing.
LEMMA AbortCalms ==
  ASSUME NEW s, ClientInvariant(s), NEW slot \in Slots, NEW killed \in BOOLEAN
  PROVE  Calms(s, Abort(s, slot, killed))
<1> DEFINE asked == [s EXCEPT !.req[slot].asked = TRUE]
<1>1. ClientInvariant(asked) /\ AsksOnly(s, asked)
  BY AskedOK
<1>2. Calms(s, asked)
  BY <1>1 DEF AsksOnly, Calms
<1> HIDE DEF asked
<1>3. CASE Waiting(s, slot)
  <2>1. Abort(s, slot, killed) = Fail(asked, slot, "cancelled")
    BY <1>3 DEF Abort, asked
  <2>2. /\ Fail(asked, slot, "cancelled").pc = asked.pc
        /\ Fail(asked, slot, "cancelled").alive = asked.alive
        /\ Fail(asked, slot, "cancelled").job = asked.job
    BY <1>1 DEF Fail, ClientInvariant, States
  <2> QED BY <1>2, <2>1, <2>2 DEF Calms
<1>4. CASE ~Waiting(s, slot) /\ s.req[slot].phase = "sent"
  <2>1. Abort(s, slot, killed) = BeginTermination(asked, s.req[slot].gen, "cancel", FALSE, {slot}, killed)
    BY <1>4 DEF Abort, asked
  <2> QED BY <1>1, <1>2, <2>1, BeginTerminationCalms, CalmsTwice
<1>5. CASE ~Waiting(s, slot) /\ s.req[slot].phase # "sent"
  BY <1>5 DEF Abort, Calms
<1> QED BY <1>3, <1>4, <1>5

\* A request whose outcome was taken is forgotten.
LEMMA TakenOK ==
  ASSUME NEW s, ClientInvariant(s), NEW slot \in Slots, s.req[slot].phase \in {"none", "done"},
         slot \notin Transcribers, slot = "push" => s.pc[Session] # "opening"
  PROVE  LET t == [s EXCEPT !.req[slot] = NoRequest]
         IN  /\ ClientInvariant(t) /\ AsksOnly(s, t) /\ Calms(s, t) /\ t.chain = s.chain
             /\ \A other \in Slots \ {slot} : t.req[other] = s.req[other]
             /\ t.req[slot].phase = "none"
<1> DEFINE t == [s EXCEPT !.req[slot] = NoRequest]
<1>1. s.req \in [Slots -> Requested] /\ s \in States
  BY DEF ClientInvariant, States
<1>2. /\ t \in States /\ AsksOnly(s, t) /\ t.chain = s.chain
      /\ t.req = [s.req EXCEPT ![slot] = NoRequest]
  BY <1>1, NoRequestTyped DEF States, AsksOnly
<1> HIDE DEF t
<1>3. /\ \A other \in Slots : other # slot => t.req[other] = s.req[other]
      /\ t.req[slot] = NoRequest /\ t.req[slot].phase = "none"
  BY <1>1, <1>2, NoRequestTyped
<1>4. /\ LockOK(t.lock) /\ CallersHold(t) /\ ProcessesKnown(t) /\ TerminationIsCurrent(t)
      /\ LeasesOwed(t) /\ NoneLeaked(t)
  BY <1>2 DEF AsksOnly, ClientInvariant, CallersHold, ProcessesKnown, TerminationIsCurrent,
              LeasesOwed, NoneLeaked
<1>5. RequestsOwned(t)
  BY <1>2, <1>3 DEF AsksOnly, ClientInvariant, RequestsOwned, Owned, Closing
<1>6. ChainSound(t)
  <2>1. \A i \in DOMAIN s.chain : s.chain[i] \in Slots /\ s.chain[i] # slot
    BY <1>1, ElementOfSeq, LenProperties DEF States, ClientInvariant, ChainSound
  <2> QED BY <1>2, <1>3, <2>1 DEF ClientInvariant, ChainSound
<1>7. JobIsSent(t)
  BY <1>1, <1>2, <1>3 DEF AsksOnly, ClientInvariant, JobIsSent, States
<1>8. SessionStays(t) /\ CancelsOwned(t)
  BY <1>1, <1>2, <1>3 DEF AsksOnly, ClientInvariant, SessionStays, Slots, CancelsOwned, Closing,
                          States, Terminations
<1>9. SessionSound(t) /\ SessionCovered(t)
  <2>1. Risk(t) => Risk(s)
    BY <1>2, <1>3 DEF AsksOnly, Risk, Active, Slots
  <2> QED BY <1>2, <2>1 DEF AsksOnly, ClientInvariant, SessionSound, SessionCovered, IsCurrent
<1>10. JobsCovered(t)
  BY <1>2, <1>3 DEF AsksOnly, ClientInvariant, JobsCovered, Slots
<1> QED BY <1>2, <1>3, <1>4, <1>5, <1>6, <1>7, <1>8, <1>9, <1>10
        DEF ClientInvariant, Calms, AsksOnly, t

\* No request is made that the session has not made.
LEMMA SessionRequests ==
  ASSUME NEW s, ClientInvariant(s), s.pc[Session] = "open"
  PROVE  /\ s.sess \in Sessions /\ s.req \in [Slots -> Requested]
         /\ s.req["push"].phase # "none" => s.sess.pushing
         /\ s.req["finish"].phase # "none" => s.sess.finish = "asked"
         /\ s.req["drop"].phase # "none" => s.sess.drop = "asked"
<1>1. {"push", "finish", "drop"} \subseteq Slots
  BY DEF Slots
<1> QED BY <1>1 DEF ClientInvariant, States, RequestsOwned, Owned

\* The session accepts no more pushes, and what its generation owed it is forgotten.
LEMMA CloseSessionOK ==
  ASSUME NEW s, ClientInvariant(s), s.pc[Session] = "open"
  PROVE  LET t == CloseSession(s)
         IN  /\ ClientInvariant(t) /\ StreamsOnly(s, t) /\ Calms(s, t) /\ t.lock = s.lock
             /\ t.sess.closed /\ t.sess.failed = s.sess.failed /\ t.sess.aborted = s.sess.aborted
             /\ t.sess.queued = s.sess.queued /\ t.sess.pushing = s.sess.pushing
             /\ t.sess.drop = s.sess.drop /\ t.sess.finish = s.sess.finish
             /\ t.sess.cancel = s.sess.cancel
<1> DEFINE t == CloseSession(s)
           sess == [s.sess EXCEPT !.closed = TRUE]
           leases == [s.leases EXCEPT ![s.sess.gen] = @ \ {Session}]
<1>1. CASE s.sess.closed
  BY <1>1 DEF CloseSession, StreamsOnly, Calms
<1>2. CASE ~s.sess.closed
  <2>1. /\ s \in States /\ s.sess \in Sessions /\ s.leases \in [Generations -> SUBSET Users]
        /\ \A g \in Generations : Session \in s.leases[g] => g = s.sess.gen
    BY DEF ClientInvariant, States, LeasesOwed
  <2>2. /\ sess \in Sessions /\ sess.gen = s.sess.gen /\ sess.closed
        /\ sess.failed = s.sess.failed /\ sess.queued = s.sess.queued
        /\ sess.pushing = s.sess.pushing /\ sess.drop = s.sess.drop
        /\ sess.finish = s.sess.finish /\ sess.cancel = s.sess.cancel
        /\ sess.aborted = s.sess.aborted
    BY <2>1 DEF Sessions
  <2>3. /\ leases \in [Generations -> SUBSET Users]
        /\ \A h \in Generations : \A user \in Users :
             user # Session => (user \in leases[h] <=> user \in s.leases[h])
        /\ \A h \in Generations : Session \in leases[h] => h = s.sess.gen
    BY <2>1
  <2>4. /\ t \in States /\ StreamsOnly(s, t) /\ t.lock = s.lock /\ t.leases = leases /\ t.sess = sess
    <3>1. t = [s EXCEPT !.sess = sess, !.leases = leases]
      <4> DEFINE u == [s EXCEPT !.sess = sess]
      <4>1. u.leases = s.leases /\ u.sess = sess
        BY <2>1 DEF States
      <4>2. t = [u EXCEPT !.leases = leases]
        BY <1>2, <4>1 DEF CloseSession
      <4> QED BY <4>2
    <3> HIDE DEF t, sess, leases
    <3> QED BY <2>1, <2>2, <2>3, <3>1 DEF States, StreamsOnly
  <2> HIDE DEF t, sess, leases
  <2>5. Risk(t) => Risk(s)
    BY <2>2, <2>4 DEF StreamsOnly, Risk, Active
  <2>6. SessionSound(t) /\ SessionCovered(t)
    BY <2>2, <2>4, <2>5 DEF StreamsOnly, ClientInvariant, SessionSound, SessionCovered, IsCurrent
  <2>7. RequestsOwned(t)
    BY <2>2, <2>4 DEF StreamsOnly, ClientInvariant, RequestsOwned, Owned, Closing
  <2>8. ClientInvariant(t)
    BY <2>3, <2>4, <2>6, <2>7, StreamOK
  <2> QED BY <2>2, <2>4, <2>8 DEF t, Calms, StreamsOnly
<1> QED BY <1>1, <1>2

\* ensureWorkerSessionCancelled: what the worker has of the session is dropped, once,
\* when the session sends it nothing more.
LEMMA DropThenReleaseOK ==
  ASSUME NEW s, ClientInvariant(s), s.pc[Session] = "open", ~Risk(s)
  PROVE  ClientInvariant(DropThenRelease(s)) /\ Calms(s, DropThenRelease(s))
<1>1. /\ s.sess \in Sessions /\ s \in States
      /\ s.req["push"].phase # "none" => s.sess.pushing
      /\ s.req["finish"].phase # "none" => s.sess.finish = "asked"
      /\ s.req["drop"].phase # "none" => s.sess.drop = "asked"
  BY SessionRequests DEF ClientInvariant
<1>2. CASE s.sess.drop = "done"
  BY <1>2, ReleaseSessionOK DEF DropThenRelease
<1>3. CASE s.sess.drop \notin {"done", "none"}
  <2> DEFINE sess == [s.sess EXCEPT !.release = "drop"]
             t == [s EXCEPT !.sess = sess]
  <2>1. /\ sess \in Sessions /\ sess.gen = s.sess.gen /\ sess.closed = s.sess.closed
        /\ sess.failed = s.sess.failed /\ sess.queued = s.sess.queued
        /\ sess.pushing = s.sess.pushing /\ sess.drop = s.sess.drop
        /\ sess.finish = s.sess.finish /\ sess.cancel = s.sess.cancel
    BY <1>1 DEF Sessions
  <2> HIDE DEF sess
  <2>2. t.sess = sess /\ t.pc = s.pc /\ t.req = s.req
    BY <1>1 DEF States
  <2>3. SessionSound(t) /\ (Risk(t) => Risk(s))
    BY <2>1, <2>2 DEF ClientInvariant, SessionSound, Risk, Active
  <2>4. ClientInvariant(t) /\ Calms(s, t)
    BY <1>1, <2>1, <2>3, SessOK
  <2>5. DropThenRelease(s) = t
    BY <1>3 DEF DropThenRelease, sess
  <2> QED BY <2>4, <2>5
<1>4. CASE s.sess.drop = "none" /\ ~IsCurrent(s, s.sess.gen)
  <2> DEFINE sess == [s.sess EXCEPT !.drop = "done"]
             t == [s EXCEPT !.sess = sess]
  <2>1. /\ sess \in Sessions /\ sess.gen = s.sess.gen /\ sess.closed = s.sess.closed
        /\ sess.failed = s.sess.failed /\ sess.queued = s.sess.queued
        /\ sess.pushing = s.sess.pushing
        /\ sess.finish = s.sess.finish /\ sess.cancel = s.sess.cancel
    BY <1>1 DEF Sessions
  <2> HIDE DEF sess
  <2>2. t.sess = sess /\ t.pc = s.pc /\ t.req = s.req
    BY <1>1 DEF States
  <2>3. ~Risk(t) /\ SessionSound(t)
    <3>1. Risk(t) => Risk(s)
      BY <2>1, <2>2 DEF Risk, Active
    <3> QED BY <2>1, <2>2, <3>1 DEF ClientInvariant, SessionSound
  <2>4. ClientInvariant(t) /\ Calms(s, t) /\ StreamsOnly(s, t)
    BY <1>1, <1>4, <2>1, <2>3, SessOK
  <2> HIDE DEF t
  <2>5. ClientInvariant(ReleaseSession(t)) /\ Calms(t, ReleaseSession(t))
    BY <2>3, <2>4, ReleaseSessionOK DEF StreamsOnly
  <2>6. DropThenRelease(s) = ReleaseSession(t)
    BY <1>4 DEF DropThenRelease, sess, t
  <2> QED BY <2>4, <2>5, <2>6, CalmsTwice
<1>5. CASE s.sess.drop = "none" /\ IsCurrent(s, s.sess.gen)
  <2> DEFINE sess == [s.sess EXCEPT !.drop = "asked", !.release = "drop"]
             t == [s EXCEPT !.sess = sess]
  <2>1. /\ sess \in Sessions /\ sess.gen = s.sess.gen /\ sess.closed = s.sess.closed
        /\ sess.failed = s.sess.failed /\ sess.queued = s.sess.queued
        /\ sess.pushing = s.sess.pushing /\ sess.drop = "asked"
        /\ sess.finish = s.sess.finish /\ sess.cancel = s.sess.cancel
    BY <1>1 DEF Sessions
  <2>2. t = [s EXCEPT !.sess.drop = "asked", !.sess.release = "drop"]
    <3> DEFINE drops == [s.sess EXCEPT !.drop = "asked"]
               u == [s EXCEPT !.sess = drops]
    <3>1. u.sess = drops
      BY <1>1 DEF States
    <3>2. [s EXCEPT !.sess.drop = "asked", !.sess.release = "drop"]
            = [u EXCEPT !.sess = [drops EXCEPT !.release = "drop"]]
      BY <3>1
    <3> QED BY <1>1, <3>2 DEF States
  <2> HIDE DEF sess
  <2>3. t.sess = sess /\ t.pc = s.pc /\ t.req = s.req
    BY <1>1 DEF States
  <2>4. ~Risk(t) /\ SessionSound(t)
    <3>1. Risk(t) => Risk(s)
      BY <2>1, <2>3 DEF Risk, Active
    <3> QED BY <2>1, <2>3, <3>1 DEF ClientInvariant, SessionSound
  <2>5. ClientInvariant(t) /\ Calms(s, t) /\ StreamsOnly(s, t)
    BY <1>1, <1>5, <2>1, <2>4, SessOK
  <2> DEFINE u == BeginRequest(t, "drop", "drop", s.sess.gen)
  <2>6. DropThenRelease(s) = u
    BY <1>5, <2>2 DEF DropThenRelease
  <2> HIDE DEF t
  <2>7. t.req["drop"].phase = "none" /\ Owned(t, "drop")
    <3>1. "drop" \notin Transcribers \cup Verifiers \cup Mutators
      BY DistinctAssumption, CallersAssumption
    <3>2. t.req["drop"].phase = "none"
      BY <1>1, <1>5, <2>3
    <3> QED BY <2>1, <2>3, <3>1, <3>2 DEF Owned
  <2>8. /\ "drop" \in Slots /\ "drop" \in Kinds /\ "drop" \notin Transcribers
        /\ s.sess.gen \in 0..MaxGeneration /\ s.sess.gen = t.sess.gen
    BY <1>1, <2>1, <2>3, DistinctAssumption, CallersAssumption DEF Slots, Kinds, Sessions
  <2>9. ClientInvariant(u) /\ AsksOnly(t, u)
    BY <2>5, <2>7, <2>8, BeginRequestOK
  <2>10. Calms(t, u)
    BY <2>9 DEF AsksOnly, Calms
  <2> QED BY <2>5, <2>6, <2>9, <2>10, CalmsTwice
<1> QED BY <1>2, <1>3, <1>4, <1>5

\* A session whose push is with the worker ends with the worker, and its lease with it.
LEMMA TerminateSessionOK ==
  ASSUME NEW s, ClientInvariant(s), s.pc[Session] = "open", NEW killed \in BOOLEAN,
         s.req["push"].phase = "sent" => s.req["push"].asked
  PROVE  ClientInvariant(TerminateSession(s, killed)) /\ Calms(s, TerminateSession(s, killed))
<1> DEFINE ending == BeginTermination(s, s.sess.gen, "cancel", FALSE, {"push"}, killed)
           sess == [ending.sess EXCEPT !.release = "exit"]
           t == [ending EXCEPT !.sess = sess]
<1>1. /\ ClientInvariant(ending) /\ EndsOnly(s, ending) /\ Calms(s, ending)
      /\ s.sess.gen = s.gen /\ s.process => ending.term.gen = s.sess.gen
  <2>1. /\ {"push"} \in SUBSET Slots /\ "cancel" \in Causes
        /\ \A slot \in {"push"} : s.req[slot].phase = "sent" => s.req[slot].asked
    BY DEF Slots, Causes
  <2> QED BY <2>1, BeginTerminationOK, BeginTerminationCalms
<1>2. TerminateSession(s, killed) =
        IF ending.term.gen = s.sess.gen /\ IsCurrent(ending, s.sess.gen)
        THEN t ELSE ReleaseSession(ending)
  BY DEF TerminateSession
<1> HIDE DEF ending
<1>3. ending.pc[Session] = "open" /\ ending.sess = s.sess
  BY <1>1 DEF EndsOnly
<1>4. ClientInvariant(t) /\ Calms(ending, t)
  <2>1. /\ ending.sess \in Sessions /\ ending \in States
        /\ ending.req["push"].phase # "none" => ending.sess.pushing
        /\ ending.req["finish"].phase # "none" => ending.sess.finish = "asked"
        /\ ending.req["drop"].phase # "none" => ending.sess.drop = "asked"
    BY <1>1, <1>3, SessionRequests DEF ClientInvariant
  <2>2. /\ sess \in Sessions /\ sess.gen = ending.sess.gen /\ sess.closed = ending.sess.closed
        /\ sess.failed = ending.sess.failed /\ sess.queued = ending.sess.queued
        /\ sess.pushing = ending.sess.pushing /\ sess.drop = ending.sess.drop
        /\ sess.finish = ending.sess.finish /\ sess.cancel = ending.sess.cancel
    BY <2>1 DEF Sessions
  <2> HIDE DEF sess
  <2>3. t.sess = sess /\ t.pc = ending.pc /\ t.req = ending.req
    BY <2>1 DEF States
  <2>4. SessionSound(t) /\ (Risk(t) => Risk(ending))
    <3>1. Risk(t) <=> Risk(ending)
      BY <2>2, <2>3 DEF Risk, Active
    <3>2. SessionSound(ending)
      BY <1>1 DEF ClientInvariant
    <3> QED BY <1>3, <2>2, <2>3, <3>1, <3>2 DEF SessionSound
  <2> QED BY <1>1, <1>3, <2>1, <2>2, <2>4, SessOK
<1>5. ASSUME ~(ending.term.gen = s.sess.gen /\ IsCurrent(ending, s.sess.gen))
      PROVE  ClientInvariant(ReleaseSession(ending)) /\ Calms(ending, ReleaseSession(ending))
  <2>1. ~IsCurrent(ending, ending.sess.gen)
    BY <1>1, <1>3, <1>5 DEF EndsOnly, IsCurrent
  <2> QED BY <1>1, <1>3, <2>1, ReleaseSessionOK
<1> HIDE DEF t
<1> QED BY <1>1, <1>2, <1>4, <1>5, CalmsTwice

\* The session's pushes leave: those that wait, and the one whose request waits.
LEMMA AbortSessionOK ==
  ASSUME NEW s, ClientInvariant(s), s.pc[Session] = "open", NEW killed \in BOOLEAN
  PROVE  LET t == AbortSession(s, killed)
         IN  /\ ClientInvariant(t) /\ Calms(s, t)
             /\ t.gen = s.gen /\ t.process = s.process
             /\ t.sess.gen = s.sess.gen /\ t.sess.closed = s.sess.closed
             /\ t.sess.failed = s.sess.failed /\ t.sess.aborted /\ t.sess.queued = 0
             /\ t.sess.pushing = s.sess.pushing /\ t.sess.drop = s.sess.drop
             /\ t.sess.finish = s.sess.finish /\ t.sess.cancel = s.sess.cancel
             /\ ~Waiting(t, "push") /\ (t.req["push"].phase = "sent" => t.req["push"].asked)
<1> DEFINE sess == [s.sess EXCEPT !.aborted = TRUE, !.queued = 0]
           aborted == [s EXCEPT !.sess = sess]
           t == AbortSession(s, killed)
<1>1. /\ s.sess \in Sessions /\ s \in States
      /\ s.req["push"].phase # "none" => s.sess.pushing
      /\ s.req["finish"].phase # "none" => s.sess.finish = "asked"
      /\ s.req["drop"].phase # "none" => s.sess.drop = "asked"
  BY SessionRequests DEF ClientInvariant
<1>2. /\ sess \in Sessions /\ sess.gen = s.sess.gen /\ sess.closed = s.sess.closed
      /\ sess.failed = s.sess.failed /\ sess.queued = 0 /\ sess.aborted
      /\ sess.pushing = s.sess.pushing /\ sess.drop = s.sess.drop
      /\ sess.finish = s.sess.finish /\ sess.cancel = s.sess.cancel
  BY <1>1 DEF Sessions
<1>3. t = IF Active(s, "push") THEN Abort(aborted, "push", killed)
          ELSE IF Active(s, "finish") THEN Abort(aborted, "finish", killed)
          ELSE aborted
  <2>1. aborted = [s EXCEPT !.sess.aborted = TRUE, !.sess.queued = 0]
    <3> DEFINE begun == [s.sess EXCEPT !.aborted = TRUE]
               u == [s EXCEPT !.sess = begun]
    <3>1. u.sess = begun
      BY <1>1 DEF States
    <3>2. [s EXCEPT !.sess.aborted = TRUE, !.sess.queued = 0]
            = [u EXCEPT !.sess = [begun EXCEPT !.queued = 0]]
      BY <3>1
    <3> QED BY <1>1, <3>2 DEF States
  <2> QED BY <2>1 DEF AbortSession
<1> HIDE DEF sess
<1>4. aborted.sess = sess /\ aborted.pc = s.pc /\ aborted.req = s.req
  BY <1>1 DEF States
<1>5. SessionSound(aborted) /\ (Risk(aborted) => Risk(s))
  <2>1. Risk(aborted) => Risk(s)
    BY <1>1, <1>2, <1>4 DEF Risk, Active, Sessions
  <2> QED BY <1>2, <1>4, <2>1 DEF ClientInvariant, SessionSound
<1>6. ClientInvariant(aborted) /\ Calms(s, aborted) /\ StreamsOnly(s, aborted)
  BY <1>1, <1>2, <1>5, SessOK
<1> HIDE DEF aborted, t
<1>7. CASE Active(s, "push")
  <2> DEFINE u == Abort(aborted, "push", killed)
  <2>1. /\ ClientInvariant(u) /\ Calms(aborted, u)
        /\ u.gen = aborted.gen /\ u.process = aborted.process /\ u.sess = aborted.sess
        /\ u.req["push"].phase = "sent" => u.req["push"].asked
        /\ u.req["push"].phase = IF Waiting(aborted, "push") THEN "done" ELSE aborted.req["push"].phase
    <3>1. "push" \in Slots
      BY DEF Slots
    <3> QED BY <1>6, <3>1, AbortOK, AbortCalms
  <2> HIDE DEF u
  <2>2. ~Waiting(u, "push")
    BY <2>1 DEF Waiting
  <2>3. t = u
    BY <1>3, <1>7 DEF u
  <2> QED BY <1>2, <1>4, <1>6, <2>1, <2>2, <2>3, CalmsTwice DEF StreamsOnly, t
<1>8. CASE ~Active(s, "push") /\ Active(s, "finish")
  <2> DEFINE u == Abort(aborted, "finish", killed)
  <2>1. /\ ClientInvariant(u) /\ Calms(aborted, u)
        /\ u.gen = aborted.gen /\ u.process = aborted.process /\ u.sess = aborted.sess
        /\ u.req["push"] = aborted.req["push"]
    <3>1. "finish" \in Slots /\ "push" \in Slots \ {"finish"}
      BY DEF Slots
    <3> QED BY <1>6, <3>1, AbortOK, AbortCalms
  <2> HIDE DEF u
  <2>2. ~Waiting(u, "push") /\ u.req["push"].phase # "sent"
    BY <1>4, <1>8, <2>1 DEF Waiting, Active
  <2>3. t = u
    BY <1>3, <1>8 DEF u
  <2> QED BY <1>2, <1>4, <1>6, <2>1, <2>2, <2>3, CalmsTwice DEF StreamsOnly, t
<1>9. CASE ~Active(s, "push") /\ ~Active(s, "finish")
  <2>1. ~Waiting(aborted, "push") /\ aborted.req["push"].phase # "sent" /\ t = aborted
    BY <1>3, <1>4, <1>9 DEF Waiting, Active
  <2> QED BY <1>2, <1>4, <1>6, <2>1 DEF StreamsOnly, t
<1> QED BY <1>7, <1>8, <1>9

\* The end of a finish that failed: its request is over, and no push waits.
LEMMA UnwindOK ==
  ASSUME NEW s, ClientInvariant(s), s.pc[Session] = "open", NEW killed \in BOOLEAN,
         s.sess.finish \in {"tail", "asked"}, s.sess.queued = 0, ~Active(s, "finish"),
         ~Waiting(s, "push"),
         s.req["push"].phase = "sent" => s.sess.aborted /\ s.req["push"].asked
  PROVE  ClientInvariant(Unwind(s, killed)) /\ Calms(s, Unwind(s, killed))
<1> DEFINE sess == [s.sess EXCEPT !.finish = "over"]
           taken == [s EXCEPT !.req["finish"] = NoRequest]
           over == [taken EXCEPT !.sess = sess]
<1>1. "finish" \in Slots /\ "push" \in Slots \ {"finish"} /\ "drop" \in Slots \ {"finish"}
      /\ "finish" \notin Transcribers
  BY DistinctAssumption, CallersAssumption DEF Slots
<1>2. /\ s.sess \in Sessions /\ s \in States /\ s.req \in [Slots -> Requested]
      /\ s.req["push"].phase # "none" => s.sess.pushing
      /\ s.req["finish"].phase # "none" => s.sess.finish = "asked"
      /\ s.req["drop"].phase # "none" => s.sess.drop = "asked"
  BY SessionRequests DEF ClientInvariant
<1>3. /\ ClientInvariant(taken) /\ Calms(s, taken) /\ AsksOnly(s, taken)
      /\ taken.req["finish"].phase = "none" /\ taken.req["push"] = s.req["push"]
      /\ taken.req["drop"] = s.req["drop"]
  <2>1. s.req["finish"].phase \in {"none", "done"}
    BY <1>1, <1>2 DEF Active, Requested, Phases
  <2> QED BY <1>1, <2>1, TakenOK
<1>4. /\ sess \in Sessions /\ sess.gen = s.sess.gen /\ sess.closed = s.sess.closed
      /\ sess.failed = s.sess.failed /\ sess.queued = 0 /\ sess.aborted = s.sess.aborted
      /\ sess.pushing = s.sess.pushing /\ sess.drop = s.sess.drop
      /\ sess.finish = "over" /\ sess.cancel = s.sess.cancel
  BY <1>2 DEF Sessions
<1>5. over = [s EXCEPT !.sess.finish = "over", !.req["finish"] = NoRequest]
  BY <1>2 DEF States
<1> HIDE DEF taken, sess
<1>6. taken.sess = s.sess /\ taken.pc = s.pc /\ taken \in States
  BY <1>3 DEF AsksOnly, ClientInvariant
<1>7. over.sess = sess /\ over.pc = taken.pc /\ over.req = taken.req
  BY <1>6 DEF States
<1>8. s.sess.closed /\ (s.sess.cancel = "tail" => FALSE)
  BY DEF ClientInvariant, SessionSound
<1>9. SessionSound(over) /\ (Risk(over) => Risk(taken))
  <2>1. Risk(over) => Risk(taken)
    BY <1>4, <1>6, <1>7 DEF Risk, Active
  <2> QED BY <1>3, <1>4, <1>6, <1>7, <1>8, <2>1 DEF ClientInvariant, SessionSound
<1>10. ClientInvariant(over) /\ Calms(taken, over) /\ StreamsOnly(taken, over)
  <2>1. /\ taken.req["push"].phase # "none" => sess.pushing
        /\ taken.req["finish"].phase # "none" => sess.finish = "asked"
        /\ taken.req["drop"].phase # "none" => sess.drop = "asked"
    BY <1>2, <1>3, <1>4
  <2> QED BY <1>3, <1>4, <1>6, <1>9, <2>1, SessOK
<1>11. Unwind(s, killed) =
         IF s.sess.aborted /\ s.req["push"].phase = "sent" THEN TerminateSession(over, killed)
         ELSE IF ~s.sess.aborted /\ s.sess.failed THEN over
         ELSE DropThenRelease(over)
  BY <1>5 DEF Unwind
<1> HIDE DEF over
<1>12. Calms(s, over)
  BY <1>3, <1>10, CalmsTwice
<1>13. over.pc[Session] = "open" /\ over.req["push"] = s.req["push"]
  BY <1>3, <1>6, <1>7
<1>14. CASE s.sess.aborted /\ s.req["push"].phase = "sent"
  BY <1>10, <1>11, <1>12, <1>13, <1>14, TerminateSessionOK, CalmsTwice
<1>15. CASE s.req["push"].phase # "sent"
  <2>1. ~Risk(over)
    <3>1. ~Active(over, "push") /\ ~Active(over, "finish")
      BY <1>3, <1>7, <1>13, <1>15 DEF Active, Waiting
    <3>2. over.sess.queued = 0 /\ over.sess.closed /\ over.sess.finish = "over"
      BY <1>4, <1>7, <1>8
    <3> QED BY <3>1, <3>2 DEF Risk
  <2>2. ClientInvariant(DropThenRelease(over)) /\ Calms(over, DropThenRelease(over))
    BY <1>10, <1>13, <2>1, DropThenReleaseOK
  <2> QED BY <1>10, <1>11, <1>12, <1>15, <2>2, CalmsTwice
<1> QED BY <1>14, <1>15

-----------------------------------------------------------------------------
(* Requests and the worker                                                 *)

\* No worker has work that it had not.
Quiet(s, t) ==
  \A g \in Generations :
    t.alive[g] /\ t.job[g] # NoSlot => s.alive[g] /\ t.job[g] = s.job[g]

\* A process that starts has no work yet.
LEMMA EnsureProcessQuiet ==
  ASSUME NEW s, ClientInvariant(s), NEW cleaned \in SUBSET s.retired, NEW spawned \in BOOLEAN,
         ~s.process /\ spawned => s.gen < MaxGeneration
  PROVE  LET t == EnsureProcess(s, cleaned, spawned)
         IN  /\ t.pc = s.pc /\ Quiet(s, t)
             /\ s.process => Calms(s, t) /\ t.gen = s.gen
<1> DEFINE t == EnsureProcess(s, cleaned, spawned)
           clean == CleanRetired(s, cleaned)
<1>1. /\ t.pc = s.pc
      /\ s.process => t = clean
      /\ ~s.process => /\ \A g \in Generations : t.job[g] = clean.job[g]
                       /\ \A g \in Generations : t.alive[g] => clean.alive[g] \/ g > s.gen
  BY ONLY ClientInvariant(s), cleaned \in SUBSET s.retired, spawned \in BOOLEAN,
     ~s.process /\ spawned => s.gen < MaxGeneration, EnsureProcessOK
<1>2. /\ ClientInvariant(clean) /\ CleansOnly(s, clean) /\ Calms(s, clean)
  BY CleanRetiredOK, CleanRetiredCalms
<1> HIDE DEF t, clean
<1>3. CASE s.process
  BY <1>1, <1>2, <1>3 DEF Quiet, Calms, CleansOnly, t
<1>4. CASE ~s.process
  <2> SUFFICES ASSUME NEW g \in Generations, t.alive[g], t.job[g] # NoSlot
               PROVE  s.alive[g] /\ t.job[g] = s.job[g]
    BY <1>1, <1>4 DEF Quiet, t
  <2>1. clean.job[g] = s.job[g] /\ s.job[g] # NoSlot
    BY <1>1, <1>2, <1>4 DEF Calms
  <2>2. s.alive[g]
    BY <2>1 DEF ClientInvariant, ProcessesKnown
  <2> QED BY <1>1, <1>4, <2>1, <2>2
<1> QED BY <1>3, <1>4

\* A request that is sent has its worker.
Posted(request, g) == [request EXCEPT !.phase = "sent", !.captured = g]

\* A request that is sent keeps what else is known of it.
LEMMA SentTyped ==
  ASSUME NEW request \in Requested, NEW g \in 0..MaxGeneration, NEW sent, sent = Posted(request, g)
  PROVE  /\ sent \in Requested /\ sent.phase = "sent" /\ sent.gen = request.gen
         /\ sent.captured = g /\ sent.result = request.result /\ sent.asked = request.asked
<1>1. sent = [phase |-> "sent", kind |-> request.kind, waits |-> request.waits,
              expected |-> request.expected, gen |-> request.gen,
              captured |-> g, result |-> request.result, asked |-> request.asked]
  <2> DEFINE posted == [phase |-> "sent", kind |-> request.kind, waits |-> request.waits,
                        expected |-> request.expected, gen |-> request.gen,
                        captured |-> request.captured, result |-> request.result,
                        asked |-> request.asked]
  <2>1. [request EXCEPT !.phase = "sent"] = posted
    BY DEF Requested
  <2>2. sent = [posted EXCEPT !.captured = g]
    BY <2>1 DEF Posted
  <2> QED BY <2>2
<1>2. sent \in Requested
  BY <1>1 DEF Requested, Phases
<1> QED BY <1>1, <1>2

\* After the checks, a request takes its place behind the others.
InLine(s, slot) ==
  [s EXCEPT !.req[slot].phase = "turn", !.req[slot].gen = s.gen,
            !.req[slot].waits = 0, !.req[slot].expected = 0, !.chain = Append(@, slot)]

\* A request that takes its place in the chain keeps the invariant.
LEMMA QueueOK ==
  ASSUME NEW s, ClientInvariant(s), s.process, NEW slot \in Slots, s.req[slot].phase = "term",
         s.req[slot].expected > 0 => s.req[slot].expected = s.gen
  PROVE  ClientInvariant(InLine(s, slot)) /\ AsksOnly(s, InLine(s, slot))
<1> DEFINE old == s.req[slot]
           request == [old EXCEPT !.phase = "turn", !.gen = s.gen, !.waits = 0, !.expected = 0]
           chain == Append(s.chain, slot)
           t == InLine(s, slot)
<1>1. /\ s \in States /\ s.req \in [Slots -> Requested] /\ old \in Requested
      /\ s.gen \in 0..MaxGeneration /\ s.gen \in Generations
      /\ s.chain \in Seq(Slots) /\ Len(s.chain) \in Nat /\ DOMAIN s.chain = 1..Len(s.chain)
  BY LenProperties DEF ClientInvariant, States, ProcessesKnown, Generations
<1>2. /\ request \in Requested /\ request.phase = "turn" /\ request.gen = s.gen
      /\ request.captured = old.captured /\ request.result = old.result
      /\ request.asked = old.asked
  <2> HIDE DEF old, request
  <2> DEFINE placed == [phase |-> "turn", kind |-> old.kind, waits |-> old.waits,
                        expected |-> old.expected, gen |-> old.gen, captured |-> old.captured,
                        result |-> old.result, asked |-> old.asked]
  <2>0. old \in Requested
    BY <1>1
  <2>1. [old EXCEPT !.phase = "turn"] = placed
    BY <2>0 DEF Requested
  <2>2. request = [placed EXCEPT !.gen = s.gen, !.waits = 0, !.expected = 0]
    BY <2>1 DEF request
  <2>3. request = [phase |-> "turn", kind |-> old.kind, waits |-> 0, expected |-> 0,
                   gen |-> s.gen, captured |-> old.captured, result |-> old.result,
                   asked |-> old.asked]
    BY <2>2
  <2>4. request \in Requested
    BY <1>1, <2>3, BoundsAssumption DEF Requested, Phases
  <2> QED BY <2>3, <2>4
<1>3. /\ chain \in Seq(Slots) /\ Len(chain) = Len(s.chain) + 1 /\ DOMAIN chain = 1..Len(chain)
      /\ \A i \in 1..Len(s.chain) : chain[i] = s.chain[i]
      /\ chain[Len(chain)] = slot
  BY <1>1, AppendProperties
<1>4. t = [s EXCEPT !.req = [s.req EXCEPT ![slot] = request], !.chain = chain]
  <2> DEFINE r1 == [s.req EXCEPT ![slot] = [old EXCEPT !.phase = "turn"]]
             r2 == [r1 EXCEPT ![slot] = [r1[slot] EXCEPT !.gen = s.gen]]
             r3 == [r2 EXCEPT ![slot] = [r2[slot] EXCEPT !.waits = 0]]
             r4 == [r3 EXCEPT ![slot] = [r3[slot] EXCEPT !.expected = 0]]
  <2>1. /\ r1[slot] = [old EXCEPT !.phase = "turn"] /\ DOMAIN r1 = Slots
        /\ \A other \in Slots \ {slot} : r1[other] = s.req[other]
    BY <1>1
  <2>2. /\ r2[slot] = [old EXCEPT !.phase = "turn", !.gen = s.gen] /\ DOMAIN r2 = Slots
        /\ \A other \in Slots \ {slot} : r2[other] = s.req[other]
    BY <2>1
  <2>3. /\ r3[slot] = [old EXCEPT !.phase = "turn", !.gen = s.gen, !.waits = 0] /\ DOMAIN r3 = Slots
        /\ \A other \in Slots \ {slot} : r3[other] = s.req[other]
    BY <2>2
  <2>4. /\ r4[slot] = request /\ DOMAIN r4 = Slots
        /\ \A other \in Slots \ {slot} : r4[other] = s.req[other]
    BY <2>3
  <2>5. r4 = [s.req EXCEPT ![slot] = request]
    BY <1>1, <2>4
  <2>6. t = [s EXCEPT !.req = r4, !.chain = chain]
    BY <1>1 DEF States, InLine
  <2> QED BY <2>5, <2>6
<1> HIDE DEF t, request, old
<1>5. /\ t \in States /\ AsksOnly(s, t) /\ t.chain = chain
      /\ t.req = [s.req EXCEPT ![slot] = request]
  BY <1>1, <1>2, <1>3, <1>4 DEF States, AsksOnly
<1> HIDE DEF chain
<1>6. (\A other \in Slots : other # slot => t.req[other] = s.req[other]) /\ t.req[slot] = request
  BY <1>1, <1>5
<1>7. /\ LockOK(t.lock) /\ CallersHold(t) /\ ProcessesKnown(t) /\ TerminationIsCurrent(t)
      /\ LeasesOwed(t) /\ NoneLeaked(t)
  BY <1>5 DEF AsksOnly, ClientInvariant, CallersHold, ProcessesKnown, TerminationIsCurrent,
              LeasesOwed, NoneLeaked
<1>8. RequestsOwned(t)
  <2>1. s.req[slot].captured = 0 /\ request.captured = 0
    BY <1>2 DEF ClientInvariant, RequestsOwned, Owned, old
  <2> QED BY <1>5, <1>6, <2>1 DEF AsksOnly, ClientInvariant, RequestsOwned, Owned, Closing
<1>9. ChainSound(t)
  <2>1. \A i \in 1..Len(s.chain) : s.chain[i] \in Slots /\ s.chain[i] # slot
    BY <1>1, ElementOfSeq DEF ClientInvariant, ChainSound
  <2>2. \A i, j \in DOMAIN t.chain : t.chain[i] = t.chain[j] => i = j
    <3> SUFFICES ASSUME NEW i \in 1..Len(chain), NEW j \in 1..Len(chain), chain[i] = chain[j]
                 PROVE  i = j
      BY <1>3, <1>5
    <3>1. \A m, n \in 1..Len(s.chain) : s.chain[m] = s.chain[n] => m = n
      BY <1>1 DEF ClientInvariant, ChainSound
    <3>2. \A m \in 1..Len(chain) : m \in 1..Len(s.chain) \/ m = Len(chain)
      BY <1>1, <1>3
    <3> QED BY <1>3, <2>1, <3>1, <3>2
  <2>3. \A i \in DOMAIN t.chain : t.req[t.chain[i]].phase \in {"turn", "sent"}
    BY <1>1, <1>2, <1>3, <1>5, <1>6, <2>1 DEF ClientInvariant, ChainSound
  <2>4. \A o \in Slots : t.req[o].phase \in {"turn", "sent"} => \E i \in DOMAIN t.chain : t.chain[i] = o
    <3> TAKE o \in Slots
    <3>1. CASE o = slot
      BY <1>1, <1>3, <1>5, <3>1
    <3>2. CASE o # slot
      BY <1>1, <1>3, <1>5, <1>6, <3>2 DEF ClientInvariant, ChainSound
    <3> QED BY <3>1, <3>2
  <2>5. \A o \in Slots : t.req[o].phase = "sent" => t.chain[1] = o
    <3> SUFFICES ASSUME NEW o \in Slots, t.req[o].phase = "sent" PROVE t.chain[1] = o
      OBVIOUS
    <3>1. o # slot /\ s.req[o].phase = "sent"
      BY <1>2, <1>6
    <3>2. s.chain[1] = o /\ 1 \in 1..Len(s.chain)
      BY <1>1, <3>1 DEF ClientInvariant, ChainSound
    <3> QED BY <1>3, <1>5, <3>2
  <2> QED BY <2>2, <2>3, <2>4, <2>5 DEF ChainSound
<1>10. JobIsSent(t)
  BY <1>1, <1>5, <1>6 DEF AsksOnly, ClientInvariant, JobIsSent, States
<1>11. SessionStays(t)
  <2>1. slot \in {"push", "finish", "drop"} /\ s.pc[Session] = "open" => s.gen = s.sess.gen
    BY <1>1 DEF ClientInvariant, SessionStays
  <2> QED BY <1>2, <1>5, <1>6, <2>1 DEF AsksOnly, ClientInvariant, SessionStays, Slots
<1>12. CancelsOwned(t)
  BY <1>1, <1>2, <1>5, <1>6 DEF AsksOnly, ClientInvariant, CancelsOwned, Closing, States, Terminations
<1>13. SessionSound(t) /\ SessionCovered(t)
  <2>1. Risk(t) => Risk(s)
    BY <1>5, <1>6 DEF AsksOnly, Risk, Active, Slots
  <2> QED BY <1>5, <2>1 DEF AsksOnly, ClientInvariant, SessionSound, SessionCovered, IsCurrent
<1>14. JobsCovered(t)
  <2>1. \A other \in Slots : t.req[other].captured = s.req[other].captured
    BY <1>2, <1>6 DEF old
  <2> QED BY <1>5, <2>1 DEF AsksOnly, ClientInvariant, JobsCovered, Slots
<1> QED BY <1>5, <1>7, <1>8, <1>9, <1>10, <1>11, <1>12, <1>13, <1>14 DEF ClientInvariant, t

\* Only what is sent to the worker may differ.
SendsOnly(s, t) ==
  /\ t.cast = s.cast /\ t.lock = s.lock /\ t.pc = s.pc /\ t.expected = s.expected
  /\ t.sess = s.sess /\ t.gen = s.gen /\ t.process = s.process /\ t.lastExited = s.lastExited
  /\ t.health = s.health /\ t.restarts = s.restarts /\ t.restartDue = s.restartDue
  /\ t.term = s.term /\ t.retired = s.retired /\ t.leases = s.leases /\ t.closing = s.closing
  /\ t.alive = s.alive /\ t.chain = s.chain

\* Whoever asks a worker to read the files has its lease.
LEMMA AskerHolds ==
  ASSUME NEW s, ClientInvariant(s), s.process,
         NEW slot \in Transcribers \cup Verifiers \cup {"push", "finish"},
         s.req[slot].phase = "turn", s.req[slot].gen = s.gen
  PROVE  OwnerOf(slot) \in s.lock.readers
<1>1. slot \in Slots
  BY DEF Slots
<1>2. CASE slot \in Transcribers
  <2>1. OwnerOf(slot) = slot
    BY <1>2, DistinctAssumption, CallersAssumption DEF OwnerOf
  <2> QED BY <1>1, <1>2, <2>1 DEF ClientInvariant, RequestsOwned, Owned, CallersHold
<1>3. CASE slot \in {"push", "finish"}
  <2>1. OwnerOf(slot) = Session
    BY <1>3 DEF OwnerOf
  <2>2. CASE s.pc[Session] = "open"
    <3>1. s.sess.gen = s.gen
      BY <1>3, <2>2 DEF ClientInvariant, SessionStays
    <3>2. Risk(s)
      BY <1>3 DEF Risk, Active
    <3> QED BY <2>1, <2>2, <3>1, <3>2 DEF ClientInvariant, SessionCovered, IsCurrent
  <2>3. CASE s.pc[Session] # "open"
    <3>1. slot = "push" /\ s.pc[Session] = "opening"
      BY <1>1, <1>3, <2>3 DEF ClientInvariant, RequestsOwned, Owned, SessionSound, NoSession
    <3> QED BY <2>1, <3>1 DEF ClientInvariant, CallersHold
  <2> QED BY <2>2, <2>3
<1>4. CASE slot \in Verifiers
  <2>1. OwnerOf(slot) = slot
    BY <1>4, DistinctAssumption, CallersAssumption DEF OwnerOf
  <2> QED BY <1>1, <1>4, <2>1 DEF ClientInvariant, RequestsOwned, Owned, CallersHold
<1> QED BY <1>2, <1>3, <1>4

\* A request that is sent has not been overtaken: the worker has nothing else to do.
LEMMA WorkerIsFree ==
  ASSUME NEW s, ClientInvariant(s), s.process, s.term.gen = 0, NEW slot \in Slots,
         s.req[slot].phase = "turn", s.chain[1] = slot
  PROVE  s.job[s.gen] = NoSlot
<1>1. s.gen \in Generations /\ s.job[s.gen] \in Slots \cup {NoSlot} /\ s.gen # 0
  <2>1. s.gen \in 0..MaxGeneration /\ s.lastExited \in 0..MaxGeneration /\ s.lastExited < s.gen
    BY DEF ClientInvariant, States, ProcessesKnown
  <2>2. s.gen \in Generations /\ s.gen # 0
    BY <2>1, BoundsAssumption DEF Generations
  <2> QED BY <2>2 DEF ClientInvariant, States
<1>2. s.alive[s.gen] /\ s.job[s.gen] # NoSlot => s.req[s.job[s.gen]].phase = "sent"
  BY <1>1 DEF ClientInvariant, JobIsSent
<1>3. s.req[s.job[s.gen]].phase = "sent" /\ s.job[s.gen] # NoSlot => s.chain[1] = s.job[s.gen]
  BY <1>1 DEF ClientInvariant, ChainSound
<1> QED BY <1>1, <1>2, <1>3 DEF ClientInvariant, ProcessesKnown

\* A request is sent to the worker, which does it if it lives.
LEMMA SendOK ==
  ASSUME NEW s, ClientInvariant(s), s.process, s.term.gen = 0, NEW slot \in Slots,
         s.req[slot].phase = "turn", s.chain[1] = slot, s.req[slot].gen = s.gen,
         NEW t \in States, SendsOnly(s, t),
         \A other \in Slots \ {slot} : t.req[other] = s.req[other],
         t.req[slot].phase = "sent", t.req[slot].captured = s.gen, t.req[slot].gen = s.gen,
         t.req[slot].result = s.req[slot].result, t.req[slot].asked = s.req[slot].asked,
         \A g \in Generations \ {s.gen} : t.job[g] = s.job[g],
         t.job[s.gen] = IF s.alive[s.gen] THEN slot ELSE NoSlot
  PROVE  ClientInvariant(t)
<1>1. s.gen \in Generations /\ s.job[s.gen] = NoSlot
  <2>1. s.gen \in 0..MaxGeneration /\ s.lastExited \in 0..MaxGeneration /\ s.lastExited < s.gen
    BY DEF ClientInvariant, States, ProcessesKnown
  <2>2. s.gen \in Generations
    BY <2>1, BoundsAssumption DEF Generations
  <2> QED BY <2>2, WorkerIsFree
<1>2. \A o \in Slots : t.req[o].phase # "none" => s.req[o].phase # "none"
  OBVIOUS
<1>3. /\ LockOK(t.lock) /\ CallersHold(t) /\ LeasesOwed(t) /\ NoneLeaked(t)
      /\ TerminationIsCurrent(t)
  BY DEF SendsOnly, ClientInvariant, CallersHold, TerminationIsCurrent, LeasesOwed, NoneLeaked
<1>4. ProcessesKnown(t)
  BY <1>1 DEF SendsOnly, ClientInvariant, ProcessesKnown
<1>5. RequestsOwned(t)
  <2> SUFFICES ASSUME NEW o \in Slots, t.req[o].phase # "none" PROVE Owned(t, o)
    BY DEF RequestsOwned
  <2>1. Owned(s, o)
    BY <1>2 DEF ClientInvariant, RequestsOwned
  <2>2. t.req[o].phase \in {"term", "turn"} => t.req[o].captured = 0
    BY <2>1 DEF Owned
  <2> QED BY <2>1, <2>2 DEF SendsOnly, Owned, Closing
<1>6. ChainSound(t)
  <2>1. \A i \in DOMAIN s.chain : s.chain[i] \in Slots
    BY ElementOfSeq, LenProperties DEF ClientInvariant, States
  <2>2. \A o \in Slots \ {slot} : s.req[o].phase # "sent"
    BY DEF ClientInvariant, ChainSound
  <2>3. \A o \in Slots : t.req[o].phase \in {"turn", "sent"} <=> s.req[o].phase \in {"turn", "sent"}
    OBVIOUS
  <2>4. \A o \in Slots : t.req[o].phase = "sent" => o = slot
    BY <2>2
  <2>5. t.chain = s.chain /\ ChainSound(s)
    BY DEF SendsOnly, ClientInvariant
  <2> QED BY <2>1, <2>3, <2>4, <2>5 DEF ChainSound
<1>7. JobIsSent(t)
  <2> SUFFICES ASSUME NEW g \in Generations, t.alive[g], g = t.gen, t.job[g] # NoSlot
               PROVE  t.req[t.job[g]].phase = "sent" /\ t.req[t.job[g]].gen = g
    BY DEF JobIsSent
  <2> QED BY <1>1 DEF SendsOnly
<1>8. SessionStays(t)
  <2>1. \A o \in {"push", "finish", "drop"} :
          /\ t.req[o].phase = "term" => t.req[o] = s.req[o]
          /\ t.req[o].phase \in {"turn", "sent"} =>
               s.req[o].phase \in {"turn", "sent"} /\ t.req[o].gen = s.req[o].gen
    BY DEF Slots
  <2> QED BY <2>1 DEF SendsOnly, ClientInvariant, SessionStays
<1>9. CancelsOwned(t)
  <2>1. s.term.kind = "none"
    BY DEF ClientInvariant, TerminationIsCurrent
  <2>2. \A o \in Slots : t.req[o].phase = "done" => t.req[o] = s.req[o]
    OBVIOUS
  <2> QED BY <2>1, <2>2 DEF SendsOnly, ClientInvariant, CancelsOwned, Closing
<1>10. SessionSound(t) /\ SessionCovered(t)
  <2>1. Risk(t) => Risk(s)
    BY DEF SendsOnly, Risk, Active, Slots
  <2> QED BY <2>1 DEF SendsOnly, ClientInvariant, SessionSound, SessionCovered, IsCurrent
<1>11. JobsCovered(t)
  <2> SUFFICES ASSUME NEW g \in Generations, t.alive[g]
               PROVE  /\ t.job[g] \in Transcribers =>
                           /\ t.job[g] \in t.lock.readers
                           /\ \/ t.pc[t.job[g]] = "working" /\ t.req[t.job[g]].captured = g
                              \/ t.pc[t.job[g]] = "over" /\ t.job[g] \in t.leases[g]
                      /\ t.job[g] \in {"push", "finish"} =>
                           /\ Session \in t.lock.readers
                           /\ \/ t.pc[Session] = "opening" /\ t.job[g] = "push" /\ t.req["push"].captured = g
                              \/ t.pc[Session] = "open" /\ t.sess.gen = g
                              \/ t.pc[Session] = "over" /\ Session \in t.leases[g]
                      /\ t.job[g] \in Verifiers => t.pc[t.job[g]] \in {"checking", "over"}
    BY DEF JobsCovered
  <2>1. CASE g = s.gen
    <3>1. t.job[g] = slot /\ t.pc = s.pc /\ t.lock = s.lock /\ t.sess = s.sess
      BY <2>1 DEF SendsOnly
    <3>2. slot \in Transcribers => slot \in s.lock.readers /\ s.pc[slot] = "working"
      <4>1. slot \in Transcribers => s.pc[slot] = "working"
        BY DEF ClientInvariant, RequestsOwned, Owned
      <4> QED BY <4>1 DEF ClientInvariant, CallersHold
    <3>3. slot \in {"push", "finish"} => Session \in s.lock.readers
      BY AskerHolds DEF OwnerOf
    <3>4. slot \in {"push", "finish"} =>
            \/ s.pc[Session] = "opening" /\ slot = "push"
            \/ s.pc[Session] = "open" /\ s.sess.gen = g
      BY <2>1 DEF ClientInvariant, RequestsOwned, Owned, SessionSound, NoSession, SessionStays
    <3>5. slot \in Verifiers => s.pc[slot] = "checking"
      BY DEF ClientInvariant, RequestsOwned, Owned
    <3> QED BY <2>1, <3>1, <3>2, <3>3, <3>4, <3>5
  <2>2. CASE g # s.gen
    <3>1. t.job[g] = s.job[g] /\ s.alive[g]
      BY <2>2 DEF SendsOnly
    <3>2. s.req[slot].captured = 0 /\ g # 0
      BY DEF ClientInvariant, RequestsOwned, Owned, Generations
    <3>3. \A o \in Slots : s.req[o].captured # 0 => t.req[o].captured = s.req[o].captured
      BY <3>2
    <3>4. Transcribers \subseteq Slots /\ "push" \in Slots
      BY DEF Slots
    <3> QED BY <3>1, <3>2, <3>3, <3>4 DEF SendsOnly, ClientInvariant, JobsCovered
  <2> QED BY <2>1, <2>2
<1> QED BY <1>3, <1>4, <1>5, <1>6, <1>7, <1>8, <1>9, <1>10, <1>11 DEF ClientInvariant

-----------------------------------------------------------------------------
(* The steps of the client                                                 *)

-----------------------------------------------------------------------------
(* What most steps leave as it is *)

\* No worker takes up work, no mutation begins or ends, and nothing starts under close().
Steady(s, t) ==
  /\ Quiet(s, t)
  /\ \A m \in Mutators : t.pc[m] = "files" <=> s.pc[m] = "files"
  /\ \A v \in Verifiers : t.pc[v] = "checking" => s.pc[v] # "over"
  /\ Closing(s) => \A g \in Generations : t.alive[g] => s.alive[g]

\* A step that only ends work is steady.
LEMMA CalmIsSteady ==
  ASSUME NEW s, NEW t, Calms(s, t)
  PROVE  Steady(s, t)
BY DEF Calms, Steady, Quiet

\* A step of one caller, which the workers do not notice.
Unnoticed(s, t, c) ==
  t.alive = s.alive /\ t.job = s.job /\ \A d \in Holders \ {c} : t.pc[d] = s.pc[d]

\* So is one of a caller that neither begins nor ends a mutation.
LEMMA MoveIsSteady ==
  ASSUME NEW s, NEW t, NEW c \in Holders, Unnoticed(s, t, c),
         c \in Mutators => (t.pc[c] = "files" <=> s.pc[c] = "files"),
         c \in Verifiers => s.pc[c] # "over"
  PROVE  Steady(s, t)
BY CallersAssumption DEF Steady, Quiet, Unnoticed

\* The worker has done its work.
LEMMA IdleOK ==
  ASSUME NEW s, ClientInvariant(s), NEW g \in Generations
  PROVE  LET t == [s EXCEPT !.job[g] = NoSlot]
         IN  /\ ClientInvariant(t) /\ SendsOnly(s, t) /\ t.req = s.req /\ Calms(s, t)
             /\ \A h \in Generations : t.job[h] = IF h = g THEN NoSlot ELSE s.job[h]
<1> DEFINE t == [s EXCEPT !.job[g] = NoSlot]
<1>1. /\ t \in States /\ SendsOnly(s, t) /\ t.req = s.req
      /\ t.job = [s.job EXCEPT ![g] = NoSlot] /\ s.job \in [Generations -> Slots \cup {NoSlot}]
  BY DEF ClientInvariant, States, SendsOnly
<1> HIDE DEF t
<1>2. \A h \in Generations : t.job[h] = IF h = g THEN NoSlot ELSE s.job[h]
  BY <1>1
<1>3. Calms(s, t)
  BY <1>1, <1>2 DEF Calms, SendsOnly
<1>4. LockOK(t.lock) /\ CallersHold(t) /\ TerminationIsCurrent(t)
  BY <1>1 DEF SendsOnly, ClientInvariant, CallersHold, TerminationIsCurrent
<1>5. ProcessesKnown(t)
  BY <1>1, <1>2 DEF SendsOnly, ClientInvariant, ProcessesKnown
<1>6. RequestsOwned(t) /\ SessionStays(t) /\ ChainSound(t) /\ CancelsOwned(t)
  BY <1>1 DEF SendsOnly, ClientInvariant, RequestsOwned, Owned, SessionStays, ChainSound,
              CancelsOwned, Closing
<1>7. JobIsSent(t)
  BY <1>1, <1>2 DEF SendsOnly, ClientInvariant, JobIsSent
<1>8. SessionSound(t) /\ SessionCovered(t)
  BY <1>1 DEF SendsOnly, ClientInvariant, SessionSound, SessionCovered, Risk, Active, IsCurrent
<1>9. LeasesOwed(t) /\ NoneLeaked(t)
  BY <1>1 DEF SendsOnly, ClientInvariant, LeasesOwed, NoneLeaked
<1>10. JobsCovered(t)
  <2>1. NoSlot \notin Transcribers \cup Verifiers /\ NoSlot \notin {"push", "finish"}
    BY DistinctAssumption, CallersAssumption DEF NoSlot
  <2> QED BY <1>1, <1>2, <2>1 DEF SendsOnly, ClientInvariant, JobsCovered
<1> QED BY <1>1, <1>2, <1>3, <1>4, <1>5, <1>6, <1>7, <1>8, <1>9, <1>10 DEF ClientInvariant, t

-----------------------------------------------------------------------------
(* A caller on its way *)

\* Only callers wait in the queue.
LEMMA LinedAreHolders ==
  ASSUME NEW lock, LockOK(lock)
  PROVE  Lined(lock) \subseteq Holders
<1>1. lock.queue \in Seq(Waiters)
  BY DEF LockOK, Locks
<1>2. \A i \in DOMAIN lock.queue : lock.queue[i] \in Waiters
  BY <1>1, ElementOfSeq, LenProperties
<1>3. \A i \in DOMAIN lock.queue : lock.queue[i].who \in Holders
  BY <1>2 DEF Waiters
<1> QED BY <1>3 DEF Lined

\* Only where a caller is, what it expects and the lease may differ.
MovesOnly(s, t, c) ==
  /\ t.cast = s.cast /\ t.sess = s.sess /\ t.req = s.req /\ t.chain = s.chain
  /\ t.gen = s.gen /\ t.process = s.process /\ t.lastExited = s.lastExited
  /\ t.health = s.health /\ t.restarts = s.restarts /\ t.restartDue = s.restartDue
  /\ t.term = s.term /\ t.retired = s.retired /\ t.leases = s.leases /\ t.closing = s.closing
  /\ t.alive = s.alive /\ t.job = s.job
  /\ \A d \in Holders \ {c} : t.pc[d] = s.pc[d]

\* The lease after a call of c: c may join the queue, hold it or give it up, and
\* whoever waited may be given it.
Passes(lock, left, c) ==
  /\ LockOK(left)
  /\ Lined(left) \subseteq Lined(lock) \cup {c}
  /\ lock.readers \ {c} \subseteq left.readers
  /\ left.readers \subseteq lock.readers \cup Lined(lock) \cup {c}
  /\ \/ left.writer = lock.writer
     \/ lock.writer \in {Nobody, c} /\ left.writer \in Lined(lock) \cup {c, Nobody}

\* A caller moves on, with the lease its new place asks for.
LEMMA MoveOK ==
  ASSUME NEW s, ClientInvariant(s), NEW c \in Holders, NEW t \in States, MovesOnly(s, t, c),
         s.pc[c] \notin {"working", "opening", "open", "over"},
         t.pc[c] \in PcsOf(c), t.pc[c] \notin {"idle", "open"},
         c \in Slots => s.req[c].phase = "none",
         Passes(s.lock, t.lock, c),
         c \in Lined(t.lock) => t.pc[c] = "waiting",
         c \in Mutators => t.pc[c] \in {"waiting", "over"} \/ t.lock.writer = c,
         t.pc[c] \in {"working", "opening"} => c \in t.lock.readers,
         c \in Verifiers => (t.pc[c] = "checking" => c \in t.lock.readers),
         c \in Verifiers => (s.pc[c] = "checking" => t.pc[c] = "over"),
         t.pc[c] = "over" => c \notin t.lock.readers
  PROVE  ClientInvariant(t)
<1>1. /\ Nobody \notin Holders /\ Transcribers \subseteq Holders /\ Mutators \subseteq Holders
      /\ Verifiers \subseteq Holders /\ Session \in Holders
  BY NobodyAssumption, CallersAssumption
<1>2. CallersHold(t)
  <2>1. \A d \in Holders : t.pc[d] \in PcsOf(d)
    BY DEF MovesOnly, ClientInvariant, CallersHold
  <2>2. \A d \in Lined(t.lock) : t.pc[d] = "waiting"
    <3>1. \A d \in Lined(s.lock) : d \in Holders
      BY LinedAreHolders DEF ClientInvariant
    <3> QED BY <3>1 DEF MovesOnly, Passes, ClientInvariant, CallersHold
  <2>3. \A d \in Holders : t.pc[d] = "idle" => d \notin t.lock.readers /\ d # t.lock.writer
    BY <1>1 DEF MovesOnly, Passes, ClientInvariant, CallersHold
  <2>4. \A m \in Mutators :
          t.pc[m] \in {"unload", "unloading", "files", "checking"} => t.lock.writer = m
    BY <1>1 DEF MovesOnly, Passes, ClientInvariant, CallersHold
  <2>5. /\ \A u \in Transcribers : t.pc[u] = "working" => u \in t.lock.readers
        /\ t.pc[Session] = "opening" => Session \in t.lock.readers
        /\ \A v \in Verifiers : t.pc[v] = "checking" => v \in t.lock.readers
    BY <1>1 DEF MovesOnly, Passes, ClientInvariant, CallersHold
  <2> QED BY <2>1, <2>2, <2>3, <2>4, <2>5 DEF CallersHold
<1>3. LockOK(t.lock) /\ ProcessesKnown(t) /\ TerminationIsCurrent(t) /\ JobIsSent(t) /\ ChainSound(t)
      /\ CancelsOwned(t)
  BY DEF Passes, MovesOnly, ClientInvariant, ProcessesKnown, TerminationIsCurrent, JobIsSent,
         ChainSound, CancelsOwned, Closing
<1>4. RequestsOwned(t)
  <2> SUFFICES ASSUME NEW slot \in Slots, t.req[slot].phase # "none" PROVE Owned(t, slot)
    BY DEF RequestsOwned
  <2>1. Owned(s, slot) /\ slot # c
    BY DEF MovesOnly, ClientInvariant, RequestsOwned
  <2>2. slot \in Transcribers \cup Verifiers \cup Mutators => t.pc[slot] = s.pc[slot]
    BY <1>1, <2>1 DEF MovesOnly
  <2>3. s.pc[Session] = "opening" => t.pc[Session] = "opening"
    BY <1>1 DEF MovesOnly
  <2> QED BY <2>1, <2>2, <2>3 DEF MovesOnly, Owned, Closing
<1>5. s.pc[Session] \in {"opening", "open", "over"} \/ t.pc[Session] = "open" =>
        Session # c /\ t.pc[Session] = s.pc[Session]
  BY <1>1 DEF MovesOnly
<1>6. SessionStays(t) /\ SessionSound(t)
  BY <1>5 DEF MovesOnly, ClientInvariant, SessionStays, SessionSound, Risk, Active
<1>7. SessionCovered(t)
  BY <1>5 DEF MovesOnly, Passes, ClientInvariant, SessionCovered, IsCurrent, Risk, Active
<1>8. \A u \in Transcribers : s.pc[u] \in {"working", "over"} => u # c /\ t.pc[u] = s.pc[u]
  BY <1>1 DEF MovesOnly
<1>9. LeasesOwed(t)
  BY <1>5, <1>8 DEF MovesOnly, ClientInvariant, LeasesOwed
<1>10. JobsCovered(t)
  <2>1. \A v \in Verifiers : s.pc[v] \in {"checking", "over"} => t.pc[v] \in {"checking", "over"}
    BY <1>1 DEF MovesOnly
  <2> QED BY <1>5, <1>8, <2>1 DEF MovesOnly, Passes, ClientInvariant, JobsCovered
<1>11. NoneLeaked(t)
  <2> SUFFICES ASSUME NEW user \in t.lock.readers, t.pc[user] = "over"
               PROVE  \E g \in Generations : user \in t.leases[g] /\ (g \in t.retired \/ t.term.gen = g)
    BY DEF NoneLeaked
  <2>1. user # c /\ user \in Holders
    BY DEF Passes, LockOK, Locks
  <2>2. user \in s.lock.readers /\ s.pc[user] = "over"
    BY <2>1 DEF MovesOnly, Passes, ClientInvariant, CallersHold
  <2> QED BY <2>2 DEF MovesOnly, ClientInvariant, NoneLeaked
<1> QED BY <1>2, <1>3, <1>4, <1>6, <1>7, <1>9, <1>10, <1>11 DEF ClientInvariant

\* Only the place and the request of a caller differ: its call is over.
Leaves(s, over, c, slot) ==
  /\ over.pc = [s.pc EXCEPT ![c] = "over"] /\ over.req = [s.req EXCEPT ![slot] = NoRequest]
  /\ over.lock = s.lock /\ over.chain = s.chain /\ over.leases = s.leases
  /\ over.sess = s.sess /\ over.gen = s.gen /\ over.process = s.process
  /\ over.lastExited = s.lastExited /\ over.term = s.term /\ over.retired = s.retired
  /\ over.closing = s.closing /\ over.alive = s.alive /\ over.job = s.job

\* A use that had its answer is over: its lease is given back, or is with the
\* generation that may still run it.
LEMMA UseOverOK ==
  ASSUME NEW s, ClientInvariant(s), NEW c \in Users, NEW slot \in Slots,
         \/ c \in Transcribers /\ slot = c /\ s.pc[c] = "working"
         \/ c = Session /\ slot = "push" /\ s.pc[c] = "opening",
         s.req[slot].phase = "done",
         NEW over \in States, Leaves(s, over, c, slot)
  PROVE  LET t == ReleaseUseWhenSafe(over, s.req[slot].captured, c)
         IN  ClientInvariant(t) /\ Unnoticed(s, t, c) /\ c \notin Mutators
<1> DEFINE g == s.req[slot].captured
           kept == g > 0 /\ ((s.term.gen = g /\ s.process) \/ g \in s.retired)
           t == ReleaseUseWhenSafe(over, g, c)
<1>1. /\ s \in States /\ s.pc \in [Holders -> Pcs] /\ s.req \in [Slots -> Requested]
      /\ s.leases \in [Generations -> SUBSET Users] /\ g \in 0..MaxGeneration
      /\ Users \subseteq Holders /\ Nobody \notin Holders
      /\ Transcribers \cup Verifiers \cup Mutators \cup {Session} = Holders
  BY NobodyAssumption, CallersAssumption DEF ClientInvariant, States, Requested, Users
<1>2. g > 0 => g \in Generations
  BY <1>1, BoundsAssumption DEF Generations
<1> HIDE DEF g
<1>3. /\ t \in States /\ t.pc = over.pc /\ t.req = over.req /\ t.chain = s.chain
      /\ t.sess = s.sess /\ t.gen = s.gen /\ t.process = s.process
      /\ t.lastExited = s.lastExited /\ t.term = s.term /\ t.retired = s.retired
      /\ t.closing = s.closing /\ t.alive = s.alive /\ t.job = s.job
      /\ kept => t.lock = s.lock /\ t.leases = [s.leases EXCEPT ![g] = @ \cup {c}]
      /\ ~kept => t.lock = ReleaseUses(s.lock, {c}) /\ t.leases = s.leases
  <2>0. /\ over.lock = s.lock /\ over.leases = s.leases /\ over.term = s.term
        /\ over.process = s.process /\ over.retired = s.retired
    BY DEF Leaves
  <2>1. CASE kept
    <3>1. t = [over EXCEPT !.leases[g] = @ \cup {c}]
      BY <2>0, <2>1 DEF ReleaseUseWhenSafe
    <3>2. [s.leases EXCEPT ![g] = @ \cup {c}] \in [Generations -> SUBSET Users]
      BY <1>1, <1>2, <2>1
    <3> HIDE DEF t
    <3> QED BY <2>1, <3>1, <3>2 DEF States, Leaves
  <2>2. CASE ~kept
    <3>1. t = [over EXCEPT !.lock = ReleaseUses(s.lock, {c})]
      BY <2>0, <2>2 DEF ReleaseUseWhenSafe
    <3>2. ReleaseUses(s.lock, {c}) \in Locks
      BY ReleaseUsesYields DEF Yields, LockOK, ClientInvariant
    <3> HIDE DEF t
    <3> QED BY <2>2, <3>1, <3>2 DEF States, Leaves
  <2> QED BY <2>1, <2>2
<1> HIDE DEF t
<1>4. /\ t.pc[c] = "over" /\ \A d \in Holders \ {c} : t.pc[d] = s.pc[d]
      /\ t.req[slot] = NoRequest /\ \A other \in Slots \ {slot} : t.req[other] = s.req[other]
      /\ s.pc[c] \in {"working", "opening"}
  BY <1>1, <1>3 DEF Leaves
<1>5. NoRequest.phase = "none"
  BY NoRequestTyped
<1>6. \A h \in Generations :
        /\ t.leases[h] = IF kept /\ h = g THEN s.leases[h] \cup {c} ELSE s.leases[h]
        /\ c \notin s.leases[h]
  <2>1. \A h \in Generations : c \notin s.leases[h]
    BY <1>4 DEF ClientInvariant, LeasesOwed
  <2> QED BY <1>1, <1>2, <1>3, <2>1
<1> HIDE DEF kept
<1>7. Yields(s.lock, {c}, t.lock) \/ (kept /\ t.lock = s.lock)
  BY <1>3, ReleaseUsesYields DEF ClientInvariant
<1>8. /\ LockOK(t.lock) /\ Lined(t.lock) \subseteq Lined(s.lock)
      /\ s.lock.readers \ {c} \subseteq t.lock.readers
      /\ t.lock.readers \subseteq s.lock.readers \cup Lined(s.lock)
      /\ kept => t.lock = s.lock
      /\ c \in t.lock.readers => kept
      /\ t.lock.writer = s.lock.writer \/ (s.lock.writer = Nobody /\ t.lock.writer \in Lined(s.lock))
      /\ \A d \in Lined(s.lock) : d \in Holders \ {c} /\ s.pc[d] = "waiting"
  <2>1. \A d \in Lined(s.lock) : d \in Holders
    BY LinedAreHolders DEF ClientInvariant
  <2>2. \A d \in Lined(s.lock) : d \in Holders \ {c} /\ s.pc[d] = "waiting"
    BY <1>4, <2>1 DEF ClientInvariant, CallersHold
  <2> QED BY <1>3, <1>7, <2>2 DEF Yields, ClientInvariant
<1>9. CallersHold(t)
  <2>1. \A d \in Holders : t.pc[d] \in PcsOf(d)
    BY <1>1, <1>4 DEF PcsOf, ClientInvariant, CallersHold
  <2>2. \A d \in Holders : t.pc[d] = "idle" => d \notin t.lock.readers /\ d # t.lock.writer
    BY <1>1, <1>4, <1>8 DEF ClientInvariant, CallersHold
  <2>3. \A m \in Mutators :
          t.pc[m] \in {"unload", "unloading", "files", "checking"} => t.lock.writer = m
    BY <1>1, <1>4, <1>8 DEF ClientInvariant, CallersHold
  <2>4. /\ \A u \in Transcribers : t.pc[u] = "working" => u \in t.lock.readers
        /\ t.pc[Session] = "opening" => Session \in t.lock.readers
        /\ \A v \in Verifiers : t.pc[v] = "checking" => v \in t.lock.readers
    BY <1>1, <1>4, <1>8 DEF ClientInvariant, CallersHold
  <2> QED BY <1>4, <1>8, <2>1, <2>2, <2>3, <2>4 DEF CallersHold
<1>10. ProcessesKnown(t) /\ TerminationIsCurrent(t)
  BY <1>3 DEF ClientInvariant, ProcessesKnown, TerminationIsCurrent
<1>11. RequestsOwned(t)
  <2> SUFFICES ASSUME NEW other \in Slots, t.req[other].phase # "none" PROVE Owned(t, other)
    BY DEF RequestsOwned
  <2>1. other # slot /\ t.req[other] = s.req[other] /\ Owned(s, other)
    BY <1>4, <1>5 DEF ClientInvariant, RequestsOwned
  <2>2. other # c
    BY <2>1, DistinctAssumption, CallersAssumption DEF Slots
  <2> QED BY <1>1, <1>3, <1>4, <2>1, <2>2 DEF Owned, Closing
<1>12. JobIsSent(t)
  <2>1. \A o \in Slots : s.req[o].phase = "sent" => t.req[o] = s.req[o]
    BY <1>4
  <2> QED BY <1>1, <1>3, <2>1 DEF ClientInvariant, JobIsSent, States
<1>13. ChainSound(t)
  <2>1. \A o \in Slots : t.req[o].phase \in {"turn", "sent"} \/ s.req[o].phase \in {"turn", "sent"} =>
          t.req[o] = s.req[o]
    BY <1>4, <1>5
  <2>2. \A i \in DOMAIN s.chain : s.chain[i] \in Slots
    BY <1>1, ElementOfSeq, LenProperties DEF States
  <2> QED BY <1>3, <2>1, <2>2 DEF ClientInvariant, ChainSound
<1>14. CancelsOwned(t)
  <2>1. \A o \in Slots : t.req[o].phase # "none" => t.req[o] = s.req[o]
    BY <1>4, <1>5
  <2>2. s.term.cancelled \subseteq Slots
    BY <1>1 DEF States, Terminations
  <2> QED BY <1>3, <2>1, <2>2 DEF ClientInvariant, CancelsOwned, Closing
<1>15. /\ t.pc[Session] = "open" <=> s.pc[Session] = "open"
       /\ t.pc[Session] = "open" => c # Session /\ slot \notin {"push", "finish", "drop"}
       /\ t.pc[Session] \notin {"open"} => s.sess = NoSession
  BY <1>1, <1>4, DistinctAssumption DEF ClientInvariant, SessionSound
<1>16. SessionStays(t) /\ SessionCovered(t)
  <2>1. t.pc[Session] = "open" =>
          \A o \in {"push", "finish", "drop"} : t.req[o] = s.req[o]
    BY <1>4, <1>15 DEF Slots
  <2> QED BY <1>3, <1>8, <1>15, <2>1 DEF ClientInvariant, SessionStays, SessionCovered, IsCurrent, Risk, Active
<1>17. SessionSound(t)
  <2>1. Risk(t) => Risk(s)
    BY <1>3, <1>4, <1>5 DEF Risk, Active, Slots
  <2> QED BY <1>3, <1>15, <2>1 DEF ClientInvariant, SessionSound
<1>18. LeasesOwed(t)
  BY <1>1, <1>2, <1>3, <1>4, <1>6, <1>15 DEF ClientInvariant, LeasesOwed, Users
<1>19. \A h \in Generations : s.alive[h] /\ (s.job[h] = slot \/ (c = Session /\ s.job[h] = "finish")) =>
         kept /\ h = g /\ s.job[h] = slot
  <2> SUFFICES ASSUME NEW h \in Generations, s.alive[h],
                      s.job[h] = slot \/ (c = Session /\ s.job[h] = "finish")
               PROVE  kept /\ h = g /\ s.job[h] = slot
    OBVIOUS
  <2>1. s.job[h] = slot /\ h = g
    BY <1>4, <1>6, DistinctAssumption DEF ClientInvariant, JobsCovered, g
  <2>2. s.job[h] # NoSlot
    BY <2>1, DistinctAssumption, CallersAssumption DEF Slots, NoSlot
  <2>3. (h = s.gen /\ s.process) \/ h \in s.retired
    BY DEF ClientInvariant, ProcessesKnown
  <2>4. h = s.gen /\ s.process => s.term.gen = h
    BY <2>1, <2>2 DEF ClientInvariant, JobIsSent
  <2> QED BY <2>1, <2>3, <2>4 DEF kept, Generations
<1>20. JobsCovered(t)
  <2> SUFFICES ASSUME NEW h \in Generations, t.alive[h]
               PROVE  /\ t.job[h] \in Transcribers =>
                           /\ t.job[h] \in t.lock.readers
                           /\ \/ t.pc[t.job[h]] = "working" /\ t.req[t.job[h]].captured = h
                              \/ t.pc[t.job[h]] = "over" /\ t.job[h] \in t.leases[h]
                      /\ t.job[h] \in {"push", "finish"} =>
                           /\ Session \in t.lock.readers
                           /\ \/ t.pc[Session] = "opening" /\ t.job[h] = "push" /\ t.req["push"].captured = h
                              \/ t.pc[Session] = "open" /\ t.sess.gen = h
                              \/ t.pc[Session] = "over" /\ Session \in t.leases[h]
                      /\ t.job[h] \in Verifiers => t.pc[t.job[h]] \in {"checking", "over"}
    BY DEF JobsCovered
  <2>1. s.alive[h] /\ t.job[h] = s.job[h]
    BY <1>3
  <2>2. CASE s.job[h] = slot \/ (c = Session /\ s.job[h] = "finish")
    <3>1. kept /\ h = g /\ s.job[h] = slot /\ c \in t.leases[h] /\ t.lock = s.lock
      BY <1>6, <1>8, <1>19, <2>1, <2>2
    <3>2. slot \in Transcribers => c = slot
      BY DistinctAssumption, CallersAssumption
    <3>3. slot \in {"push", "finish"} => c = Session
      BY DistinctAssumption, CallersAssumption
    <3>4. (slot \in Transcribers \/ slot \in {"push", "finish"}) => c \in s.lock.readers
      BY <2>1, <3>1, <3>2, <3>3 DEF ClientInvariant, JobsCovered
    <3>5. slot \notin Verifiers
      BY DistinctAssumption, CallersAssumption
    <3> QED BY <1>4, <2>1, <3>1, <3>2, <3>3, <3>4, <3>5
  <2>3. CASE s.job[h] # slot /\ ~(c = Session /\ s.job[h] = "finish")
    <3>1. s.job[h] \in Transcribers => s.job[h] # c /\ s.job[h] \in Holders
      BY <1>1, <2>3, DistinctAssumption
    <3>2. s.job[h] \in Transcribers =>
            t.req[s.job[h]] = s.req[s.job[h]] /\ t.pc[s.job[h]] = s.pc[s.job[h]]
      BY <1>4, <2>3, <3>1 DEF Slots
    <3>3. s.job[h] \in {"push", "finish"} => c # Session /\ slot # "push"
      BY <2>3, DistinctAssumption, CallersAssumption
    <3>4. s.job[h] \in {"push", "finish"} =>
            t.req["push"] = s.req["push"] /\ t.pc[Session] = s.pc[Session]
      BY <1>1, <1>4, <3>3 DEF Slots
    <3>5. s.leases[h] \subseteq t.leases[h]
      BY <1>6
    <3>6. \A v \in Verifiers : t.pc[v] = s.pc[v]
      BY <1>1, <1>4, DistinctAssumption DEF Users
    <3> QED BY <1>3, <1>8, <2>1, <3>1, <3>2, <3>3, <3>4, <3>5, <3>6 DEF ClientInvariant, JobsCovered
  <2> QED BY <2>2, <2>3
<1>21. NoneLeaked(t)
  <2> SUFFICES ASSUME NEW user \in t.lock.readers, t.pc[user] = "over"
               PROVE  \E h \in Generations : user \in t.leases[h] /\ (h \in t.retired \/ t.term.gen = h)
    BY DEF NoneLeaked
  <2>1. user \in Holders
    BY <1>8 DEF LockOK, Locks
  <2>2. CASE user = c
    <3>1. kept /\ g \in Generations /\ (g \in s.retired \/ s.term.gen = g)
      BY <1>2, <1>8, <2>2 DEF kept
    <3>2. user \in t.leases[g]
      BY <1>6, <2>2, <3>1
    <3> QED BY <1>3, <3>1, <3>2
  <2>3. CASE user # c
    <3>1. user \in s.lock.readers /\ s.pc[user] = "over"
      BY <1>4, <1>8, <2>1, <2>3
    <3>2. PICK h \in Generations : user \in s.leases[h] /\ (h \in s.retired \/ s.term.gen = h)
      BY <3>1 DEF ClientInvariant, NoneLeaked
    <3>3. user \in t.leases[h]
      BY <1>6, <3>2
    <3> QED BY <1>3, <3>2, <3>3
  <2> QED BY <2>2, <2>3
<1>22. Unnoticed(s, t, c) /\ c \notin Mutators
  BY <1>3, <1>4, DistinctAssumption DEF Unnoticed, Users
<1> QED BY <1>3, <1>8, <1>9, <1>10, <1>11, <1>12, <1>13, <1>14, <1>16, <1>17, <1>18, <1>20, <1>21, <1>22
        DEF ClientInvariant, t, g

-----------------------------------------------------------------------------
(* What a step is shown to do *)

\* Reading, of a state: the workers that read the files of the model for a caller
\* or for a verification under way.
Reads(s) == {g \in Generations : s.alive[g] /\ ReadsFor(s, s.job[g])}

\* Changing, of a state: the mutations that change the files of the model.
Changes(s) == {m \in Mutators : s.pc[m] = "files"}

\* A step of ModelUse, or a stutter.
UseStep(s, t) ==
  \/ Changes(t) = Changes(s) /\ Reads(t) \subseteq Reads(s)
  \/ /\ Changes(t) = Changes(s) /\ Changes(s) = {}
     /\ \E g \in Generations : g \notin Reads(s) /\ Reads(t) = Reads(s) \cup {g}
  \/ /\ Reads(t) = Reads(s) /\ Reads(s) = {} /\ Changes(s) = {}
     /\ \E m \in Mutators : Changes(t) = {m}
  \/ Reads(t) = Reads(s) /\ Changes(s) # {} /\ Changes(t) = {}

\* A step that keeps the invariant, serves ModelUse, and starts no worker under close().
Sound(s, t) ==
  /\ ClientInvariant(t)
  /\ UseStep(s, t)
  /\ Closing(s) => \A g \in Generations : t.alive[g] => s.alive[g]

\* A step after which no worker has taken up work, and no mutation began or ended,
\* is sound.
LEMMA SteadyIsSound ==
  ASSUME NEW s, ClientInvariant(s), NEW t, ClientInvariant(t), Steady(s, t)
  PROVE  Sound(s, t)
<1>1. NoSlot \notin Transcribers \cup Verifiers \cup {"push", "finish"}
  BY DistinctAssumption, CallersAssumption DEF NoSlot
<1>2. Reads(t) \subseteq Reads(s)
  BY <1>1 DEF Reads, ReadsFor, Steady, Quiet, ClientInvariant, JobsCovered
<1>3. Changes(t) = Changes(s)
  BY DEF Changes, Steady
<1> QED BY <1>2, <1>3 DEF Sound, UseStep, Steady

\* A mutation that has the lease has it alone, and no worker reads for anybody.
LEMMA WriterIsAlone ==
  ASSUME NEW s, ClientInvariant(s), NEW m \in Mutators, s.lock.writer = m
  PROVE  Reads(s) = {} /\ Changes(s) \subseteq {m} /\ s.lock.readers = {}
<1>1. m # Nobody
  BY NobodyAssumption, CallersAssumption
<1>2. s.lock.readers = {}
  BY <1>1 DEF ClientInvariant, LockOK
<1>3. Reads(s) = {}
  BY <1>2 DEF Reads, ReadsFor, ClientInvariant, JobsCovered, CallersHold
<1>4. Changes(s) \subseteq {m}
  BY DEF Changes, ClientInvariant, CallersHold
<1> QED BY <1>2, <1>3, <1>4

-----------------------------------------------------------------------------
(* Callers *)

\* A call that awaits nothing from the worker has no request there.
LEMMA AtRest ==
  ASSUME NEW s, ClientInvariant(s), NEW c \in Holders,
         s.pc[c] \in {"idle", "waiting", "unload", "files"}
  PROVE  /\ c \in Slots => s.req[c].phase = "none"
         /\ c = Session => s.req["push"].phase = "none" /\ s.sess = NoSession
         /\ \A g \in Generations : s.alive[g] =>
              /\ c \in Transcribers => s.job[g] # c
              /\ c = Session => s.job[g] # "push"
<1>1. c = Session => s.sess = NoSession /\ ~s.sess.pushing
  BY DEF ClientInvariant, SessionSound, NoSession
<1>2. c \in Slots => c \in Transcribers \cup Verifiers \cup Mutators
  BY DistinctAssumption DEF Slots
<1>3. c \in Slots => s.req[c].phase = "none"
  BY <1>2 DEF ClientInvariant, RequestsOwned, Owned
<1>4. c = Session => s.req["push"].phase = "none"
  BY <1>1 DEF ClientInvariant, RequestsOwned, Owned, Slots
<1>5. \A g \in Generations : s.alive[g] =>
        /\ c \in Transcribers => s.job[g] # c
        /\ c = Session => s.job[g] # "push"
  BY DEF ClientInvariant, JobsCovered
<1> QED BY <1>1, <1>3, <1>4, <1>5

\* Asking for the lease, a caller disturbs the lease of no other.
LEMMA AcquirePasses ==
  ASSUME NEW s, ClientInvariant(s), NEW c \in Holders, s.pc[c] = "idle", NEW mode \in Modes,
         mode = "mutation" <=> c \in Mutators
  PROVE  Passes(s.lock, Acquire(s.lock, c, mode), c)
<1>1. LockOK(s.lock) /\ c \notin s.lock.readers /\ c # s.lock.writer /\ c \notin Lined(s.lock)
  BY DEF ClientInvariant, CallersHold
<1> DEFINE asked == [s.lock EXCEPT !.queue = Append(@, [who |-> c, mode |-> mode])]
<1>2. /\ asked.readers = s.lock.readers /\ asked.writer = s.lock.writer
      /\ Lined(asked) = Lined(s.lock) \cup {c}
      /\ Serves(asked, Acquire(s.lock, c, mode))
  BY <1>1, AcquireServes
<1> HIDE DEF asked
<1> QED BY <1>2 DEF Serves, Passes

\* Giving its use back, a caller disturbs the lease of no other.
LEMMA ReleaseUsesPasses ==
  ASSUME NEW s, ClientInvariant(s), NEW c \in s.lock.readers
  PROVE  /\ Passes(s.lock, ReleaseUses(s.lock, {c}), c)
         /\ c \notin ReleaseUses(s.lock, {c}).readers /\ c \notin Lined(ReleaseUses(s.lock, {c}))
<1>1. LockOK(s.lock) /\ c \notin Lined(s.lock)
  BY DEF ClientInvariant, LockOK
<1>2. Yields(s.lock, {c}, ReleaseUses(s.lock, {c}))
  BY <1>1, ReleaseUsesYields
<1> QED BY <1>1, <1>2 DEF Yields, Passes

\* Giving its mutation back, a caller disturbs the lease of no other.
LEMMA ReleaseMutationPasses ==
  ASSUME NEW s, ClientInvariant(s), NEW c \in Holders, s.lock.writer = c
  PROVE  /\ Passes(s.lock, ReleaseMutation(s.lock), c)
         /\ c \notin ReleaseMutation(s.lock).readers /\ c \notin Lined(ReleaseMutation(s.lock))
<1>1. LockOK(s.lock) /\ c # Nobody /\ s.lock.readers = {} /\ c \notin Lined(s.lock)
  BY NobodyAssumption DEF ClientInvariant, LockOK
<1>2. /\ LockOK(ReleaseMutation(s.lock)) /\ Lined(ReleaseMutation(s.lock)) \subseteq Lined(s.lock)
      /\ ReleaseMutation(s.lock).readers \subseteq Lined(s.lock)
      /\ ReleaseMutation(s.lock).writer \in Lined(s.lock) \cup {Nobody}
  BY <1>1, ReleaseMutationServes
<1> QED BY <1>1, <1>2 DEF Passes

\* A lock that does not change disturbs no lease.
LEMMA LockStays ==
  ASSUME NEW s, ClientInvariant(s), NEW c
  PROVE  Passes(s.lock, s.lock, c)
BY DEF Passes, ClientInvariant

\* Only where a caller is differs, and what it expects: nothing.
Goes(s, t, c, place) ==
  /\ MovesOnly(s, t, c)
  /\ t.pc = [s.pc EXCEPT ![c] = place] /\ t.pc[c] = place /\ t.lock = s.lock

\* A caller that goes to another place changes nothing else.
LEMMA GoOK ==
  ASSUME NEW s \in States, NEW c \in Holders, NEW place \in PcsOf(c)
  PROVE  Go(s, c, place) \in States /\ Goes(s, Go(s, c, place), c, place)
<1> DEFINE t == Go(s, c, place)
<1>1. place \in Pcs /\ s.pc \in [Holders -> Pcs] /\ s.expected \in [Holders -> 0..MaxGeneration]
  BY DEF Pcs, States
<1>2. /\ [s.pc EXCEPT ![c] = place] \in [Holders -> Pcs]
      /\ [s.expected EXCEPT ![c] = 0] \in [Holders -> 0..MaxGeneration]
      /\ [s.pc EXCEPT ![c] = place][c] = place
      /\ \A d \in Holders \ {c} : [s.pc EXCEPT ![c] = place][d] = s.pc[d]
  BY <1>1, BoundsAssumption
<1>3. t = [s EXCEPT !.pc = [s.pc EXCEPT ![c] = place], !.expected = [s.expected EXCEPT ![c] = 0]]
  BY DEF Go, States
<1> HIDE DEF t
<1>4. t \in States /\ t.pc = [s.pc EXCEPT ![c] = place] /\ t.lock = s.lock
  BY <1>2, <1>3 DEF States
<1>5. MovesOnly(s, t, c)
  BY <1>2, <1>3 DEF States, MovesOnly
<1> QED BY <1>2, <1>4, <1>5 DEF Goes, t

\* A caller at another place, with the lease it needs there.
Arrives(s, t, c, place, lock) ==
  t \in States /\ MovesOnly(s, t, c) /\ t.pc[c] = place /\ t.lock = lock

\* A caller that goes to another place as the lock changes changes nothing else.
LEMMA ArriveOK ==
  ASSUME NEW s \in States, NEW c \in Holders, NEW place \in PcsOf(c), NEW lock \in Locks, NEW t,
         t = [Go(s, c, place) EXCEPT !.lock = lock]
  PROVE  Arrives(s, t, c, place, lock)
<1> DEFINE went == Go(s, c, place)
<1>1. went \in States /\ Goes(s, went, c, place)
  BY GoOK
<1>2. t = [went EXCEPT !.lock = lock]
  OBVIOUS
<1> HIDE DEF went
<1>3. t \in States /\ t.lock = lock /\ t.pc = went.pc
  BY <1>1, <1>2 DEF States
<1>4. MovesOnly(went, t, c)
  BY <1>1, <1>2 DEF MovesOnly, States
<1>5. MovesOnly(s, t, c)
  BY <1>1, <1>4 DEF Goes, MovesOnly
<1> QED BY <1>1, <1>3, <1>5 DEF Arrives, Goes

\* A call asks for its lease.
LEMMA StartUseSound ==
  ASSUME ClientInvariant(w), NEW user \in Users, StartUse(user)
  PROVE  Sound(w, w')
<1> DEFINE went == Go(w, user, "waiting")
<1>1. /\ w \in States /\ user \in Holders /\ user \notin Mutators /\ w.pc[user] = "idle"
      /\ w.gen \in 0..MaxGeneration /\ "waiting" \in PcsOf(user) /\ Captured(w) \in 0..MaxGeneration
  BY CallersAssumption, DistinctAssumption, BoundsAssumption
     DEF Users, ClientInvariant, States, PcsOf, StartUse, Captured
<1>2. went \in States /\ Goes(w, went, user, "waiting")
  BY <1>1, GoOK
<1>3. w' = [went EXCEPT !.expected[user] = Captured(w), !.lock = Acquire(went.lock, user, "use")]
  BY DEF StartUse
<1> HIDE DEF went
<1>4. Passes(w.lock, Acquire(w.lock, user, "use"), user)
  BY <1>1, AcquirePasses DEF Modes
<1>5. [went.expected EXCEPT ![user] = Captured(w)] \in [Holders -> 0..MaxGeneration]
  BY <1>1, <1>2 DEF States
<1>6. /\ w' \in States /\ w'.lock = Acquire(w.lock, user, "use") /\ w'.pc = went.pc
      /\ MovesOnly(w, w', user)
  BY <1>2, <1>3, <1>4, <1>5 DEF States, Goes, MovesOnly, Passes, LockOK
<1>7. user \in Slots => w.req[user].phase = "none"
  BY <1>1, AtRest
<1>8. ClientInvariant(w')
  BY <1>1, <1>2, <1>4, <1>6, <1>7, MoveOK DEF Goes
<1>9. Unnoticed(w, w', user)
  BY <1>6 DEF MovesOnly, Unnoticed
<1> QED BY <1>1, <1>8, <1>9, MoveIsSteady, SteadyIsSound

\* A waiting caller gives up.
LEMMA AbandonWaitSound ==
  ASSUME ClientInvariant(w), NEW c \in Holders, AbandonWait(c)
  PROVE  Sound(w, w')
<1>1. w \in States /\ w.pc[c] = "waiting" /\ "over" \in PcsOf(c) /\ c \in Lined(w.lock)
  BY DEF ClientInvariant, PcsOf, AbandonWait, Queued, Lined
<1>2. /\ Passes(w.lock, Abandon(w.lock, c), c) /\ Abandon(w.lock, c) \in Locks
      /\ c \notin Lined(Abandon(w.lock, c)) /\ c \notin Abandon(w.lock, c).readers
  <2>1. LockOK(w.lock)
    BY DEF ClientInvariant
  <2>2. /\ Yields(w.lock, {}, Abandon(w.lock, c))
        /\ c \notin Lined(Abandon(w.lock, c)) /\ c \notin Abandon(w.lock, c).readers
    BY <1>1, <2>1, AbandonYields
  <2> QED BY <2>2 DEF Yields, Passes, LockOK
<1>3. Go(w, c, "over").lock = w.lock
  BY DEF Go, ClientInvariant, States
<1>4. w' = [Go(w, c, "over") EXCEPT !.lock = Abandon(w.lock, c)]
  BY <1>3 DEF AbandonWait
<1>5. Arrives(w, w', c, "over", Abandon(w.lock, c))
  BY <1>1, <1>2, <1>4, ArriveOK
<1>6. c \in Slots => w.req[c].phase = "none"
  BY <1>1, AtRest
<1>7. ClientInvariant(w')
  BY <1>1, <1>2, <1>5, <1>6, MoveOK DEF Arrives
<1>8. Unnoticed(w, w', c)
  BY <1>5 DEF Arrives, MovesOnly, Unnoticed
<1> QED BY <1>1, <1>5, <1>7, <1>8, MoveIsSteady, SteadyIsSound DEF Arrives

\* A use is granted: the call ends without it, or asks the worker.
LEMMA UseGrantedSound ==
  ASSUME ClientInvariant(w), NEW user \in Users, UseGranted(user)
  PROVE  Sound(w, w')
<1>1. /\ w \in States /\ user \in Holders /\ user \notin Mutators /\ w.pc[user] = "waiting"
      /\ "over" \in PcsOf(user) /\ user \in w.lock.readers /\ user \notin Lined(w.lock)
      /\ user # Session => user \in Transcribers /\ user \in Slots
      /\ w.expected[user] \in 0..MaxGeneration /\ w.lock \in Locks
  BY CallersAssumption, DistinctAssumption
     DEF Users, ClientInvariant, LockOK, States, PcsOf, UseGranted, Slots
<1>2. user \in Slots => w.req[user].phase = "none"
  BY <1>1, AtRest
<1>3. CASE w' = [Go(w, user, "over") EXCEPT !.lock = ReleaseUses(@, {user})]
  <2>1. /\ Passes(w.lock, ReleaseUses(w.lock, {user}), user) /\ ReleaseUses(w.lock, {user}) \in Locks
        /\ user \notin Lined(ReleaseUses(w.lock, {user}))
        /\ user \notin ReleaseUses(w.lock, {user}).readers
    BY <1>1, ReleaseUsesPasses DEF Passes, LockOK
  <2>2. Go(w, user, "over").lock = w.lock
    BY <1>1 DEF Go, States
  <2>3. w' = [Go(w, user, "over") EXCEPT !.lock = ReleaseUses(w.lock, {user})]
    BY <1>3, <2>2
  <2>4. Arrives(w, w', user, "over", ReleaseUses(w.lock, {user}))
    BY <1>1, <2>1, <2>3, ArriveOK
  <2>5. ClientInvariant(w')
    BY <1>1, <1>2, <2>1, <2>4, MoveOK DEF Arrives
  <2>6. Unnoticed(w, w', user)
    BY <2>4 DEF Arrives, MovesOnly, Unnoticed
  <2> QED BY <1>1, <2>5, <2>6, MoveIsSteady, SteadyIsSound
<1>4. CASE w' = IF user = Session
                THEN BeginRequest(Go(w, user, "opening"), "push", "open", w.expected[user])
                ELSE BeginRequest(Go(w, user, "working"), user, "transcribe", w.expected[user])
  <2> DEFINE place == IF user = Session THEN "opening" ELSE "working"
             slot == IF user = Session THEN "push" ELSE user
             kind == IF user = Session THEN "open" ELSE "transcribe"
             went == Go(w, user, place)
  <2>1. place \in PcsOf(user) /\ place \in {"opening", "working"} /\ slot \in Slots /\ kind \in Kinds
    BY <1>1, DistinctAssumption DEF PcsOf, Slots, Kinds
  <2>2. w' = BeginRequest(went, slot, kind, w.expected[user])
    BY <1>4
  <2>3. /\ slot \notin {"finish", "drop", "shutdown"}
        /\ slot = "push" => user = Session /\ place = "opening"
        /\ slot # "push" => slot = user /\ slot \in Transcribers /\ place = "working"
    BY <1>1, DistinctAssumption, CallersAssumption
  <2> HIDE DEF place, slot, kind
  <2>4. went \in States /\ Goes(w, went, user, place)
    BY <1>1, <2>1, GoOK
  <2> HIDE DEF went
  <2>5. Passes(w.lock, went.lock, user)
    BY <2>4, LockStays DEF Goes
  <2>6. ClientInvariant(went)
    BY <1>1, <1>2, <2>1, <2>4, <2>5, MoveOK DEF Goes
  <2>7. /\ w.req[slot].phase = "none"
        /\ \A g \in Generations : w.alive[g] => w.job[g] # slot
        /\ slot = "push" => w.sess.drop = "none"
    <3>1. /\ user \in Slots => w.req[user].phase = "none"
          /\ user = Session => w.req["push"].phase = "none" /\ w.sess = NoSession
          /\ \A g \in Generations : w.alive[g] =>
               /\ user \in Transcribers => w.job[g] # user
               /\ user = Session => w.job[g] # "push"
      BY <1>1, AtRest
    <3>2. CASE slot = "push"
      BY <2>3, <3>1, <3>2 DEF NoSession
    <3>3. CASE slot # "push"
      BY <1>1, <2>1, <2>3, <3>1, <3>3
    <3> QED BY <3>2, <3>3
  <2>8. Owned(went, slot)
    <3>1. slot \in Transcribers \/ slot = "push"
      BY <2>3
    <3>2. slot \notin Verifiers /\ slot \notin Mutators
      BY <3>1, DistinctAssumption, CallersAssumption
    <3>3. "push" \notin Transcribers
      BY DistinctAssumption, CallersAssumption
    <3> QED BY <2>3, <2>4, <2>7, <3>2, <3>3 DEF Owned, Goes, MovesOnly
  <2>9. /\ went.req[slot].phase = "none"
        /\ \A g \in Generations : went.alive[g] => went.job[g] # slot
        /\ slot \in {"push", "finish"} => went.sess.drop = "none"
        /\ slot \in {"push", "finish", "drop"} => went.pc[Session] # "open"
    BY <2>3, <2>4, <2>7 DEF Goes, MovesOnly
  <2>10. ClientInvariant(w') /\ AsksOnly(went, w')
    BY <1>1, <2>1, <2>2, <2>6, <2>8, <2>9, BeginRequestOK
  <2>11. Unnoticed(w, w', user) /\ w'.pc[user] = place
    BY <2>4, <2>10 DEF Goes, MovesOnly, AsksOnly, Unnoticed
  <2> QED BY <1>1, <2>10, <2>11, MoveIsSteady, SteadyIsSound
<1> QED BY <1>3, <1>4 DEF UseGranted

\* A call that had its answer gives its use back.
LEMMA FinishUseSound ==
  ASSUME ClientInvariant(w), NEW user \in Transcribers, FinishUse(user)
  PROVE  Sound(w, w')
<1> DEFINE over == [Go(w, user, "over") EXCEPT !.req[user] = NoRequest]
<1>1. /\ w \in States /\ user \in Holders /\ user \in Users /\ user \in Slots
      /\ user \notin Mutators /\ "over" \in PcsOf(user)
      /\ w.pc[user] = "working" /\ w.req[user].phase = "done"
      /\ w' = ReleaseUseWhenSafe(over, w.req[user].captured, user)
  BY CallersAssumption, DistinctAssumption DEF Users, ClientInvariant, PcsOf, FinishUse, Slots
<1>2. over \in States /\ Leaves(w, over, user, user)
  <2> DEFINE went == Go(w, user, "over")
  <2>1. went \in States /\ Goes(w, went, user, "over")
    BY <1>1, GoOK
  <2>2. over = [went EXCEPT !.req = [went.req EXCEPT ![user] = NoRequest]]
    BY <2>1 DEF States
  <2> HIDE DEF went, over
  <2>3. [went.req EXCEPT ![user] = NoRequest] \in [Slots -> Requested]
    BY <2>1, NoRequestTyped DEF States
  <2> QED BY <2>1, <2>2, <2>3 DEF States, Goes, MovesOnly, Leaves
<1> HIDE DEF over
<1>3. ClientInvariant(w') /\ Unnoticed(w, w', user)
  BY <1>1, <1>2, UseOverOK
<1> QED BY <1>1, <1>3, MoveIsSteady, SteadyIsSound

-----------------------------------------------------------------------------
(* Verifications *)

\* A verification asks for its lease.
LEMMA StartVerificationSound ==
  ASSUME ClientInvariant(w), NEW v \in Verifiers, StartVerification(v)
  PROVE  Sound(w, w')
<1>1. /\ w \in States /\ v \in Holders /\ v \notin Mutators /\ w.pc[v] = "idle"
      /\ "waiting" \in PcsOf(v) /\ "use" \in Modes
  BY CallersAssumption, DistinctAssumption DEF ClientInvariant, PcsOf, StartVerification, Modes
<1>2. Passes(w.lock, Acquire(w.lock, v, "use"), v) /\ Acquire(w.lock, v, "use") \in Locks
  <2>1. Passes(w.lock, Acquire(w.lock, v, "use"), v)
    BY <1>1, AcquirePasses
  <2> QED BY <2>1 DEF Passes, LockOK
<1>3. Go(w, v, "waiting").lock = w.lock
  BY <1>1 DEF Go, States
<1>4. w' = [Go(w, v, "waiting") EXCEPT !.lock = Acquire(w.lock, v, "use")]
  BY <1>3 DEF StartVerification
<1>5. Arrives(w, w', v, "waiting", Acquire(w.lock, v, "use"))
  BY <1>1, <1>2, <1>4, ArriveOK
<1>6. v \in Slots => w.req[v].phase = "none"
  BY <1>1, AtRest
<1>7. ClientInvariant(w')
  BY <1>1, <1>2, <1>5, <1>6, MoveOK DEF Arrives
<1>8. Unnoticed(w, w', v)
  BY <1>5 DEF Arrives, MovesOnly, Unnoticed
<1> QED BY <1>1, <1>7, <1>8, MoveIsSteady, SteadyIsSound

\* A caller that makes a request of its own, without an expectation.
LEMMA AskOK ==
  ASSUME NEW s, ClientInvariant(s), NEW c \in Verifiers \cup Mutators, NEW kind \in Kinds,
         s.pc[c] \in {"checking", "unloading"}, s.req[c].phase = "none"
  PROVE  ClientInvariant(BeginRequest(s, c, kind, 0)) /\ AsksOnly(s, BeginRequest(s, c, kind, 0))
<1>1. c \in Slots /\ c \notin Transcribers /\ c \notin {"push", "finish", "drop", "shutdown"}
  BY DistinctAssumption, CallersAssumption DEF Slots
<1>2. Owned(s, c)
  <2>1. c \in Verifiers => s.pc[c] = "checking"
    <3>1. c \in Verifiers => s.pc[c] \in PcsOf(c) /\ c \notin Transcribers /\ c # Session
      BY DistinctAssumption, CallersAssumption DEF ClientInvariant, CallersHold
    <3> QED BY <3>1 DEF PcsOf
  <2> QED BY <1>1, <2>1 DEF Owned
<1>3. 0 \in 0..MaxGeneration
  BY BoundsAssumption
<1> QED BY <1>1, <1>2, <1>3, BeginRequestOK

\* A verification has its lease: it ends without the worker, or asks it.
LEMMA VerificationGrantedSound ==
  ASSUME ClientInvariant(w), NEW v \in Verifiers, VerificationGranted(v)
  PROVE  Sound(w, w')
<1>1. /\ w \in States /\ v \in Holders /\ v \notin Mutators /\ w.pc[v] = "waiting"
      /\ "over" \in PcsOf(v) /\ "checking" \in PcsOf(v) /\ v \in w.lock.readers
      /\ v \notin Lined(w.lock) /\ v \in Slots /\ w.lock \in Locks
  BY CallersAssumption, DistinctAssumption
     DEF ClientInvariant, LockOK, States, PcsOf, VerificationGranted, Slots
<1>2. w.req[v].phase = "none"
  BY <1>1, AtRest
<1>3. CASE w' = [Go(w, v, "over") EXCEPT !.lock = ReleaseUses(@, {v})]
  <2>1. /\ Passes(w.lock, ReleaseUses(w.lock, {v}), v) /\ ReleaseUses(w.lock, {v}) \in Locks
        /\ v \notin Lined(ReleaseUses(w.lock, {v})) /\ v \notin ReleaseUses(w.lock, {v}).readers
    BY <1>1, ReleaseUsesPasses DEF Passes, LockOK
  <2>2. Go(w, v, "over").lock = w.lock
    BY <1>1 DEF Go, States
  <2>3. w' = [Go(w, v, "over") EXCEPT !.lock = ReleaseUses(w.lock, {v})]
    BY <1>3, <2>2
  <2>4. Arrives(w, w', v, "over", ReleaseUses(w.lock, {v}))
    BY <1>1, <2>1, <2>3, ArriveOK
  <2>5. ClientInvariant(w')
    BY <1>1, <1>2, <2>1, <2>4, MoveOK DEF Arrives
  <2>6. Unnoticed(w, w', v)
    BY <2>4 DEF Arrives, MovesOnly, Unnoticed
  <2> QED BY <1>1, <2>5, <2>6, MoveIsSteady, SteadyIsSound
<1>4. CASE w' = BeginRequest(Go(w, v, "checking"), v, "check", 0)
  <2> DEFINE went == Go(w, v, "checking")
  <2>1. went \in States /\ Goes(w, went, v, "checking")
    BY <1>1, GoOK
  <2> HIDE DEF went
  <2>2. Passes(w.lock, went.lock, v)
    BY <2>1, LockStays DEF Goes
  <2>3. ClientInvariant(went)
    BY <1>1, <1>2, <2>1, <2>2, MoveOK DEF Goes
  <2>4. went.pc[v] = "checking" /\ went.req[v].phase = "none" /\ "check" \in Kinds
    BY <1>2, <2>1 DEF Goes, MovesOnly, Kinds
  <2>5. w' = BeginRequest(went, v, "check", 0)
    BY <1>4 DEF went
  <2>6. ClientInvariant(w') /\ AsksOnly(went, w')
    BY <2>3, <2>4, <2>5, AskOK
  <2>7. Unnoticed(w, w', v)
    BY <2>1, <2>6 DEF Goes, MovesOnly, AsksOnly, Unnoticed
  <2> QED BY <1>1, <2>6, <2>7, MoveIsSteady, SteadyIsSound
<1> QED BY <1>3, <1>4 DEF VerificationGranted

\* The answer of a caller is taken, and the caller goes on.
GoesOn(s, t, c, place, lock) ==
  t = [Go([s EXCEPT !.req[c] = NoRequest], c, place) EXCEPT !.lock = lock]

\* The answer to a verification or to a mutation is taken, and its call is over.
LEMMA TakeAndLeave ==
  ASSUME NEW s, ClientInvariant(s), NEW c \in Verifiers \cup Mutators, s.req[c].phase = "done",
         s.pc[c] \in {"checking", "unloading"}, NEW place \in PcsOf(c), NEW lock, NEW t,
         GoesOn(s, t, c, place, lock),
         Passes(s.lock, lock, c), c \notin Lined(lock),
         \/ place = "over" /\ c \notin lock.readers
         \/ place = "files" /\ c \in Mutators /\ lock.writer = c
  PROVE  ClientInvariant(t) /\ Unnoticed(s, t, c) /\ t.pc[c] = place
<1> DEFINE taken == [s EXCEPT !.req[c] = NoRequest]
<1>1. c \in Slots /\ c \in Holders /\ c \notin Transcribers /\ c # "push"
  BY DistinctAssumption, CallersAssumption DEF Slots
<1>2. ClientInvariant(taken) /\ AsksOnly(s, taken) /\ taken.req[c].phase = "none"
  BY <1>1, TakenOK
<1> HIDE DEF taken
<1>3. taken.lock = s.lock /\ taken.pc = s.pc /\ taken.alive = s.alive /\ taken.job = s.job
  BY <1>2 DEF AsksOnly
<1>4. t = [Go(taken, c, place) EXCEPT !.lock = lock] /\ lock \in Locks /\ taken \in States
  BY <1>2 DEF GoesOn, taken, Passes, LockOK, ClientInvariant
<1>5. Arrives(taken, t, c, place, lock)
  BY <1>1, <1>4, ArriveOK
<1>6. ClientInvariant(t)
  <2>1. c \in Verifiers => place = "over"
    BY DistinctAssumption
  <2> QED BY <1>1, <1>2, <1>3, <1>5, <2>1, MoveOK DEF Arrives
<1>7. Unnoticed(s, t, c) /\ t.pc[c] = place
  BY <1>3, <1>5 DEF Arrives, MovesOnly, Unnoticed
<1> QED BY <1>6, <1>7

\* A verification ends.
LEMMA FinishVerificationSound ==
  ASSUME ClientInvariant(w), NEW v \in Verifiers, FinishVerification(v)
  PROVE  Sound(w, w')
<1> DEFINE taken == [w EXCEPT !.req[v] = NoRequest]
           lock == ReleaseUses(w.lock, {v})
<1>1. /\ w \in States /\ v \in Holders /\ v \notin Mutators /\ w.pc[v] = "checking"
      /\ "over" \in PcsOf(v) /\ w.req[v].phase = "done" /\ LockOK(w.lock)
  BY CallersAssumption, DistinctAssumption DEF ClientInvariant, PcsOf, FinishVerification
<1>2. /\ w' = [Go(taken, v, "over") EXCEPT !.lock = lock]
  <2>1. Go(w, v, "over").lock = w.lock
    BY <1>1 DEF Go, States
  <2>2. w' = [Go(w, v, "over") EXCEPT !.req[v] = NoRequest, !.lock = ReleaseUses(w.lock, {v})]
    BY <2>1 DEF FinishVerification
  <2>3. [Go(w, v, "over") EXCEPT !.req[v] = NoRequest] = Go(taken, v, "over")
    BY <1>1 DEF Go, States
  <2> QED BY <2>2, <2>3
<1> HIDE DEF taken, lock
<1>3. Yields(w.lock, {v}, lock)
  BY <1>1, ReleaseUsesYields DEF lock
<1>4. v \notin Lined(w.lock)
  BY <1>1 DEF ClientInvariant, CallersHold
<1>5. Passes(w.lock, lock, v) /\ v \notin Lined(lock) /\ v \notin lock.readers
  BY <1>3, <1>4 DEF Yields, Passes
<1>6. ClientInvariant(w') /\ Unnoticed(w, w', v)
  BY <1>1, <1>2, <1>5, TakeAndLeave DEF taken, GoesOn
<1> QED BY <1>1, <1>6, MoveIsSteady, SteadyIsSound

-----------------------------------------------------------------------------
(* Mutations *)

\* A mutation asks for the lease.
LEMMA StartMutationSound ==
  ASSUME ClientInvariant(w), NEW m \in Mutators, StartMutation(m)
  PROVE  Sound(w, w')
<1>1. /\ w \in States /\ m \in Holders /\ w.pc[m] = "idle"
      /\ "waiting" \in PcsOf(m) /\ "mutation" \in Modes
  BY CallersAssumption, DistinctAssumption DEF ClientInvariant, PcsOf, StartMutation, Modes
<1>2. Passes(w.lock, Acquire(w.lock, m, "mutation"), m) /\ Acquire(w.lock, m, "mutation") \in Locks
  <2>1. Passes(w.lock, Acquire(w.lock, m, "mutation"), m)
    BY <1>1, AcquirePasses
  <2> QED BY <2>1 DEF Passes, LockOK
<1>3. Go(w, m, "waiting").lock = w.lock
  BY <1>1 DEF Go, States
<1>4. w' = [Go(w, m, "waiting") EXCEPT !.lock = Acquire(w.lock, m, "mutation")]
  BY <1>3 DEF StartMutation
<1>5. Arrives(w, w', m, "waiting", Acquire(w.lock, m, "mutation"))
  BY <1>1, <1>2, <1>4, ArriveOK
<1>6. m \in Slots => w.req[m].phase = "none"
  BY <1>1, AtRest
<1>7. ClientInvariant(w')
  BY <1>1, <1>2, <1>5, <1>6, MoveOK DEF Arrives
<1>8. Unnoticed(w, w', m) /\ w'.pc[m] = "waiting"
  BY <1>5 DEF Arrives, MovesOnly, Unnoticed
<1> QED BY <1>1, <1>7, <1>8, MoveIsSteady, SteadyIsSound

\* A mutation takes the lease at once, when nobody holds or awaits it.
LEMMA TryMutationSound ==
  ASSUME ClientInvariant(w), NEW m \in Mutators, TryMutation(m)
  PROVE  Sound(w, w')
<1> DEFINE lock == TryAcquireMutation(w.lock, m)
<1>1. /\ w \in States /\ m \in Holders /\ w.pc[m] = "idle" /\ "waiting" \in PcsOf(m)
      /\ CanTryMutation(w.lock) /\ LockOK(w.lock)
  BY CallersAssumption, DistinctAssumption DEF ClientInvariant, PcsOf, TryMutation
<1>2. LockOK(lock) /\ lock.readers = {} /\ lock.writer = m /\ Lined(lock) = {}
  BY <1>1, TryAcquireOK
<1>3. Go(w, m, "waiting").lock = w.lock
  BY <1>1 DEF Go, States
<1>4. w' = [Go(w, m, "waiting") EXCEPT !.lock = lock]
  BY <1>3 DEF TryMutation
<1> HIDE DEF lock
<1>5. Passes(w.lock, lock, m) /\ lock \in Locks
  BY <1>1, <1>2 DEF CanTryMutation, Passes, LockOK
<1>6. Arrives(w, w', m, "waiting", lock)
  BY <1>1, <1>4, <1>5, ArriveOK
<1>7. m \in Slots => w.req[m].phase = "none"
  BY <1>1, AtRest
<1>8. ClientInvariant(w')
  BY <1>1, <1>2, <1>5, <1>6, <1>7, MoveOK DEF Arrives
<1>9. Unnoticed(w, w', m) /\ w'.pc[m] = "waiting"
  BY <1>6 DEF Arrives, MovesOnly, Unnoticed
<1> QED BY <1>1, <1>8, <1>9, MoveIsSteady, SteadyIsSound

\* A mutation has the lease: unload first waits for a termination under way.
LEMMA MutationGrantedSound ==
  ASSUME ClientInvariant(w), NEW m \in Mutators, MutationGranted(m)
  PROVE  Sound(w, w')
<1> DEFINE went == Go(w, m, "unload")
<1>1. /\ w \in States /\ m \in Holders /\ w.pc[m] = "waiting" /\ "unload" \in PcsOf(m)
      /\ w.lock.writer = m /\ m \notin Lined(w.lock) /\ w.term.gen \in 0..MaxGeneration
  BY CallersAssumption, DistinctAssumption
     DEF ClientInvariant, LockOK, PcsOf, MutationGranted, States, Terminations
<1>2. went \in States /\ Goes(w, went, m, "unload")
  BY <1>1, GoOK
<1>3. w' = [went EXCEPT !.expected = [went.expected EXCEPT ![m] = w.term.gen]]
  BY DEF MutationGranted, went
<1> HIDE DEF went
<1>4. [went.expected EXCEPT ![m] = w.term.gen] \in [Holders -> 0..MaxGeneration]
  BY <1>1, <1>2 DEF States
<1>5. MovesOnly(went, w', m) /\ w' \in States /\ w'.pc = went.pc /\ w'.lock = went.lock
  BY <1>2, <1>3, <1>4 DEF States, MovesOnly
<1>6. MovesOnly(w, w', m) /\ w'.pc[m] = "unload" /\ w'.lock = w.lock
  BY <1>2, <1>5 DEF Goes, MovesOnly
<1>7. m \in Slots => w.req[m].phase = "none"
  BY <1>1, AtRest
<1>8. Passes(w.lock, w'.lock, m)
  BY <1>6, LockStays
<1>9. ClientInvariant(w')
  BY <1>1, <1>5, <1>6, <1>7, <1>8, MoveOK
<1>10. Unnoticed(w, w', m)
  BY <1>6 DEF MovesOnly, Unnoticed
<1> QED BY <1>1, <1>6, <1>9, <1>10, MoveIsSteady, SteadyIsSound

\* A mutation that changes nothing else begins to change the files.
LEMMA BeginIsSound ==
  ASSUME NEW s, ClientInvariant(s), NEW m \in Mutators, s.lock.writer = m, s.pc[m] # "files",
         NEW t, ClientInvariant(t), Unnoticed(s, t, m), t.pc[m] = "files"
  PROVE  Sound(s, t)
<1>1. Reads(s) = {} /\ Changes(s) = {}
  BY WriterIsAlone DEF Changes
<1>2. Reads(t) = Reads(s)
  BY CallersAssumption, DistinctAssumption DEF Reads, ReadsFor, Unnoticed
<1>3. Changes(t) = {m}
  BY <1>1, CallersAssumption DEF Changes, Unnoticed
<1>4. t.alive = s.alive
  BY DEF Unnoticed
<1> QED BY <1>1, <1>2, <1>3, <1>4 DEF Sound, UseStep

\* The worker is asked to unload, or there is none.
LEMMA UnloadSound ==
  ASSUME ClientInvariant(w), NEW m \in Mutators, Unload(m)
  PROVE  Sound(w, w')
<1>1. /\ w \in States /\ m \in Holders /\ w.pc[m] = "unload" /\ m \in Slots
      /\ {"unloading", "files"} \subseteq PcsOf(m)
      /\ w.lock.writer = m /\ m \notin Lined(w.lock)
  BY CallersAssumption, DistinctAssumption
     DEF ClientInvariant, CallersHold, LockOK, PcsOf, Unload, States, Slots
<1>2. w.req[m].phase = "none"
  BY <1>1, AtRest
<1>3. ASSUME NEW place \in {"unloading", "files"}
      PROVE  LET went == Go(w, m, place)
             IN  ClientInvariant(went) /\ Goes(w, went, m, place)
  <2> DEFINE went == Go(w, m, place)
  <2>1. went \in States /\ Goes(w, went, m, place)
    BY <1>1, <1>3, GoOK
  <2> HIDE DEF went
  <2>2. Passes(w.lock, went.lock, m) /\ went.lock.writer = m
    BY <1>1, <2>1, LockStays DEF Goes
  <2>3. place \in PcsOf(m)
    BY <1>1, <1>3
  <2>4. ClientInvariant(went)
    BY <1>1, <1>2, <1>3, <2>1, <2>2, <2>3, MoveOK DEF Goes
  <2> QED BY <2>1, <2>4 DEF went
<1>4. CASE w.process
  <2> DEFINE went == Go(w, m, "unloading")
  <2>1. ClientInvariant(went) /\ Goes(w, went, m, "unloading")
    BY <1>3
  <2>2. w' = BeginRequest(went, m, "unload", 0)
    BY <1>4 DEF Unload
  <2> HIDE DEF went
  <2>3. went.pc[m] = "unloading" /\ went.req[m].phase = "none" /\ "unload" \in Kinds
    BY <1>2, <2>1 DEF Goes, MovesOnly, Kinds
  <2>4. ClientInvariant(w') /\ AsksOnly(went, w')
    BY <2>1, <2>2, <2>3, AskOK
  <2>5. Unnoticed(w, w', m) /\ w'.pc[m] = "unloading"
    BY <2>1, <2>4 DEF Goes, MovesOnly, AsksOnly, Unnoticed
  <2> QED BY <1>1, <2>4, <2>5, MoveIsSteady, SteadyIsSound
<1>5. CASE ~w.process
  <2>1. w' = Go(w, m, "files")
    BY <1>5 DEF Unload
  <2>2. ClientInvariant(w') /\ Goes(w, w', m, "files")
    BY <1>3, <2>1
  <2>3. Unnoticed(w, w', m) /\ w'.pc[m] = "files"
    BY <2>2 DEF Goes, MovesOnly, Unnoticed
  <2> QED BY <1>1, <2>2, <2>3, BeginIsSound
<1> QED BY <1>4, <1>5

\* The worker has unloaded, or the mutation gives up.
LEMMA UnloadedSound ==
  ASSUME ClientInvariant(w), NEW m \in Mutators, Unloaded(m)
  PROVE  Sound(w, w')
<1> DEFINE taken == [w EXCEPT !.req[m] = NoRequest]
<1>1. /\ w \in States /\ m \in Holders /\ w.pc[m] = "unloading" /\ w.req[m].phase = "done"
      /\ "over" \in PcsOf(m) /\ "files" \in PcsOf(m)
      /\ w.lock.writer = m /\ m \notin Lined(w.lock) /\ m \notin w.lock.readers
  BY CallersAssumption, DistinctAssumption
     DEF ClientInvariant, CallersHold, LockOK, PcsOf, Unloaded, States
<1>2. taken.lock = w.lock /\ taken \in States
  BY <1>1, NoRequestTyped DEF States
<1> HIDE DEF taken
<1>3. CASE w.req[m].result = "ok"
  <2>1. w' = Go(taken, m, "files")
    BY <1>3 DEF Unloaded, taken
  <2>2. w' = [Go(taken, m, "files") EXCEPT !.lock = w.lock]
    BY <1>2, <2>1 DEF Go, States
  <2>3. Passes(w.lock, w.lock, m) /\ GoesOn(w, w', m, "files", w.lock)
    BY <2>2, LockStays DEF GoesOn, taken
  <2>4. ClientInvariant(w') /\ Unnoticed(w, w', m) /\ w'.pc[m] = "files"
    BY <1>1, <2>3, TakeAndLeave
  <2> QED BY <1>1, <2>4, BeginIsSound
<1>4. CASE w.req[m].result # "ok"
  <2>1. Go(taken, m, "over").lock = w.lock
    BY <1>2 DEF Go, States
  <2>2. w' = [Go(taken, m, "over") EXCEPT !.lock = ReleaseMutation(w.lock)]
    BY <1>4, <2>1 DEF Unloaded, taken
  <2>3. /\ Passes(w.lock, ReleaseMutation(w.lock), m)
        /\ m \notin ReleaseMutation(w.lock).readers /\ m \notin Lined(ReleaseMutation(w.lock))
    BY <1>1, ReleaseMutationPasses
  <2>4. GoesOn(w, w', m, "over", ReleaseMutation(w.lock))
    BY <2>2 DEF GoesOn, taken
  <2>5. ClientInvariant(w') /\ Unnoticed(w, w', m) /\ w'.pc[m] = "over"
    BY <1>1, <2>3, <2>4, TakeAndLeave
  <2> QED BY <1>1, <2>5, MoveIsSteady, SteadyIsSound
<1> QED BY <1>3, <1>4

\* A mutation ends its changes.
LEMMA EndIsSound ==
  ASSUME NEW s, ClientInvariant(s), NEW m \in Mutators, s.pc[m] = "files",
         NEW t, ClientInvariant(t), Unnoticed(s, t, m), t.pc[m] # "files"
  PROVE  Sound(s, t)
<1>1. s.lock.writer = m
  BY DEF ClientInvariant, CallersHold
<1>2. Changes(s) = {m}
  BY <1>1, WriterIsAlone DEF Changes
<1>3. Reads(t) = Reads(s)
  BY CallersAssumption, DistinctAssumption DEF Reads, ReadsFor, Unnoticed
<1>4. Changes(t) = {}
  BY <1>2, CallersAssumption DEF Changes, Unnoticed
<1>5. t.alive = s.alive
  BY DEF Unnoticed
<1> QED BY <1>2, <1>3, <1>4, <1>5 DEF Sound, UseStep

\* The files were changed: the mutation ends, or has the worker check them.
LEMMA FilesChangedSound ==
  ASSUME ClientInvariant(w), NEW m \in Mutators, FilesChanged(m)
  PROVE  Sound(w, w')
<1>1. /\ w \in States /\ m \in Holders /\ w.pc[m] = "files" /\ m \in Slots
      /\ {"over", "checking"} \subseteq PcsOf(m)
      /\ w.lock.writer = m /\ m \notin Lined(w.lock)
  BY CallersAssumption, DistinctAssumption
     DEF ClientInvariant, CallersHold, LockOK, PcsOf, FilesChanged, States, Slots
<1>2. w.req[m].phase = "none"
  BY <1>1, AtRest
<1>3. CASE w' = [Go(w, m, "over") EXCEPT !.lock = ReleaseMutation(@)]
  <2>1. Go(w, m, "over").lock = w.lock
    BY <1>1 DEF Go, States
  <2>2. w' = [Go(w, m, "over") EXCEPT !.lock = ReleaseMutation(w.lock)]
    BY <1>3, <2>1
  <2>3. /\ Passes(w.lock, ReleaseMutation(w.lock), m) /\ ReleaseMutation(w.lock) \in Locks
        /\ m \notin ReleaseMutation(w.lock).readers /\ m \notin Lined(ReleaseMutation(w.lock))
    <3>1. /\ Passes(w.lock, ReleaseMutation(w.lock), m)
          /\ m \notin ReleaseMutation(w.lock).readers /\ m \notin Lined(ReleaseMutation(w.lock))
      BY <1>1, ReleaseMutationPasses
    <3> QED BY <3>1 DEF Passes, LockOK
  <2>4. Arrives(w, w', m, "over", ReleaseMutation(w.lock))
    BY <1>1, <2>2, <2>3, ArriveOK
  <2>5. ClientInvariant(w')
    BY <1>1, <1>2, <2>3, <2>4, MoveOK DEF Arrives
  <2>6. Unnoticed(w, w', m) /\ w'.pc[m] = "over"
    BY <2>4 DEF Arrives, MovesOnly, Unnoticed
  <2> QED BY <1>1, <2>5, <2>6, EndIsSound
<1>4. CASE w' = BeginRequest(Go(w, m, "checking"), m, "check", 0)
  <2> DEFINE went == Go(w, m, "checking")
  <2>1. went \in States /\ Goes(w, went, m, "checking")
    BY <1>1, GoOK
  <2> HIDE DEF went
  <2>2. Passes(w.lock, went.lock, m) /\ went.lock.writer = m
    BY <1>1, <2>1, LockStays DEF Goes
  <2>3. ClientInvariant(went)
    BY <1>1, <1>2, <2>1, <2>2, MoveOK, DistinctAssumption DEF Goes
  <2>4. went.pc[m] = "checking" /\ went.req[m].phase = "none" /\ "check" \in Kinds
    BY <1>2, <2>1 DEF Goes, MovesOnly, Kinds
  <2>5. w' = BeginRequest(went, m, "check", 0)
    BY <1>4 DEF went
  <2>6. ClientInvariant(w') /\ AsksOnly(went, w')
    BY <2>3, <2>4, <2>5, AskOK
  <2>7. Unnoticed(w, w', m) /\ w'.pc[m] = "checking"
    BY <2>1, <2>6 DEF Goes, MovesOnly, AsksOnly, Unnoticed
  <2> QED BY <1>1, <2>6, <2>7, EndIsSound
<1> QED BY <1>3, <1>4 DEF FilesChanged

\* An installation was checked.
LEMMA FinishMutationSound ==
  ASSUME ClientInvariant(w), NEW m \in Mutators, FinishMutation(m)
  PROVE  Sound(w, w')
<1> DEFINE taken == [w EXCEPT !.req[m] = NoRequest]
<1>1. /\ w \in States /\ m \in Holders /\ w.pc[m] = "checking" /\ w.req[m].phase = "done"
      /\ "over" \in PcsOf(m) /\ w.lock.writer = m
  BY CallersAssumption, DistinctAssumption
     DEF ClientInvariant, CallersHold, PcsOf, FinishMutation, States
<1>2. w' = [Go(taken, m, "over") EXCEPT !.lock = ReleaseMutation(w.lock)]
  <2>1. Go(w, m, "over").lock = w.lock
    BY <1>1 DEF Go, States
  <2>2. w' = [Go(w, m, "over") EXCEPT !.req[m] = NoRequest, !.lock = ReleaseMutation(w.lock)]
    BY <2>1 DEF FinishMutation
  <2>3. [Go(w, m, "over") EXCEPT !.req[m] = NoRequest] = Go(taken, m, "over")
    BY <1>1 DEF Go, States
  <2> QED BY <2>2, <2>3
<1>3. /\ Passes(w.lock, ReleaseMutation(w.lock), m)
      /\ m \notin ReleaseMutation(w.lock).readers /\ m \notin Lined(ReleaseMutation(w.lock))
  BY <1>1, ReleaseMutationPasses
<1>4. GoesOn(w, w', m, "over", ReleaseMutation(w.lock))
  BY <1>2 DEF GoesOn
<1>5. ClientInvariant(w') /\ Unnoticed(w, w', m) /\ w'.pc[m] = "over"
  BY <1>1, <1>3, <1>4, TakeAndLeave
<1> QED BY <1>1, <1>5, MoveIsSteady, SteadyIsSound

-----------------------------------------------------------------------------
(* The streaming session *)

\* A session of which anything is kept is open.
LEMMA SessionIsOpen ==
  ASSUME NEW s, ClientInvariant(s), s.sess # NoSession
  PROVE  /\ s.pc[Session] = "open" /\ s.sess \in Sessions /\ s \in States
         /\ s.sess.gen \in 0..MaxGeneration /\ s.req \in [Slots -> Requested]
         /\ s.req["push"].phase # "none" => s.sess.pushing
         /\ s.req["finish"].phase # "none" => s.sess.finish = "asked"
         /\ s.req["drop"].phase # "none" => s.sess.drop = "asked"
<1>1. s.pc[Session] = "open" /\ s.sess \in Sessions /\ s \in States
  BY DEF ClientInvariant, SessionSound, States
<1>2. s.sess.gen \in 0..MaxGeneration
  BY <1>1 DEF Sessions
<1> QED BY <1>1, <1>2, SessionRequests

\* A step that ends work at most is sound.
LEMMA CalmIsSound ==
  ASSUME NEW s, ClientInvariant(s), NEW t, ClientInvariant(t), Calms(s, t)
  PROVE  Sound(s, t)
BY CalmIsSteady, SteadyIsSound

\* A request that is asked for disturbs no worker.
LEMMA AskingCalms ==
  ASSUME NEW s, NEW t, AsksOnly(s, t)
  PROVE  Calms(s, t)
BY DEF AsksOnly, Calms

\* A push is queued, or finds its worker gone.
LEMMA PushSound ==
  ASSUME ClientInvariant(w), Push
  PROVE  Sound(w, w')
<1>1. w.pc[Session] = "open" /\ ~w.sess.failed /\ ~w.sess.closed /\ w.sess \in Sessions
  BY DEF Push, SessionOpen, ClientInvariant, States
<1>2. CASE ~IsCurrent(w, w.sess.gen)
  <2> DEFINE t == CloseSession(w)
  <2>1. w' = ReleaseSession(t)
    BY <1>2 DEF Push
  <2>2. ClientInvariant(t) /\ StreamsOnly(w, t) /\ Calms(w, t)
    BY <1>1, CloseSessionOK
  <2> HIDE DEF t
  <2>3. t.pc[Session] = "open" /\ ~IsCurrent(t, t.sess.gen)
    BY <1>1, <1>2, <2>2 DEF StreamsOnly, IsCurrent
  <2>4. ClientInvariant(w') /\ Calms(t, w')
    BY <2>1, <2>2, <2>3, ReleaseSessionOK
  <2> QED BY <2>2, <2>4, CalmsTwice, CalmIsSound
<1>3. CASE IsCurrent(w, w.sess.gen)
  <2> DEFINE sess == [w.sess EXCEPT !.queued = @ + 1]
  <2>1. w' = [w EXCEPT !.sess = sess]
    BY <1>3 DEF Push
  <2>2. /\ sess \in Sessions /\ sess.gen = w.sess.gen /\ sess.pushing = w.sess.pushing
        /\ sess.finish = w.sess.finish /\ sess.drop = w.sess.drop /\ sess.cancel = w.sess.cancel
        /\ sess.failed = w.sess.failed /\ sess.closed = w.sess.closed
    BY <1>1 DEF Sessions
  <2> HIDE DEF sess
  <2>3. Risk(w) /\ w.sess.drop = "none" /\ w.sess.finish = "none" /\ w.sess.cancel # "tail"
    BY <1>1 DEF Risk, ClientInvariant, SessionSound
  <2>4. w'.sess = sess /\ w'.pc = w.pc
    BY <2>1 DEF ClientInvariant, States
  <2>5. SessionSound(w')
    BY <1>1, <2>2, <2>3, <2>4 DEF SessionSound
  <2>6. /\ w.req["push"].phase # "none" => w.sess.pushing
        /\ w.req["finish"].phase # "none" => w.sess.finish = "asked"
        /\ w.req["drop"].phase # "none" => w.sess.drop = "asked"
    BY <1>1, SessionRequests
  <2>7. ClientInvariant(w') /\ Calms(w, w')
    BY <1>1, <2>1, <2>2, <2>3, <2>5, <2>6, SessOK
  <2> QED BY <2>7, CalmIsSound
<1> QED BY <1>2, <1>3

\* A push has its turn.
LEMMA PushTurnSound ==
  ASSUME ClientInvariant(w), PushTurn
  PROVE  Sound(w, w')
<1>1. /\ w.pc[Session] = "open" /\ w.sess \in Sessions /\ w \in States
      /\ w.sess.gen \in 0..MaxGeneration
      /\ w.req["push"].phase # "none" => w.sess.pushing
      /\ w.req["finish"].phase # "none" => w.sess.finish = "asked"
      /\ w.req["drop"].phase # "none" => w.sess.drop = "asked"
  BY SessionIsOpen DEF PushTurn, NoSession
<1>2. w.sess.queued > 0 /\ ~w.sess.pushing /\ w.sess.queued \in Nat /\ w.sess.finish # "asked"
      /\ w.sess.cancel # "tail"
  BY <1>1 DEF PushTurn, Sessions, ClientInvariant, SessionSound
<1>3. CASE w.sess.failed
  <2> DEFINE sess == [w.sess EXCEPT !.queued = @ - 1]
  <2>1. w' = [w EXCEPT !.sess = sess]
    BY <1>3 DEF PushTurn
  <2>2. /\ sess \in Sessions /\ sess.gen = w.sess.gen /\ sess.pushing = w.sess.pushing
        /\ sess.finish = w.sess.finish /\ sess.drop = w.sess.drop /\ sess.cancel = w.sess.cancel
        /\ sess.failed = w.sess.failed /\ sess.closed = w.sess.closed
    BY <1>1, <1>2 DEF Sessions
  <2> HIDE DEF sess
  <2>3. w'.sess = sess /\ w'.pc = w.pc /\ w'.req = w.req
    BY <1>1, <2>1 DEF States
  <2>4. Risk(w') => Risk(w)
    BY <1>3, <2>2, <2>3 DEF Risk, Active
  <2>5. SessionSound(w')
    BY <1>1, <1>2, <2>2, <2>3, <2>4 DEF ClientInvariant, SessionSound
  <2>6. ClientInvariant(w') /\ Calms(w, w')
    BY <1>1, <2>1, <2>2, <2>4, <2>5, SessOK
  <2> QED BY <2>6, CalmIsSound
<1>4. CASE ~w.sess.failed
  <2> DEFINE sess == [w.sess EXCEPT !.queued = @ - 1, !.pushing = TRUE]
             t == [w EXCEPT !.sess = sess]
  <2>1. w' = BeginRequest(t, "push", "push", w.sess.gen)
    BY <1>4 DEF PushTurn
  <2>2. /\ sess \in Sessions /\ sess.gen = w.sess.gen /\ sess.pushing
        /\ sess.finish = w.sess.finish /\ sess.drop = w.sess.drop /\ sess.cancel = w.sess.cancel
        /\ sess.failed = w.sess.failed /\ sess.closed = w.sess.closed
    <3> DEFINE less == [w.sess EXCEPT !.queued = @ - 1]
    <3>1. /\ less \in Sessions /\ less.gen = w.sess.gen
          /\ less.finish = w.sess.finish /\ less.drop = w.sess.drop /\ less.cancel = w.sess.cancel
          /\ less.failed = w.sess.failed /\ less.closed = w.sess.closed
      BY <1>1, <1>2 DEF Sessions
    <3>2. sess = [less EXCEPT !.pushing = TRUE]
      OBVIOUS
    <3> HIDE DEF less, sess
    <3> QED BY <3>1, <3>2 DEF Sessions
  <2> HIDE DEF sess
  <2>3. t.sess = sess /\ t.pc = w.pc /\ t.req = w.req
    BY <1>1 DEF States
  <2>4. Risk(w) /\ w.sess.drop = "none"
    BY <1>2, <1>4 DEF Risk, ClientInvariant, SessionSound
  <2>5. SessionSound(t)
    BY <1>1, <1>2, <2>2, <2>3, <2>4 DEF ClientInvariant, SessionSound
  <2>6. ClientInvariant(t) /\ StreamsOnly(w, t) /\ Calms(w, t) /\ t.lock = w.lock
    BY <1>1, <2>2, <2>4, <2>5, SessOK
  <2> HIDE DEF t
  <2>7. "push" \in Slots /\ "push" \notin Transcribers /\ "push" \notin Verifiers /\ "push" \notin Mutators
    BY DistinctAssumption, CallersAssumption DEF Slots
  <2>8. t.req["push"].phase = "none" /\ Owned(t, "push") /\ "push" \in Kinds
    BY <1>1, <1>2, <2>2, <2>3, <2>7 DEF Owned, Kinds
  <2>9. IsCurrent(t, t.sess.gen) => Session \in t.lock.readers
    BY <1>1, <2>4, <2>6 DEF StreamsOnly, IsCurrent, ClientInvariant, SessionCovered
  <2>10. t.sess.drop = "none" /\ t.pc[Session] = "open" /\ w.sess.gen = t.sess.gen
    BY <1>1, <2>2, <2>3, <2>4
  <2>11. ClientInvariant(w') /\ AsksOnly(t, w')
    BY <1>1, <2>1, <2>6, <2>7, <2>8, <2>9, <2>10, BeginRequestOK
  <2> QED BY <2>6, <2>11, AskingCalms, CalmsTwice, CalmIsSound
<1> QED BY <1>3, <1>4

\* A session fails and is closed, in either order.
LEMMA CloseAndFail ==
  ASSUME NEW s \in States
  PROVE  CloseSession([s EXCEPT !.sess.failed = TRUE])
           = [CloseSession(s) EXCEPT !.sess = [CloseSession(s).sess EXCEPT !.failed = TRUE]]
<1> DEFINE bad == [s.sess EXCEPT !.failed = TRUE]
           shut == [s.sess EXCEPT !.closed = TRUE]
           t == [s EXCEPT !.sess = bad]
<1>1. s.sess \in Sessions
  BY DEF States
<1>2. /\ bad.closed = s.sess.closed /\ bad.gen = s.sess.gen
      /\ [bad EXCEPT !.closed = TRUE] = [shut EXCEPT !.failed = TRUE]
  BY <1>1 DEF Sessions
<1>3. [s EXCEPT !.sess.failed = TRUE] = t
  OBVIOUS
<1> HIDE DEF bad, shut
<1>4. t.sess = bad /\ t.leases = s.leases
  BY DEF States
<1>5. CASE s.sess.closed
  BY <1>2, <1>3, <1>4, <1>5 DEF CloseSession, bad
<1>6. CASE ~s.sess.closed
  <2>1. CloseSession(s) = [s EXCEPT !.sess = shut, !.leases[s.sess.gen] = @ \ {Session}]
    BY <1>6 DEF CloseSession, shut
  <2>2. CloseSession(t) = [t EXCEPT !.sess = [bad EXCEPT !.closed = TRUE],
                                    !.leases[s.sess.gen] = @ \ {Session}]
    BY <1>2, <1>4, <1>6 DEF CloseSession
  <2> DEFINE leases == [s.leases EXCEPT ![s.sess.gen] = @ \ {Session}]
  <2>3. CloseSession(s) = [s EXCEPT !.sess = shut, !.leases = leases]
    BY <2>1
  <2>4. CloseSession(t) = [t EXCEPT !.sess = [shut EXCEPT !.failed = TRUE], !.leases = leases]
    BY <1>2, <1>4, <2>2
  <2> HIDE DEF leases
  <2>5. CloseSession(s).sess = shut
    BY <2>3 DEF States
  <2> QED BY <1>3, <2>3, <2>4, <2>5 DEF States
<1> QED BY <1>5, <1>6

\* A push was answered; its failure ends the session.
LEMMA PushSettledSound ==
  ASSUME ClientInvariant(w), PushSettled
  PROVE  Sound(w, w')
<1> DEFINE took == [w EXCEPT !.req["push"] = NoRequest]
           sess == [took.sess EXCEPT !.pushing = FALSE]
           over == [took EXCEPT !.sess = sess]
<1>1. w.pc[Session] = "open" /\ w \in States /\ "push" \in Slots /\ "push" \notin Transcribers
  BY SessionIsOpen, DistinctAssumption, CallersAssumption DEF PushSettled, NoSession, Slots
<1>2. /\ ClientInvariant(took) /\ AsksOnly(w, took) /\ Calms(w, took)
      /\ took.req["push"].phase = "none"
  BY <1>1, TakenOK DEF PushSettled
<1>3. w' = IF w.req["push"].result = "ok" \/ w.sess.failed THEN over
           ELSE DropThenRelease(CloseSession([over EXCEPT !.sess.failed = TRUE]))
  BY DEF PushSettled
<1> HIDE DEF took
<1>4. /\ took.pc[Session] = "open" /\ took \in States /\ took.sess \in Sessions
      /\ took.req["finish"].phase # "none" => took.sess.finish = "asked"
      /\ took.req["drop"].phase # "none" => took.sess.drop = "asked"
      /\ took.sess.pushing
  BY <1>1, <1>2, SessionRequests DEF AsksOnly, ClientInvariant, PushSettled
<1>5. /\ sess \in Sessions /\ sess.gen = took.sess.gen /\ ~sess.pushing /\ sess.queued = took.sess.queued
      /\ sess.finish = took.sess.finish /\ sess.drop = took.sess.drop /\ sess.cancel = took.sess.cancel
      /\ sess.failed = took.sess.failed /\ sess.closed = took.sess.closed
  BY <1>4 DEF Sessions
<1> HIDE DEF sess
<1>6. over.sess = sess /\ over.pc = took.pc /\ over.req = took.req
  BY <1>4 DEF States
<1>7. Risk(over) => Risk(took)
  BY <1>5, <1>6 DEF Risk, Active
<1>8. SessionSound(over)
  BY <1>4, <1>5, <1>6, <1>7, <1>2 DEF ClientInvariant, SessionSound
<1>9. ClientInvariant(over) /\ Calms(took, over)
  BY <1>2, <1>4, <1>5, <1>7, <1>8, SessOK
<1>10. Calms(w, over)
  BY <1>2, <1>9, CalmsTwice
<1>11. took.sess.finish # "asked"
  BY <1>2, <1>4 DEF ClientInvariant, SessionSound
<1>12. CASE w.req["push"].result = "ok" \/ w.sess.failed
  BY <1>3, <1>9, <1>10, <1>12, CalmIsSound
<1>13. CASE ~(w.req["push"].result = "ok" \/ w.sess.failed)
  <2> DEFINE closed == CloseSession(over)
             failed == [closed.sess EXCEPT !.failed = TRUE]
             t == [closed EXCEPT !.sess = failed]
  <2>1. over.pc[Session] = "open" /\ over \in States /\ over.sess \in Sessions
    BY <1>4, <1>5, <1>6, <1>9 DEF ClientInvariant
  <2>2. /\ ClientInvariant(closed) /\ StreamsOnly(over, closed) /\ Calms(over, closed)
        /\ closed.sess.closed /\ closed.sess.pushing = over.sess.pushing
        /\ closed.sess.finish = over.sess.finish
    BY <1>9, <2>1, CloseSessionOK
  <2>3. CloseSession([over EXCEPT !.sess.failed = TRUE]) = t
    BY <2>1, CloseAndFail
  <2> HIDE DEF over, closed
  <2>4. /\ closed.pc[Session] = "open" /\ closed \in States /\ closed.sess \in Sessions
        /\ closed.req["push"].phase = "none"
        /\ closed.req["finish"].phase = "none"
        /\ closed.req["drop"].phase # "none" => closed.sess.drop = "asked"
        /\ ~closed.sess.pushing /\ closed.sess.finish # "asked"
    BY <1>2, <1>4, <1>5, <1>6, <1>11, <2>1, <2>2, SessionRequests DEF StreamsOnly, ClientInvariant
  <2>5. /\ failed \in Sessions /\ failed.gen = closed.sess.gen /\ failed.failed /\ failed.closed
        /\ failed.pushing = closed.sess.pushing /\ failed.queued = closed.sess.queued
        /\ failed.finish = closed.sess.finish /\ failed.drop = closed.sess.drop
        /\ failed.cancel = closed.sess.cancel
    BY <2>2, <2>4 DEF Sessions
  <2> HIDE DEF failed
  <2>6. t.sess = failed /\ t.pc = closed.pc /\ t.req = closed.req
    BY <2>4 DEF States
  <2>7. ~Risk(t)
    BY <2>4, <2>5, <2>6 DEF Risk, Active
  <2>8. SessionSound(t)
    BY <2>2, <2>4, <2>5, <2>6, <2>7 DEF ClientInvariant, SessionSound
  <2>9. ClientInvariant(t) /\ Calms(closed, t)
    BY <2>2, <2>4, <2>5, <2>7, <2>8, SessOK
  <2>10. t.pc[Session] = "open" /\ w' = DropThenRelease(t)
    BY <1>3, <1>13, <2>3, <2>4, <2>6
  <2> HIDE DEF t
  <2>11. ClientInvariant(w') /\ Calms(t, w')
    BY <2>7, <2>9, <2>10, DropThenReleaseOK
  <2>12. Calms(closed, w')
    BY <2>9, <2>11, CalmsTwice
  <2>13. Calms(over, w')
    BY <2>2, <2>12, CalmsTwice
  <2> QED BY <1>10, <2>11, <2>13, CalmsTwice, CalmIsSound
<1> QED BY <1>12, <1>13

\* What differs between two states of a session, as far as a change of one field shows.
SessAs(sess, was) ==
  /\ sess \in Sessions /\ sess.gen = was.gen /\ sess.failed = was.failed
  /\ sess.closed = was.closed /\ sess.queued = was.queued /\ sess.pushing = was.pushing

\* The cancellation of a session in its worker was answered.
LEMMA DropSettledSound ==
  ASSUME ClientInvariant(w), DropSettled
  PROVE  Sound(w, w')
<1> DEFINE took == [w EXCEPT !.req["drop"] = NoRequest]
<1>1. /\ w.pc[Session] = "open" /\ w \in States /\ "drop" \in Slots /\ "drop" \notin Transcribers
      /\ w.sess \in Sessions /\ w.sess.drop = "asked"
  BY SessionIsOpen, DistinctAssumption, CallersAssumption DEF DropSettled, NoSession, Slots
<1>2. /\ ClientInvariant(took) /\ AsksOnly(w, took) /\ Calms(w, took)
      /\ took.req["drop"].phase = "none"
      /\ took.req["push"] = w.req["push"] /\ took.req["finish"] = w.req["finish"]
  BY <1>1, TakenOK DEF DropSettled, Slots
<1>3. \/ w' = ReleaseSession([took EXCEPT !.sess = [took.sess EXCEPT !.drop = "done"]])
      \/ \E killed \in BOOLEAN :
           w' = BeginTermination([took EXCEPT !.sess = [took.sess EXCEPT !.drop = "ending", !.release = "exit"]],
                                 w.sess.gen, "cancel", FALSE, {}, killed)
  BY DEF DropSettled
<1> HIDE DEF took
<1>4. /\ took.pc[Session] = "open" /\ took \in States /\ took.sess \in Sessions
      /\ took.sess = w.sess
      /\ took.req["push"].phase # "none" => took.sess.pushing
      /\ took.req["finish"].phase # "none" => took.sess.finish = "asked"
  BY <1>1, <1>2, SessionRequests DEF AsksOnly, ClientInvariant
<1>5. ~Risk(took)
  BY <1>1, <1>2, <1>4 DEF ClientInvariant, SessionSound
<1>6. ASSUME NEW sess, SessAs(sess, took.sess), sess.finish = took.sess.finish,
             sess.cancel = took.sess.cancel
      PROVE  LET t == [took EXCEPT !.sess = sess]
             IN  ClientInvariant(t) /\ Calms(took, t) /\ ~Risk(t) /\ t.pc[Session] = "open"
  <2> DEFINE t == [took EXCEPT !.sess = sess]
  <2>1. t.sess = sess /\ t.pc = took.pc /\ t.req = took.req
    BY <1>4 DEF States
  <2> HIDE DEF t
  <2>2. ~Risk(t)
    BY <1>5, <1>6, <2>1 DEF Risk, Active, SessAs
  <2>3. SessionSound(t)
    BY <1>2, <1>4, <1>6, <2>1, <2>2 DEF ClientInvariant, SessionSound, SessAs
  <2>4. ClientInvariant(t) /\ Calms(took, t)
    BY <1>2, <1>4, <1>6, <2>2, <2>3, SessOK DEF t, SessAs
  <2> QED BY <1>4, <2>1, <2>2, <2>4 DEF t
<1>7. CASE w' = ReleaseSession([took EXCEPT !.sess = [took.sess EXCEPT !.drop = "done"]])
  <2> DEFINE sess == [took.sess EXCEPT !.drop = "done"]
             t == [took EXCEPT !.sess = sess]
  <2>1. SessAs(sess, took.sess) /\ sess.finish = took.sess.finish /\ sess.cancel = took.sess.cancel
    BY <1>4 DEF Sessions, SessAs
  <2> HIDE DEF sess
  <2>2. ClientInvariant(t) /\ Calms(took, t) /\ ~Risk(t) /\ t.pc[Session] = "open"
    BY <1>6, <2>1
  <2>3. w' = ReleaseSession(t)
    BY <1>7 DEF sess
  <2> HIDE DEF t
  <2>4. ClientInvariant(w') /\ Calms(t, w')
    BY <2>2, <2>3, ReleaseSessionOK
  <2>5. Calms(took, w')
    BY <2>2, <2>4, CalmsTwice
  <2> QED BY <1>2, <2>4, <2>5, CalmsTwice, CalmIsSound
<1>8. ASSUME NEW killed \in BOOLEAN,
             w' = BeginTermination([took EXCEPT !.sess = [took.sess EXCEPT !.drop = "ending", !.release = "exit"]],
                                   w.sess.gen, "cancel", FALSE, {}, killed)
      PROVE  Sound(w, w')
  <2> DEFINE sess == [took.sess EXCEPT !.drop = "ending", !.release = "exit"]
             t == [took EXCEPT !.sess = sess]
  <2>1. SessAs(sess, took.sess) /\ sess.finish = took.sess.finish /\ sess.cancel = took.sess.cancel
    BY <1>4 DEF Sessions, SessAs
  <2> HIDE DEF sess
  <2>2. ClientInvariant(t) /\ Calms(took, t) /\ ~Risk(t) /\ t.pc[Session] = "open"
    BY <1>6, <2>1
  <2>3. w' = BeginTermination(t, w.sess.gen, "cancel", FALSE, {}, killed)
    BY <1>8 DEF sess
  <2> HIDE DEF t
  <2>4. "cancel" \in Causes /\ FALSE \in BOOLEAN /\ {} \in SUBSET Slots
    BY DEF Causes
  <2>5. ClientInvariant(w')
    BY <2>2, <2>3, <2>4, BeginTerminationOK
  <2>6. Calms(t, w')
    BY <2>2, <2>3, BeginTerminationCalms
  <2>7. Calms(took, w')
    BY <2>2, <2>6, CalmsTwice
  <2> QED BY <1>2, <2>5, <2>7, CalmsTwice, CalmIsSound
<1> QED BY <1>3, <1>7, <1>8

\* The session's worker is gone, for which the release of its lease waited.
LEMMA TerminationSettledSound ==
  ASSUME ClientInvariant(w), TerminationSettled
  PROVE  Sound(w, w')
<1> DEFINE sess == [w.sess EXCEPT !.drop = IF @ = "ending" THEN "done" ELSE @]
           t == [w EXCEPT !.sess = sess]
<1>1. /\ w.pc[Session] = "open" /\ w.sess \in Sessions /\ w \in States
      /\ w.req["push"].phase # "none" => w.sess.pushing
      /\ w.req["finish"].phase # "none" => w.sess.finish = "asked"
      /\ w.req["drop"].phase # "none" => w.sess.drop = "asked"
  BY SessionIsOpen DEF TerminationSettled, NoSession
<1>2. w' = ReleaseSession(t)
  BY DEF TerminationSettled
<1>3. /\ SessAs(sess, w.sess) /\ sess.finish = w.sess.finish /\ sess.cancel = w.sess.cancel
      /\ sess.drop = "none" <=> w.sess.drop = "none"
      /\ sess.drop = "asked" <=> w.sess.drop = "asked"
  BY <1>1 DEF Sessions, SessAs
<1> HIDE DEF sess
<1>4. t.sess = sess /\ t.pc = w.pc /\ t.req = w.req /\ t.gen = w.gen /\ t.process = w.process
  BY <1>1 DEF States
<1>5. Risk(t) <=> Risk(w)
  BY <1>3, <1>4 DEF Risk, Active, SessAs
<1>6. SessionSound(t)
  BY <1>1, <1>3, <1>4, <1>5 DEF ClientInvariant, SessionSound, SessAs
<1>7. ClientInvariant(t) /\ Calms(w, t)
  BY <1>1, <1>3, <1>5, <1>6, SessOK DEF SessAs
<1>8. t.pc[Session] = "open" /\ ~IsCurrent(t, t.sess.gen)
  BY <1>1, <1>3, <1>4 DEF IsCurrent, TerminationSettled, SessAs
<1> HIDE DEF t
<1>9. ClientInvariant(w') /\ Calms(t, w')
  BY <1>2, <1>7, <1>8, ReleaseSessionOK
<1> QED BY <1>7, <1>9, CalmsTwice, CalmIsSound

\* finish() closes the session and waits for the pushes.
LEMMA FinishSound ==
  ASSUME ClientInvariant(w), Finish
  PROVE  Sound(w, w')
<1> DEFINE sess == [w.sess EXCEPT !.closed = TRUE, !.finish = "tail"]
           leases == [w.leases EXCEPT ![w.sess.gen] = @ \ {Session}]
<1>1. /\ w.pc[Session] = "open" /\ w.sess \in Sessions /\ w \in States
      /\ ~w.sess.failed /\ ~w.sess.closed /\ Session \in Users
      /\ w.leases \in [Generations -> SUBSET Users]
  BY DEF Finish, SessionOpen, ClientInvariant, States, Users
<1>2. Risk(w) /\ w.sess.drop = "none" /\ w.sess.finish = "none" /\ w.sess.cancel # "tail"
  BY <1>1 DEF Risk, ClientInvariant, SessionSound
<1>3. /\ sess \in Sessions /\ sess.gen = w.sess.gen /\ sess.closed /\ ~sess.failed
      /\ sess.pushing = w.sess.pushing /\ sess.queued = w.sess.queued /\ sess.finish = "tail"
      /\ sess.drop = w.sess.drop /\ sess.cancel = w.sess.cancel
  <2> DEFINE shut == [w.sess EXCEPT !.closed = TRUE]
  <2>1. /\ shut \in Sessions /\ shut.gen = w.sess.gen /\ shut.closed /\ ~shut.failed
        /\ shut.pushing = w.sess.pushing /\ shut.queued = w.sess.queued
        /\ shut.drop = w.sess.drop /\ shut.cancel = w.sess.cancel
    BY <1>1 DEF Sessions
  <2>2. sess = [shut EXCEPT !.finish = "tail"]
    OBVIOUS
  <2> HIDE DEF shut, sess
  <2> QED BY <2>1, <2>2 DEF Sessions
<1>4. /\ leases \in [Generations -> SUBSET Users]
      /\ \A g \in Generations : \A user \in Users :
           user # Session => (user \in leases[g] <=> user \in w.leases[g])
      /\ \A g \in Generations : leases[g] \subseteq w.leases[g]
  BY <1>1
<1>5. w' = [w EXCEPT !.sess = sess, !.leases = leases]
  <2> DEFINE shut == [w.sess EXCEPT !.closed = TRUE]
  <2>1. CloseSession(w) = [w EXCEPT !.sess = shut, !.leases = leases]
    BY <1>1 DEF CloseSession
  <2>2. sess = [shut EXCEPT !.finish = "tail"]
    OBVIOUS
  <2>3. w' = [CloseSession(w) EXCEPT !.sess = [CloseSession(w).sess EXCEPT !.finish = "tail"]]
    BY DEF Finish
  <2> HIDE DEF shut, sess, leases
  <2>4. CloseSession(w).sess = shut
    BY <1>1, <2>1 DEF States
  <2> QED BY <1>1, <2>1, <2>2, <2>3, <2>4 DEF States
<1> HIDE DEF sess, leases
<1>6. /\ w' \in States /\ StreamsOnly(w, w') /\ w'.sess = sess /\ w'.leases = leases /\ w'.lock = w.lock
  BY <1>1, <1>3, <1>4, <1>5 DEF States, StreamsOnly
<1>7. RequestsOwned(w')
  BY <1>2, <1>3, <1>6 DEF StreamsOnly, ClientInvariant, RequestsOwned, Owned, Closing
<1>8. SessionSound(w')
  BY <1>1, <1>2, <1>3, <1>6 DEF StreamsOnly, ClientInvariant, SessionSound
<1>9. SessionCovered(w')
  BY <1>2, <1>3, <1>6 DEF StreamsOnly, ClientInvariant, SessionCovered, IsCurrent
<1>10. \A g \in Generations : Session \in w'.leases[g] => g = w.sess.gen
  BY <1>1, <1>4, <1>6 DEF ClientInvariant, LeasesOwed
<1>11. ClientInvariant(w')
  BY <1>1, <1>4, <1>6, <1>7, <1>8, <1>9, <1>10, StreamOK
<1> QED BY <1>6, <1>11, CalmIsSound DEF Calms, StreamsOnly

-----------------------------------------------------------------------------
(* Finishing *)

\* A finish goes on after the pushes: the request, or the unwinding.
LEMMA FinishProceedsSound ==
  ASSUME ClientInvariant(w), FinishProceeds
  PROVE  Sound(w, w')
<1>1. /\ w.pc[Session] = "open" /\ w.sess \in Sessions /\ w \in States
      /\ w.sess.gen \in 0..MaxGeneration /\ w.sess.finish = "tail"
      /\ w.req["push"].phase # "none" => w.sess.pushing
      /\ w.req["finish"].phase = "none"
      /\ w.req["drop"].phase # "none" => w.sess.drop = "asked"
  BY SessionIsOpen DEF FinishProceeds, NoSession
<1>2. w.sess.queued = 0 /\ ~w.sess.pushing
  <2>1. w.sess.queued \in Nat
    BY <1>1 DEF Sessions
  <2> QED BY <2>1 DEF FinishProceeds, Pending
<1>3. w.req["push"].phase = "none"
  BY <1>1, <1>2
<1>4. CASE w.sess.failed \/ ~IsCurrent(w, w.sess.gen)
  <2>1. w' = Unwind(w, FALSE)
    BY <1>4 DEF FinishProceeds
  <2>2. ~Active(w, "finish") /\ ~Waiting(w, "push") /\ w.req["push"].phase # "sent" /\ FALSE \in BOOLEAN
    BY <1>1, <1>3 DEF Active, Waiting
  <2>3. ClientInvariant(w') /\ Calms(w, w')
    BY <1>1, <1>2, <2>1, <2>2, UnwindOK
  <2> QED BY <2>3, CalmIsSound
<1>5. CASE ~(w.sess.failed \/ ~IsCurrent(w, w.sess.gen))
  <2> DEFINE sess == [w.sess EXCEPT !.finish = "asked"]
             t == [w EXCEPT !.sess = sess]
  <2>1. w' = BeginRequest(t, "finish", "finish", w.sess.gen)
    BY <1>5 DEF FinishProceeds
  <2>2. SessAs(sess, w.sess) /\ sess.finish = "asked" /\ sess.drop = w.sess.drop /\ sess.cancel = w.sess.cancel
    BY <1>1 DEF Sessions, SessAs
  <2> HIDE DEF sess
  <2>3. t.sess = sess /\ t.pc = w.pc /\ t.req = w.req
    BY <1>1 DEF States
  <2>4. Risk(w) /\ w.sess.drop = "none" /\ w.sess.closed /\ w.sess.cancel # "tail"
    BY <1>1, <1>5 DEF Risk, ClientInvariant, SessionSound
  <2>5. SessionSound(t)
    BY <1>1, <1>2, <2>2, <2>3, <2>4 DEF SessionSound, SessAs
  <2>6. ClientInvariant(t) /\ StreamsOnly(w, t) /\ Calms(w, t) /\ t.lock = w.lock
    BY <1>1, <2>2, <2>4, <2>5, SessOK DEF SessAs
  <2> HIDE DEF t
  <2>7. /\ "finish" \in Slots /\ "finish" \notin Transcribers /\ "finish" \notin Verifiers
        /\ "finish" \notin Mutators /\ "finish" \in Kinds
    BY DistinctAssumption, CallersAssumption DEF Slots, Kinds
  <2>8. t.req["finish"].phase = "none" /\ Owned(t, "finish")
    BY <1>1, <2>2, <2>3, <2>7 DEF Owned
  <2>9. IsCurrent(t, t.sess.gen) => Session \in t.lock.readers
    BY <1>1, <2>4, <2>6 DEF StreamsOnly, IsCurrent, ClientInvariant, SessionCovered
  <2>10. t.sess.drop = "none" /\ t.pc[Session] = "open" /\ w.sess.gen = t.sess.gen
    BY <1>1, <2>2, <2>3, <2>4 DEF SessAs
  <2>11. ClientInvariant(w') /\ AsksOnly(t, w')
    BY <1>1, <2>1, <2>6, <2>7, <2>8, <2>9, <2>10, BeginRequestOK
  <2> QED BY <2>6, <2>11, AskingCalms, CalmsTwice, CalmIsSound
<1> QED BY <1>4, <1>5

\* The request of a finish was answered.
LEMMA FinishSettledSound ==
  ASSUME ClientInvariant(w), FinishSettled
  PROVE  Sound(w, w')
<1>1. /\ w.pc[Session] = "open" /\ w.sess \in Sessions /\ w \in States
      /\ w.sess.finish = "asked" /\ w.req["finish"].phase = "done"
      /\ w.req["push"].phase # "none" => w.sess.pushing
      /\ w.req["drop"].phase # "none" => w.sess.drop = "asked"
  BY SessionIsOpen DEF FinishSettled, NoSession
<1>2. w.sess.queued = 0 /\ ~w.sess.pushing /\ w.req["push"].phase = "none" /\ w.sess.closed
  BY <1>1 DEF ClientInvariant, SessionSound
<1>3. CASE w.req["finish"].result # "ok"
  <2>1. w' = Unwind(w, FALSE)
    BY <1>3 DEF FinishSettled
  <2>2. ~Active(w, "finish") /\ ~Waiting(w, "push") /\ w.req["push"].phase # "sent" /\ FALSE \in BOOLEAN
    BY <1>1, <1>2 DEF Active, Waiting
  <2>3. ClientInvariant(w') /\ Calms(w, w')
    BY <1>1, <1>2, <2>1, <2>2, UnwindOK
  <2> QED BY <2>3, CalmIsSound
<1>4. CASE w.req["finish"].result = "ok"
  <2> DEFINE took == [w EXCEPT !.req["finish"] = NoRequest]
             sess == [took.sess EXCEPT !.finish = "over"]
             t == [took EXCEPT !.sess = sess]
  <2>1. "finish" \in Slots /\ "finish" \notin Transcribers /\ "finish" # "push"
        /\ "push" \in Slots /\ "drop" \in Slots
    BY DistinctAssumption, CallersAssumption DEF Slots
  <2>2. /\ ClientInvariant(took) /\ AsksOnly(w, took) /\ Calms(w, took)
        /\ took.req["finish"].phase = "none"
        /\ took.req["push"] = w.req["push"] /\ took.req["drop"] = w.req["drop"]
    BY <1>1, <2>1, TakenOK
  <2>3. w' = ReleaseSession(t)
    BY <1>1, <1>4 DEF FinishSettled, States
  <2> HIDE DEF took
  <2>4. /\ took.pc[Session] = "open" /\ took \in States /\ took.sess = w.sess
    BY <1>1, <2>2 DEF AsksOnly, ClientInvariant
  <2>5. SessAs(sess, took.sess) /\ sess.finish = "over" /\ sess.drop = took.sess.drop
        /\ sess.cancel = took.sess.cancel
    BY <1>1, <2>4 DEF Sessions, SessAs
  <2> HIDE DEF sess
  <2>6. t.sess = sess /\ t.pc = took.pc /\ t.req = took.req
    BY <2>4 DEF States
  <2>7. ~Risk(t)
    BY <1>2, <2>2, <2>4, <2>5, <2>6 DEF Risk, Active, SessAs
  <2>8. SessionSound(t)
    BY <1>1, <1>2, <2>2, <2>4, <2>5, <2>6, <2>7 DEF ClientInvariant, SessionSound, SessAs
  <2>9. ClientInvariant(t) /\ Calms(took, t)
    BY <1>1, <1>2, <2>2, <2>4, <2>5, <2>7, <2>8, SessOK DEF SessAs
  <2>10. t.pc[Session] = "open"
    BY <2>4, <2>6
  <2> HIDE DEF t
  <2>11. ClientInvariant(w') /\ Calms(t, w')
    BY <2>3, <2>7, <2>9, <2>10, ReleaseSessionOK
  <2>12. Calms(took, w')
    BY <2>9, <2>11, CalmsTwice
  <2> QED BY <2>2, <2>11, <2>12, CalmsTwice, CalmIsSound
<1> QED BY <1>3, <1>4

\* A finish that is aborted unwinds at once, or when its request has failed.
LEMMA AbortFinishOK ==
  ASSUME NEW s, ClientInvariant(s), s.pc[Session] = "open", NEW killed \in BOOLEAN
  PROVE  ClientInvariant(AbortFinish(s, killed)) /\ Calms(s, AbortFinish(s, killed))
<1> DEFINE aborted == AbortSession(s, killed)
<1>1. /\ ClientInvariant(aborted) /\ Calms(s, aborted)
      /\ aborted.sess.aborted /\ aborted.sess.queued = 0 /\ aborted.sess.finish = s.sess.finish
      /\ ~Waiting(aborted, "push")
      /\ aborted.req["push"].phase = "sent" => aborted.req["push"].asked
  BY AbortSessionOK
<1>2. AbortFinish(s, killed) = IF s.sess.finish = "tail" THEN Unwind(aborted, killed) ELSE aborted
  BY DEF AbortFinish
<1> HIDE DEF aborted
<1>3. aborted.pc[Session] = "open"
  BY <1>1 DEF Calms
<1>4. CASE s.sess.finish = "tail"
  <2>1. ~Active(aborted, "finish")
    BY <1>1, <1>3, <1>4, SessionRequests DEF Active
  <2>2. ClientInvariant(Unwind(aborted, killed)) /\ Calms(aborted, Unwind(aborted, killed))
    BY <1>1, <1>3, <1>4, <2>1, UnwindOK
  <2> QED BY <1>1, <1>2, <1>4, <2>2, CalmsTwice
<1>5. CASE s.sess.finish # "tail"
  BY <1>1, <1>2, <1>5
<1> QED BY <1>4, <1>5

\* The signal of a finish aborts.
LEMMA FinishAbortedSound ==
  ASSUME ClientInvariant(w), FinishAborted
  PROVE  Sound(w, w')
<1>1. w.pc[Session] = "open"
  BY SessionIsOpen DEF FinishAborted, NoSession
<1>2. PICK killed \in BOOLEAN : w' = AbortFinish(w, killed)
  BY DEF FinishAborted
<1>3. ClientInvariant(w') /\ Calms(w, w')
  BY <1>1, <1>2, AbortFinishOK
<1> QED BY <1>3, CalmIsSound

\* cancel() of a session.
LEMMA CancelSound ==
  ASSUME ClientInvariant(w), Cancel
  PROVE  Sound(w, w')
<1> DEFINE sess == [w.sess EXCEPT !.cancel = "over"]
           asked == [w EXCEPT !.sess = sess]
<1>1. /\ w.pc[Session] = "open" /\ w.sess \in Sessions /\ w \in States /\ w.sess.cancel = "none"
  BY DEF Cancel, SessionOpen, ClientInvariant, States
<1>2. PICK killed \in BOOLEAN :
        IF w.sess.failed THEN w' = asked
        ELSE IF w.sess.closed
        THEN w' = IF w.sess.finish \in {"tail", "asked"} /\ ~w.sess.aborted
                  THEN AbortFinish(asked, killed) ELSE asked
        ELSE LET aborted == AbortSession(CloseSession(asked), killed) IN
             w' = IF aborted.req["push"].phase = "sent" THEN TerminateSession(aborted, killed)
                  ELSE [aborted EXCEPT !.sess.cancel = "tail"]
  BY DEF Cancel
<1>3. SessAs(sess, w.sess) /\ sess.finish = w.sess.finish /\ sess.drop = w.sess.drop
      /\ sess.cancel = "over"
  BY <1>1 DEF Sessions, SessAs
<1> HIDE DEF sess
<1>4. asked.sess = sess /\ asked.pc = w.pc /\ asked.req = w.req
  BY <1>1 DEF States
<1>5. Risk(asked) <=> Risk(w)
  BY <1>3, <1>4 DEF Risk, Active, SessAs
<1>6. SessionSound(asked)
  BY <1>1, <1>3, <1>4, <1>5 DEF ClientInvariant, SessionSound, SessAs
<1>7. /\ w.req["push"].phase # "none" => w.sess.pushing
      /\ w.req["finish"].phase # "none" => w.sess.finish = "asked"
      /\ w.req["drop"].phase # "none" => w.sess.drop = "asked"
  BY <1>1, SessionRequests
<1>8. ClientInvariant(asked) /\ Calms(w, asked)
  BY <1>1, <1>3, <1>5, <1>6, <1>7, SessOK DEF SessAs
<1>9. asked.pc[Session] = "open"
  BY <1>1, <1>4
<1> HIDE DEF asked
<1>10. CASE w' = asked
  BY <1>8, <1>10, CalmIsSound
<1>11. CASE w' = AbortFinish(asked, killed)
  <2>1. ClientInvariant(w') /\ Calms(asked, w')
    BY <1>8, <1>9, <1>11, AbortFinishOK
  <2> QED BY <1>8, <2>1, CalmsTwice, CalmIsSound
<1>12. CASE /\ ~w.sess.closed
            /\ LET aborted == AbortSession(CloseSession(asked), killed) IN
               w' = IF aborted.req["push"].phase = "sent" THEN TerminateSession(aborted, killed)
                    ELSE [aborted EXCEPT !.sess.cancel = "tail"]
  <2> DEFINE closed == CloseSession(asked)
             aborted == AbortSession(closed, killed)
  <2>1. /\ ClientInvariant(closed) /\ StreamsOnly(asked, closed) /\ Calms(asked, closed)
        /\ closed.sess.closed /\ closed.sess.finish = asked.sess.finish
    BY <1>8, <1>9, CloseSessionOK
  <2> HIDE DEF closed
  <2>2. closed.pc[Session] = "open" /\ closed.sess.finish = "none"
    <3>1. w.sess.finish = "none"
      BY <1>1, <1>12 DEF ClientInvariant, SessionSound, Sessions
    <3> QED BY <1>3, <1>4, <1>9, <2>1, <3>1 DEF StreamsOnly
  <2>3. /\ ClientInvariant(aborted) /\ Calms(closed, aborted)
        /\ aborted.sess.closed = closed.sess.closed /\ aborted.sess.queued = 0
        /\ aborted.sess.finish = closed.sess.finish
        /\ aborted.req["push"].phase = "sent" => aborted.req["push"].asked
    BY <2>1, <2>2, AbortSessionOK
  <2>4. w' = IF aborted.req["push"].phase = "sent" THEN TerminateSession(aborted, killed)
             ELSE [aborted EXCEPT !.sess = [aborted.sess EXCEPT !.cancel = "tail"]]
    BY <1>12 DEF closed
  <2> HIDE DEF aborted
  <2>5. aborted.pc[Session] = "open"
    BY <2>2, <2>3 DEF Calms
  <2>6. Calms(w, aborted)
    <3>1. Calms(w, closed)
      BY <1>8, <2>1, CalmsTwice
    <3> QED BY <2>3, <3>1, CalmsTwice
  <2>7. CASE aborted.req["push"].phase = "sent"
    <3>1. ClientInvariant(w') /\ Calms(aborted, w')
      BY <2>3, <2>4, <2>5, <2>7, TerminateSessionOK
    <3> QED BY <2>6, <3>1, CalmsTwice, CalmIsSound
  <2>8. CASE aborted.req["push"].phase # "sent"
    <3> DEFINE tail == [aborted.sess EXCEPT !.cancel = "tail"]
    <3>1. w' = [aborted EXCEPT !.sess = tail]
      BY <2>4, <2>8
    <3>2. /\ aborted.sess \in Sessions /\ aborted \in States
          /\ aborted.req["push"].phase # "none" => aborted.sess.pushing
          /\ aborted.req["finish"].phase # "none" => aborted.sess.finish = "asked"
          /\ aborted.req["drop"].phase # "none" => aborted.sess.drop = "asked"
      BY <2>3, <2>5, SessionRequests DEF ClientInvariant
    <3>3. SessAs(tail, aborted.sess) /\ tail.finish = aborted.sess.finish
          /\ tail.drop = aborted.sess.drop /\ tail.cancel = "tail"
      BY <3>2 DEF Sessions, SessAs
    <3> HIDE DEF tail
    <3>4. w'.sess = tail /\ w'.pc = aborted.pc /\ w'.req = aborted.req
      BY <3>1, <3>2 DEF States
    <3>5. Risk(w') <=> Risk(aborted)
      BY <3>3, <3>4 DEF Risk, Active, SessAs
    <3>6. SessionSound(w')
      BY <2>1, <2>2, <2>3, <2>5, <3>3, <3>4, <3>5 DEF ClientInvariant, SessionSound, SessAs
    <3>7. ClientInvariant(w') /\ Calms(aborted, w')
      BY <2>3, <2>5, <3>1, <3>2, <3>3, <3>5, <3>6, SessOK DEF SessAs
    <3> QED BY <2>6, <3>7, CalmsTwice, CalmIsSound
  <2> QED BY <2>7, <2>8
<1> QED BY <1>2, <1>10, <1>11, <1>12

\* A cancel() that waited for the pushes.
LEMMA CancelProceedsSound ==
  ASSUME ClientInvariant(w), CancelProceeds
  PROVE  Sound(w, w')
<1> DEFINE sess == [w.sess EXCEPT !.cancel = "over"]
           over == [w EXCEPT !.sess = sess]
<1>1. /\ w.pc[Session] = "open" /\ w.sess \in Sessions /\ w \in States /\ w.sess.cancel = "tail"
      /\ w.req["push"].phase # "none" => w.sess.pushing
      /\ w.req["finish"].phase # "none" => w.sess.finish = "asked"
      /\ w.req["drop"].phase # "none" => w.sess.drop = "asked"
  BY SessionIsOpen DEF CancelProceeds, NoSession
<1>2. w' = IF w.sess.failed THEN over ELSE DropThenRelease(over)
  BY DEF CancelProceeds
<1>3. SessAs(sess, w.sess) /\ sess.finish = w.sess.finish /\ sess.drop = w.sess.drop
      /\ sess.cancel = "over"
  BY <1>1 DEF Sessions, SessAs
<1> HIDE DEF sess
<1>4. over.sess = sess /\ over.pc = w.pc /\ over.req = w.req
  BY <1>1 DEF States
<1>5. w.sess.queued = 0 /\ ~w.sess.pushing /\ w.sess.closed /\ w.sess.finish = "none"
  <2>1. w.sess.queued \in Nat
    BY <1>1 DEF Sessions
  <2> QED BY <1>1, <2>1 DEF CancelProceeds, Pending, ClientInvariant, SessionSound
<1>6. ~Risk(over)
  <2>1. w.req["push"].phase = "none" /\ w.req["finish"].phase = "none"
    BY <1>1, <1>5
  <2>2. over.req = w.req /\ over.sess.queued = 0 /\ over.sess.closed /\ over.sess.finish = "none"
    BY <1>3, <1>4, <1>5 DEF SessAs
  <2> HIDE DEF over
  <2> QED BY <2>1, <2>2 DEF Risk, Active
<1>7. SessionSound(over)
  BY <1>1, <1>3, <1>4, <1>5, <1>6 DEF SessionSound, SessAs
<1>8. ClientInvariant(over) /\ Calms(w, over)
  BY <1>1, <1>3, <1>6, <1>7, SessOK DEF SessAs
<1>9. over.pc[Session] = "open"
  BY <1>1, <1>4
<1> HIDE DEF over
<1>10. CASE w.sess.failed
  BY <1>2, <1>8, <1>10, CalmIsSound
<1>11. CASE ~w.sess.failed
  <2>1. ClientInvariant(w') /\ Calms(over, w')
    BY <1>2, <1>6, <1>8, <1>9, <1>11, DropThenReleaseOK
  <2> QED BY <1>8, <2>1, CalmsTwice, CalmIsSound
<1> QED BY <1>10, <1>11

\* The session is opened by its worker: from now on what it may send is covered by its lease.
Opens(s, t, g) ==
  /\ t.lock = s.lock /\ t.chain = s.chain /\ t.gen = s.gen /\ t.process = s.process
  /\ t.lastExited = s.lastExited /\ t.term = s.term /\ t.retired = s.retired
  /\ t.closing = s.closing /\ t.alive = s.alive /\ t.job = s.job
  /\ t.pc = [s.pc EXCEPT ![Session] = "open"] /\ t.req = [s.req EXCEPT !["push"] = NoRequest]
  /\ t.sess = [NoSession EXCEPT !.gen = g]
  /\ t.leases = [s.leases EXCEPT ![g] = @ \cup {Session}]

\* A session that is opened keeps the invariant: what it may read for is covered by
\* the lease its caller took.
LEMMA OpensOK ==
  ASSUME NEW s, ClientInvariant(s), s.pc[Session] = "opening", s.req["push"].phase = "done",
         s.req["push"].captured = s.gen, s.process, NEW t \in States, Opens(s, t, s.gen)
  PROVE  ClientInvariant(t)
<1> DEFINE g == s.gen
<1>1. /\ s \in States /\ s.gen \in Generations /\ s.sess = NoSession /\ Session \in Holders
      /\ Session \in Users /\ "push" \in Slots /\ "push" \notin Transcribers
      /\ Session \notin Transcribers /\ Session \notin Mutators /\ Session \notin Verifiers
      /\ "push" \notin Verifiers /\ "push" \notin Mutators
  <2>1. s \in States /\ s.gen \in 0..MaxGeneration /\ s.lastExited \in 0..MaxGeneration
        /\ s.lastExited < s.gen
    BY DEF ClientInvariant, States, ProcessesKnown
  <2>2. s.gen \in Generations
    BY <2>1, BoundsAssumption DEF Generations
  <2>3. s.sess = NoSession
    BY DEF ClientInvariant, SessionSound
  <2> QED BY <2>1, <2>2, <2>3, CallersAssumption, DistinctAssumption DEF Users, Slots
<1>2. /\ \A c \in Holders : t.pc[c] = IF c = Session THEN "open" ELSE s.pc[c]
      /\ \A slot \in Slots : t.req[slot] = IF slot = "push" THEN NoRequest ELSE s.req[slot]
      /\ \A h \in Generations : \A user :
           user \in t.leases[h] <=> user \in s.leases[h] \/ (h = g /\ user = Session)
  <2>1. s.pc \in [Holders -> Pcs] /\ s.req \in [Slots -> Requested]
        /\ s.leases \in [Generations -> SUBSET Users]
    BY <1>1 DEF States
  <2>2. \A c \in Holders : t.pc[c] = IF c = Session THEN "open" ELSE s.pc[c]
    BY <1>1, <2>1 DEF Opens
  <2>3. \A slot \in Slots : t.req[slot] = IF slot = "push" THEN NoRequest ELSE s.req[slot]
    BY <1>1, <2>1 DEF Opens
  <2>4. t.leases = [s.leases EXCEPT ![g] = s.leases[g] \cup {Session}]
    BY DEF Opens
  <2>5. ASSUME NEW h \in Generations, NEW user
        PROVE  user \in t.leases[h] <=> user \in s.leases[h] \/ (h = g /\ user = Session)
    <3>1. CASE h = g
      <4>1. t.leases[h] = s.leases[h] \cup {Session}
        BY <2>1, <2>4, <3>1
      <4> QED BY <3>1, <4>1
    <3>2. CASE h # g
      <4>1. t.leases[h] = s.leases[h]
        BY <2>1, <2>4, <3>2
      <4> QED BY <3>2, <4>1
    <3> QED BY <3>1, <3>2
  <2> QED BY <2>2, <2>3, <2>5
<1>3. /\ t.sess.gen = g /\ ~t.sess.closed /\ ~t.sess.failed /\ t.sess.finish = "none"
      /\ t.sess.cancel = "none" /\ t.sess.drop = "none" /\ ~t.sess.pushing /\ t.sess.queued = 0
  BY DEF Opens, NoSession
<1>4. NoRequest.phase = "none"
  BY DEF NoRequest
<1>5. LockOK(t.lock) /\ CallersHold(t)
  <2>1. Lined(s.lock) \subseteq Holders /\ Session \notin Lined(s.lock) /\ LockOK(s.lock)
    BY LinedAreHolders DEF ClientInvariant, CallersHold
  <2> QED BY <1>1, <1>2, <2>1 DEF Opens, ClientInvariant, CallersHold, PcsOf
<1>6. ProcessesKnown(t) /\ TerminationIsCurrent(t)
  BY DEF Opens, ClientInvariant, ProcessesKnown, TerminationIsCurrent
<1>7. RequestsOwned(t)
  <2> SUFFICES ASSUME NEW slot \in Slots, t.req[slot].phase # "none" PROVE Owned(t, slot)
    BY DEF RequestsOwned
  <2>1. slot # "push" /\ t.req[slot] = s.req[slot] /\ Owned(s, slot)
    BY <1>2, <1>4 DEF ClientInvariant, RequestsOwned
  <2>2. slot \notin {"finish", "drop"}
    BY <1>1, <2>1 DEF Owned, NoSession
  <2>3. slot \in Transcribers \cup Verifiers \cup Mutators => slot \in Holders /\ slot # Session
    BY CallersAssumption, DistinctAssumption
  <2> QED BY <1>2, <2>1, <2>2, <2>3 DEF Owned, Opens, Closing
<1>8. JobIsSent(t)
  <2> SUFFICES ASSUME NEW h \in Generations, s.alive[h], h = s.gen, s.term.gen # h, s.job[h] # NoSlot
               PROVE  t.req[s.job[h]].phase = "sent" /\ t.req[s.job[h]].gen = h
    BY DEF JobIsSent, Opens
  <2>1. s.req[s.job[h]].phase = "sent" /\ s.req[s.job[h]].gen = h
    BY DEF ClientInvariant, JobIsSent
  <2>2. s.job[h] \in Slots
    BY <1>1 DEF States
  <2> QED BY <1>2, <2>1, <2>2
<1>9. SessionStays(t)
  <2>1. s.req["finish"].phase = "none" /\ s.req["drop"].phase = "none"
    BY <1>1 DEF ClientInvariant, RequestsOwned, Owned, NoSession, Slots
  <2>2. t.req["push"].phase = "none" /\ t.req["finish"].phase = "none" /\ t.req["drop"].phase = "none"
    BY <1>2, <1>4, <2>1 DEF Slots
  <2>3. t.sess.gen \in 1..t.gen
    BY <1>1, <1>3, BoundsAssumption DEF Generations, Opens
  <2> QED BY <2>2, <2>3 DEF SessionStays
<1>10. ChainSound(t)
  <2>1. s.chain \in Seq(Slots) /\ t.chain = s.chain /\ \A i \in DOMAIN s.chain : s.chain[i] \in Slots
    BY <1>1, ElementOfSeq, LenProperties DEF States, Opens
  <2>2. \A i \in DOMAIN s.chain : s.chain[i] # "push"
    BY DEF ClientInvariant, ChainSound
  <2> QED BY <1>2, <1>4, <2>1, <2>2 DEF ClientInvariant, ChainSound
<1>11. CancelsOwned(t)
  BY <1>1, <1>2, <1>4 DEF Opens, ClientInvariant, CancelsOwned, Closing, States, Terminations
<1>12. SessionSound(t)
  BY <1>2, <1>1, <1>3 DEF SessionSound
<1>13. SessionCovered(t)
  BY DEF Opens, ClientInvariant, CallersHold, SessionCovered
<1>14. LeasesOwed(t)
  <2>1. \A h \in Generations : Session \notin s.leases[h]
    BY DEF ClientInvariant, LeasesOwed
  <2>2. s.leases \in [Generations -> SUBSET Users]
    BY <1>1 DEF States
  <2>3. \A h \in Generations : \A user \in Users :
          user \in t.leases[h] <=> user \in s.leases[h] \/ (h = g /\ user = Session)
    BY <1>2
  <2>4. \A h \in Generations : t.leases[h] \subseteq Users
    BY DEF States
  <2>5. \A h, k \in Generations : t.leases[h] \cap t.leases[k] # {} => h = k
    BY <2>1, <2>3, <2>4 DEF ClientInvariant, LeasesOwed
  <2>6. \A h \in Generations : \A u \in Transcribers : u \in t.leases[h] => t.pc[u] = "over"
    BY <1>1, <1>2, <2>3, CallersAssumption DEF ClientInvariant, LeasesOwed, Users
  <2>7. \A h \in Generations : Session \in t.leases[h] => t.pc[Session] = "open" /\ h = t.sess.gen
    BY <1>1, <1>2, <1>3, <2>1, <2>3
  <2> QED BY <2>5, <2>6, <2>7 DEF LeasesOwed
<1>15. JobsCovered(t)
  <2> SUFFICES ASSUME NEW h \in Generations, s.alive[h]
               PROVE  /\ s.job[h] \in Transcribers =>
                           /\ s.job[h] \in s.lock.readers
                           /\ \/ t.pc[s.job[h]] = "working" /\ t.req[s.job[h]].captured = h
                              \/ t.pc[s.job[h]] = "over" /\ s.job[h] \in t.leases[h]
                      /\ s.job[h] \in {"push", "finish"} =>
                           Session \in s.lock.readers /\ t.pc[Session] = "open" /\ t.sess.gen = h
                      /\ s.job[h] \in Verifiers => t.pc[s.job[h]] \in {"checking", "over"}
    BY DEF JobsCovered, Opens
  <2>1. CASE s.job[h] \in Transcribers
    <3>1. s.job[h] \in Holders /\ s.job[h] # Session /\ s.job[h] \in Slots /\ s.job[h] # "push"
          /\ s.job[h] \notin {"push", "finish"}
      BY <1>1, <2>1, CallersAssumption, DistinctAssumption DEF Slots
    <3>2. /\ s.job[h] \in s.lock.readers
          /\ \/ s.pc[s.job[h]] = "working" /\ s.req[s.job[h]].captured = h
             \/ s.pc[s.job[h]] = "over" /\ s.job[h] \in s.leases[h]
      BY <2>1 DEF ClientInvariant, JobsCovered
    <3>3. t.pc[s.job[h]] = s.pc[s.job[h]] /\ t.req[s.job[h]] = s.req[s.job[h]]
      BY <1>2, <3>1
    <3>4. s.job[h] \notin Verifiers
      BY <2>1, DistinctAssumption
    <3> QED BY <1>2, <3>1, <3>2, <3>3, <3>4
  <2>2. CASE s.job[h] \in {"push", "finish"}
    <3>1. Session \in s.lock.readers /\ s.req["push"].captured = h
      BY <2>2 DEF ClientInvariant, JobsCovered
    <3>2. s.job[h] \notin Transcribers \cup Verifiers
      BY <2>2, DistinctAssumption, CallersAssumption
    <3> QED BY <1>1, <1>2, <1>3, <3>1, <3>2
  <2>3. CASE s.job[h] \in Verifiers
    <3>1. s.pc[s.job[h]] \in {"checking", "over"}
      BY <2>3 DEF ClientInvariant, JobsCovered
    <3>2. t.pc[s.job[h]] = s.pc[s.job[h]]
      BY <1>2, <2>3, CallersAssumption, DistinctAssumption
    <3>3. s.job[h] \notin Transcribers \cup {"push", "finish"}
      BY <2>3, CallersAssumption, DistinctAssumption
    <3> QED BY <3>1, <3>2, <3>3
  <2> QED BY <2>1, <2>2, <2>3
<1>16. NoneLeaked(t)
  <2> SUFFICES ASSUME NEW user \in t.lock.readers, t.pc[user] = "over"
               PROVE  \E h \in Generations : user \in t.leases[h] /\ (h \in t.retired \/ t.term.gen = h)
    BY DEF NoneLeaked
  <2>1. user \in s.lock.readers /\ user \in Holders
    BY DEF Opens, ClientInvariant, LockOK, Locks
  <2>2. s.pc[user] = "over"
    BY <1>2, <2>1
  <2>3. PICK h \in Generations : user \in s.leases[h] /\ (h \in s.retired \/ s.term.gen = h)
    BY <2>1, <2>2 DEF ClientInvariant, NoneLeaked
  <2> QED BY <1>2, <2>3 DEF Opens
<1> QED BY <1>5, <1>6, <1>7, <1>8, <1>9, <1>10, <1>11, <1>12, <1>13, <1>14, <1>15, <1>16
        DEF ClientInvariant

\* The session is open, or it could not be opened.
LEMMA SessionOpenedSound ==
  ASSUME ClientInvariant(w), SessionOpened
  PROVE  Sound(w, w')
<1> DEFINE g == w.req["push"].captured
<1>1. /\ w \in States /\ w.pc[Session] = "opening" /\ w.req["push"].phase = "done"
      /\ Session \in Holders /\ Session \in Users /\ Session \notin Mutators /\ "push" \in Slots
      /\ "over" \in PcsOf(Session) /\ "open" \in PcsOf(Session)
      /\ w.leases \in [Generations -> SUBSET Users] /\ w.sess = NoSession /\ w.sess \in Sessions
  BY CallersAssumption, DistinctAssumption
     DEF SessionOpened, ClientInvariant, States, Users, Slots, PcsOf, SessionSound
<1>2. CASE w.req["push"].result = "ok" /\ IsOperational(w, g)
  <2> DEFINE went == Go(w, Session, "open")
             sess == [NoSession EXCEPT !.gen = g]
             leases == [w.leases EXCEPT ![g] = @ \cup {Session}]
             req == [w.req EXCEPT !["push"] = NoRequest]
  <2>1. went \in States /\ Goes(w, went, Session, "open") /\ went.sess = NoSession
    <3>1. went \in States /\ Goes(w, went, Session, "open")
      BY <1>1, GoOK
    <3> QED BY <1>1, <3>1 DEF Goes, MovesOnly
  <2>2. w' = [went EXCEPT !.req = req, !.sess = sess, !.leases = leases]
    <3>1. w' = [Go([w EXCEPT !.req["push"] = NoRequest], Session, "open")
                  EXCEPT !.sess.gen = g, !.leases[g] = @ \cup {Session}]
      BY <1>2 DEF SessionOpened
    <3> DEFINE took == Go([w EXCEPT !.req["push"] = NoRequest], Session, "open")
    <3>2. took = [went EXCEPT !.req = req] /\ took.sess = NoSession /\ took.leases = w.leases
      BY <1>1 DEF Go, States
    <3>3. w' = [took EXCEPT !.sess = [took.sess EXCEPT !.gen = g],
                            !.leases = [took.leases EXCEPT ![g] = @ \cup {Session}]]
      BY <3>1
    <3> HIDE DEF took, went
    <3> QED BY <2>1, <3>2, <3>3 DEF States
  <2>3. g = w.gen /\ w.process /\ g \in 0..MaxGeneration
    BY <1>1, <1>2 DEF IsOperational, IsCurrent, States
  <2>4. sess \in Sessions
    BY <1>1, <2>3 DEF NoSession, Sessions
  <2>5. leases \in [Generations -> SUBSET Users] /\ req \in [Slots -> Requested]
    BY <1>1, NoRequestTyped DEF States
  <2> HIDE DEF went, leases, req, sess
  <2>6. /\ w' \in States /\ w'.sess = sess /\ w'.leases = leases /\ w'.req = req
        /\ w'.pc = went.pc /\ w'.lock = went.lock /\ w'.chain = went.chain
        /\ w'.gen = went.gen /\ w'.process = went.process /\ w'.lastExited = went.lastExited
        /\ w'.term = went.term /\ w'.retired = went.retired /\ w'.closing = went.closing
        /\ w'.alive = went.alive /\ w'.job = went.job
    BY <2>1, <2>2, <2>4, <2>5 DEF States
  <2>7. Opens(w, w', g)
    BY <2>1, <2>6 DEF Opens, Goes, MovesOnly, leases, req, sess
  <2>8. ClientInvariant(w')
    BY <1>1, <2>3, <2>6, <2>7, OpensOK
  <2>9. Unnoticed(w, w', Session)
    BY <2>1, <2>6 DEF Goes, MovesOnly, Unnoticed
  <2> QED BY <1>1, <2>8, <2>9, MoveIsSteady, SteadyIsSound
<1>3. CASE ~(w.req["push"].result = "ok" /\ IsOperational(w, g))
  <2> DEFINE over == [Go(w, Session, "over") EXCEPT !.req["push"] = NoRequest]
  <2>1. w' = ReleaseUseWhenSafe(over, g, Session)
    <3>1. Go([w EXCEPT !.req["push"] = NoRequest], Session, "over") = over
      BY <1>1 DEF Go, States
    <3> QED BY <1>3, <3>1 DEF SessionOpened
  <2>2. over \in States /\ Leaves(w, over, Session, "push")
    <3> DEFINE went == Go(w, Session, "over")
    <3>1. went \in States /\ Goes(w, went, Session, "over")
      BY <1>1, GoOK
    <3>2. over = [went EXCEPT !.req = [went.req EXCEPT !["push"] = NoRequest]]
      BY <3>1 DEF States
    <3> HIDE DEF went, over
    <3>3. [went.req EXCEPT !["push"] = NoRequest] \in [Slots -> Requested]
      BY <3>1, NoRequestTyped DEF States
    <3> QED BY <3>1, <3>2, <3>3 DEF States, Goes, MovesOnly, Leaves
  <2> HIDE DEF over
  <2>3. ClientInvariant(w') /\ Unnoticed(w, w', Session)
    BY <1>1, <2>1, <2>2, UseOverOK
  <2> QED BY <1>1, <2>3, MoveIsSteady, SteadyIsSound
<1> QED BY <1>2, <1>3

-----------------------------------------------------------------------------
(* Requests *)

\* After a process was started nothing is begun but what ends work.
LEMMA QuietThenCalm ==
  ASSUME NEW s, NEW t, NEW u, t.pc = s.pc, Quiet(s, t), Calms(t, u), Closing(s) => Calms(s, t)
  PROVE  Steady(s, u)
<1>1. u.pc = s.pc
  BY DEF Calms
<1>2. Quiet(s, u)
  BY DEF Quiet, Calms
<1>3. Closing(s) => \A g \in Generations : u.alive[g] => s.alive[g]
  BY DEF Calms
<1> QED BY <1>1, <1>2, <1>3 DEF Steady

\* A request that waits is refused, aborted or out of time.
LEMMA FailWaitingOK ==
  ASSUME NEW s, ClientInvariant(s), NEW slot \in Slots, NEW result \in Results,
         Waiting(s, slot), result = "cancelled" => Closing(s)
  PROVE  ClientInvariant(Fail(s, slot, result)) /\ Calms(s, Fail(s, slot, result))
<1>1. Active(s, slot) /\ s.req[slot].phase # "sent"
  BY DEF Active, Waiting
<1>2. \A g \in Generations :
        s.alive[g] /\ g = s.gen /\ s.process /\ s.term.gen # g => s.job[g] # slot
  BY <1>1, WaitingIsNoJob
<1>3. ClientInvariant(Fail(s, slot, result)) /\ AsksOnly(s, Fail(s, slot, result))
  BY <1>1, <1>2, FailOK
<1> QED BY <1>3, AskingCalms

\* A request enters: it is refused, or it has a process and a place in the chain.
LEMMA EnterSound ==
  ASSUME ClientInvariant(w), NEW slot \in Slots, Enter(slot)
  PROVE  Sound(w, w')
<1>1. w.req[slot].phase = "term" /\ Waiting(w, slot)
  BY DEF Enter, Waiting
<1>2. CASE Refused(w, w.req[slot]) # "no"
  <2>1. w' = Fail(w, slot, Refused(w, w.req[slot]))
    BY <1>2 DEF Enter
  <2>2. /\ Refused(w, w.req[slot]) \in Results
        /\ Refused(w, w.req[slot]) = "cancelled" => Closing(w)
    BY <1>2 DEF Refused, Results
  <2>3. ClientInvariant(w') /\ Calms(w, w')
    BY <1>1, <2>1, <2>2, FailWaitingOK
  <2> QED BY <2>3, CalmIsSound
<1>3. ASSUME Refused(w, w.req[slot]) = "no",
             NEW cleaned \in SUBSET w.retired, NEW spawned \in BOOLEAN,
             w.process => spawned, ~w.process /\ spawned => w.gen < MaxGeneration,
             w' = IF spawned THEN InLine(EnsureProcess(w, cleaned, spawned), slot)
                  ELSE Fail(ScheduleRestart(EnsureProcess(w, cleaned, spawned)), slot, "crashed")
      PROVE  Sound(w, w')
  <2> DEFINE ensured == EnsureProcess(w, cleaned, spawned)
  <2>1. /\ Closing(w) => w.process
        /\ w.req[slot].expected > 0 => w.gen = w.req[slot].expected /\ w.process
    BY <1>3 DEF Refused
  <2>2. /\ ClientInvariant(ensured) /\ ensured.req = w.req /\ ensured.closing = w.closing
        /\ w.process \/ spawned => ensured.process
    BY <1>3, EnsureProcessOK
  <2>3. ensured.pc = w.pc /\ Quiet(w, ensured) /\ (w.process => Calms(w, ensured) /\ ensured.gen = w.gen)
    BY <1>3, EnsureProcessQuiet
  <2>4. w' = IF spawned THEN InLine(ensured, slot)
             ELSE Fail(ScheduleRestart(ensured), slot, "crashed")
    BY <1>3
  <2> HIDE DEF ensured
  <2>5. CASE spawned
    <3>1. ensured.process /\ ensured.req[slot].phase = "term"
          /\ (ensured.req[slot].expected > 0 => ensured.req[slot].expected = ensured.gen)
      BY <1>1, <2>1, <2>2, <2>3, <2>5
    <3>2. ClientInvariant(w') /\ AsksOnly(ensured, w')
      BY <2>2, <2>4, <2>5, <3>1, QueueOK
    <3>3. Calms(ensured, w')
      BY <3>2, AskingCalms
    <3>4. Steady(w, w')
      BY <2>1, <2>3, <3>3, QuietThenCalm
    <3> QED BY <3>2, <3>4, SteadyIsSound
  <2>6. CASE ~spawned
    <3> DEFINE t == ScheduleRestart(ensured)
    <3>1. ClientInvariant(t) /\ FlagsOnly(ensured, t) /\ Calms(ensured, t)
      BY <2>2, ScheduleRestartOK, RestartCalms
    <3> HIDE DEF t
    <3>2. Waiting(t, slot) /\ "crashed" \in Results
      BY <1>1, <2>2, <3>1 DEF FlagsOnly, Waiting, Results
    <3>3. w' = Fail(t, slot, "crashed")
      BY <2>4, <2>6 DEF t
    <3>4. ClientInvariant(w') /\ Calms(t, w')
      BY <3>1, <3>2, <3>3, FailWaitingOK
    <3>5. Calms(ensured, w')
      BY <3>1, <3>4, CalmsTwice
    <3>6. Steady(w, w')
      BY <2>1, <2>3, <3>5, QuietThenCalm
    <3> QED BY <3>4, <3>6, SteadyIsSound
  <2> QED BY <2>5, <2>6
<1>4. CASE Refused(w, w.req[slot]) = "no"
  <2>1. PICK cleaned \in SUBSET w.retired, spawned \in BOOLEAN :
          /\ w.process => spawned
          /\ ~w.process /\ spawned => w.gen < MaxGeneration
          /\ LET ensured == EnsureProcess(w, cleaned, spawned) IN
             IF spawned THEN w' = InLine(ensured, slot)
             ELSE w' = Fail(ScheduleRestart(ensured), slot, "crashed")
    BY <1>4, Zenon DEF Enter, InLine
  <2> QED BY <1>3, <1>4, <2>1
<1> QED BY <1>2, <1>4

\* What the chain's head is, in a chain that has the slot.
LEMMA HeadIsFirst ==
  ASSUME NEW s, ClientInvariant(s), NEW slot \in Slots, s.req[slot].phase = "turn",
         Head(s.chain) = slot
  PROVE  s.chain[1] = slot
<1>1. s.chain \in Seq(Slots)
  BY DEF ClientInvariant, States
<1>2. \E i \in DOMAIN s.chain : s.chain[i] = slot
  BY DEF ClientInvariant, ChainSound
<1> QED BY <1>1, <1>2

\* The turn of a request: it fails, or goes to the worker.
LEMMA DispatchSound ==
  ASSUME ClientInvariant(w), NEW slot \in Slots, Dispatch(slot)
  PROVE  Sound(w, w')
<1> DEFINE g == w.req[slot].gen
           sent == [w EXCEPT !.req[slot].phase = "sent", !.req[slot].captured = g]
<1>1. w.req[slot].phase = "turn" /\ Waiting(w, slot) /\ w.chain[1] = slot /\ w \in States
      /\ w.req \in [Slots -> Requested]
  BY HeadIsFirst DEF Dispatch, Waiting, ClientInvariant, States
<1>2. \/ w' = Fail(w, slot, "cancelled") /\ Closing(w)
      \/ w' = Fail(w, slot, "crashed")
      \/ /\ w.process /\ w.gen = g /\ w.term.gen = 0
         /\ \/ w' = [sent EXCEPT !.job[g] = IF w.alive[g] THEN slot ELSE NoSlot]
            \/ /\ ~w.alive[g]
               /\ \E killed \in BOOLEAN :
                    w' = BeginTermination(sent, g, "unavailable", TRUE, {}, killed)
  BY DEF Dispatch
<1>3. CASE w' = Fail(w, slot, "cancelled") /\ Closing(w)
  <2>1. ClientInvariant(w') /\ Calms(w, w')
    BY <1>1, <1>3, FailWaitingOK DEF Results
  <2> QED BY <2>1, CalmIsSound
<1>4. CASE w' = Fail(w, slot, "crashed")
  <2>1. ClientInvariant(w') /\ Calms(w, w')
    BY <1>1, <1>4, FailWaitingOK DEF Results
  <2> QED BY <2>1, CalmIsSound
<1>5. ASSUME w.process, w.gen = g, w.term.gen = 0
      PROVE  /\ sent \in States /\ SendsOnly(w, sent) /\ sent.job = w.job
             /\ g \in Generations /\ w.job[g] = NoSlot
             /\ \A other \in Slots \ {slot} : sent.req[other] = w.req[other]
             /\ sent.req[slot].phase = "sent" /\ sent.req[slot].captured = g
             /\ sent.req[slot].gen = g /\ sent.req[slot].result = w.req[slot].result
             /\ sent.req[slot].asked = w.req[slot].asked
  <2> DEFINE asks == Posted(w.req[slot], g)
  <2>1. g \in 0..MaxGeneration /\ w.req[slot] \in Requested
    BY <1>1 DEF Requested
  <2>2. /\ asks \in Requested /\ asks.phase = "sent" /\ asks.gen = g
        /\ asks.captured = g /\ asks.result = w.req[slot].result /\ asks.asked = w.req[slot].asked
    BY <2>1, SentTyped
  <2>3. sent = [w EXCEPT !.req = [w.req EXCEPT ![slot] = asks]]
    BY <1>1 DEF States, Posted
  <2> HIDE DEF asks, sent
  <2>4. [w.req EXCEPT ![slot] = asks] \in [Slots -> Requested]
    BY <1>1, <2>2
  <2>5. sent \in States /\ SendsOnly(w, sent) /\ sent.job = w.job
        /\ sent.req = [w.req EXCEPT ![slot] = asks]
    BY <1>1, <2>3, <2>4 DEF States, SendsOnly
  <2>6. sent.req[slot] = asks /\ \A other \in Slots \ {slot} : sent.req[other] = w.req[other]
    BY <1>1, <2>5
  <2>7. w.job[w.gen] = NoSlot
    BY <1>1, <1>5, WorkerIsFree
  <2>8. g \in Generations
    <3>1. w.gen \in 0..MaxGeneration /\ w.lastExited \in 0..MaxGeneration /\ w.lastExited < w.gen
      BY <1>5 DEF ClientInvariant, States, ProcessesKnown
    <3> QED BY <1>5, <3>1, BoundsAssumption DEF Generations
  <2> QED BY <1>5, <2>2, <2>5, <2>6, <2>7, <2>8
<1>6. CASE /\ w.process /\ w.gen = g /\ w.term.gen = 0
           /\ w' = [sent EXCEPT !.job[g] = IF w.alive[g] THEN slot ELSE NoSlot]
  <2> DEFINE job == [w.job EXCEPT ![g] = IF w.alive[g] THEN slot ELSE NoSlot]
  <2>1. w.job \in [Generations -> Slots \cup {NoSlot}] /\ job \in [Generations -> Slots \cup {NoSlot}]
    BY <1>1 DEF States
  <2>2. w' = [sent EXCEPT !.job = job]
    BY <1>5, <1>6
  <2>3. \A h \in Generations : job[h] = IF h = g THEN (IF w.alive[g] THEN slot ELSE NoSlot) ELSE w.job[h]
    BY <1>5, <1>6, <2>1
  <2>4. /\ sent \in States /\ SendsOnly(w, sent) /\ g \in Generations /\ w.job[g] = NoSlot
        /\ \A other \in Slots \ {slot} : sent.req[other] = w.req[other]
        /\ sent.req[slot].phase = "sent" /\ sent.req[slot].captured = g
        /\ sent.req[slot].gen = g /\ sent.req[slot].result = w.req[slot].result
        /\ sent.req[slot].asked = w.req[slot].asked
    BY <1>5, <1>6
  <2> HIDE DEF sent, job
  <2>5. w' \in States /\ SendsOnly(sent, w') /\ w'.req = sent.req /\ w'.job = job
    BY <2>1, <2>2, <2>4 DEF States, SendsOnly
  <2>6. SendsOnly(w, w')
    BY <2>4, <2>5 DEF SendsOnly
  <2>7. ClientInvariant(w')
    <3>1. /\ w'.req[slot].phase = "sent" /\ w'.req[slot].captured = w.gen
          /\ w'.req[slot].gen = w.gen /\ w'.req[slot].result = w.req[slot].result
          /\ w'.req[slot].asked = w.req[slot].asked
          /\ \A other \in Slots \ {slot} : w'.req[other] = w.req[other]
      BY <1>6, <2>4, <2>5
    <3>2. /\ \A h \in Generations \ {w.gen} : w'.job[h] = w.job[h]
          /\ w'.job[w.gen] = IF w.alive[w.gen] THEN slot ELSE NoSlot
      BY <1>6, <2>3, <2>4, <2>5
    <3>3. w.process /\ w.term.gen = 0 /\ w.req[slot].gen = w.gen
      BY <1>6
    <3> QED BY <1>1, <2>5, <2>6, <3>1, <3>2, <3>3, SendOK
  <2>8. Changes(w') = Changes(w)
    BY <2>6 DEF Changes, SendsOnly
  <2>9. CASE w.alive[g] /\ ReadsFor(w, slot)
    <3>1. OwnerOf(slot) \in w.lock.readers
      BY <1>1, <1>6, <2>9, AskerHolds DEF ReadsFor
    <3>2. w.lock.writer = Nobody
      BY <3>1 DEF ClientInvariant, LockOK
    <3>3. Changes(w) = {}
      BY <3>2, NobodyAssumption, CallersAssumption DEF Changes, ClientInvariant, CallersHold
    <3>4. NoSlot \notin Transcribers \cup Verifiers \cup {"push", "finish"}
      BY DistinctAssumption, CallersAssumption DEF NoSlot
    <3>5. g \notin Reads(w)
      BY <2>4, <3>4 DEF Reads, ReadsFor
    <3>6. \A h \in Generations : w'.alive[h] = w.alive[h] /\ w'.job[h] = IF h = g THEN slot ELSE w.job[h]
      BY <2>3, <2>5, <2>6, <2>9 DEF SendsOnly
    <3>7. Reads(w') = Reads(w) \cup {g}
      BY <2>4, <2>6, <2>9, <3>6 DEF Reads, ReadsFor, SendsOnly
    <3> QED BY <2>4, <2>6, <2>7, <2>8, <3>3, <3>5, <3>7 DEF Sound, UseStep, SendsOnly
  <2>10. CASE ~(w.alive[g] /\ ReadsFor(w, slot))
    <3>1. \A h \in Generations : w'.alive[h] = w.alive[h] /\ (h # g => w'.job[h] = w.job[h])
      BY <2>3, <2>5, <2>6 DEF SendsOnly
    <3>2. w'.job[g] = IF w.alive[g] THEN slot ELSE NoSlot
      BY <2>3, <2>4, <2>5
    <3>3. g \notin Reads(w')
      <4>1. NoSlot \notin Transcribers \cup Verifiers \cup {"push", "finish"}
        BY DistinctAssumption, CallersAssumption DEF NoSlot
      <4> QED BY <2>4, <2>6, <2>10, <3>1, <3>2, <4>1 DEF Reads, ReadsFor, SendsOnly
    <3>4. Reads(w') \subseteq Reads(w)
      BY <2>6, <3>1, <3>3 DEF Reads, ReadsFor, SendsOnly
    <3> QED BY <2>6, <2>7, <2>8, <3>4 DEF Sound, UseStep, SendsOnly
  <2> QED BY <2>9, <2>10
<1>7. ASSUME w.process, w.gen = g, w.term.gen = 0, ~w.alive[g], NEW killed \in BOOLEAN,
             w' = BeginTermination(sent, g, "unavailable", TRUE, {}, killed)
      PROVE  Sound(w, w')
  <2>1. /\ sent \in States /\ SendsOnly(w, sent) /\ g \in Generations /\ sent.job = w.job
        /\ w.job[g] = NoSlot
        /\ \A other \in Slots \ {slot} : sent.req[other] = w.req[other]
        /\ sent.req[slot].phase = "sent" /\ sent.req[slot].captured = g
        /\ sent.req[slot].gen = g /\ sent.req[slot].result = w.req[slot].result
        /\ sent.req[slot].asked = w.req[slot].asked
    BY <1>5, <1>7
  <2> HIDE DEF sent
  <2>2. ClientInvariant(sent)
    BY <1>1, <1>7, <2>1, SendOK
  <2>3. Calms(w, sent)
    BY <2>1 DEF SendsOnly, Calms
  <2>4. "unavailable" \in Causes /\ TRUE \in BOOLEAN /\ {} \in SUBSET Slots
    BY DEF Causes
  <2>5. ClientInvariant(w') /\ Calms(sent, w')
    BY <1>7, <2>2, <2>4, BeginTerminationOK, BeginTerminationCalms
  <2> QED BY <2>3, <2>5, CalmsTwice, CalmIsSound
<1> QED BY <1>2, <1>3, <1>4, <1>6, <1>7

\* The caller of a request aborts it.
LEMMA CallerAbortsSound ==
  ASSUME ClientInvariant(w), NEW slot \in Slots, CallerAborts(slot)
  PROVE  Sound(w, w')
<1>1. PICK killed \in BOOLEAN : w' = Abort(w, slot, killed)
  BY DEF CallerAborts
<1>2. ClientInvariant(w')
  BY <1>1, AbortOK
<1>3. Calms(w, w')
  BY <1>1, AbortCalms
<1> QED BY <1>2, <1>3, CalmIsSound

\* A request is out of time.
LEMMA TimesOutSound ==
  ASSUME ClientInvariant(w), NEW slot \in Slots, TimesOut(slot)
  PROVE  Sound(w, w')
<1>1. CASE Waiting(w, slot) /\ w' = Fail(w, slot, "crashed")
  <2>1. ClientInvariant(w') /\ Calms(w, w')
    BY <1>1, FailWaitingOK DEF Results
  <2> QED BY <2>1, CalmIsSound
<1>2. ASSUME NEW killed \in BOOLEAN,
             w' = BeginTermination(w, w.req[slot].gen, "health", TRUE, {slot}, killed)
      PROVE  Sound(w, w')
  <2>1. "health" \in Causes /\ TRUE \in BOOLEAN /\ {slot} \in SUBSET Slots
    BY DEF Causes
  <2>2. ClientInvariant(w')
    BY <1>2, <2>1, BeginTerminationOK
  <2>3. Calms(w, w')
    BY <1>2, BeginTerminationCalms
  <2> QED BY <2>2, <2>3, CalmIsSound
<1> QED BY <1>1, <1>2 DEF TimesOut

-----------------------------------------------------------------------------
(* The worker *)

\* Flags that are only set may be set: nothing else notices.
LEMMA FlagsAreCalm ==
  ASSUME NEW s, ClientInvariant(s), NEW t \in States, FlagsOnly(s, t)
  PROVE  ClientInvariant(t) /\ Calms(s, t)
<1>1. ClientInvariant(t)
  BY FlagsOK
<1>2. Calms(s, t)
  BY DEF FlagsOnly, Calms
<1> QED BY <1>1, <1>2

\* A process that is killed stops its work.
LEMMA KilledCalms ==
  ASSUME NEW s, ClientInvariant(s), NEW g \in Generations
  PROVE  ClientInvariant(Killed(s, g)) /\ Calms(s, Killed(s, g))
<1> DEFINE t == Killed(s, g)
<1>1. /\ ClientInvariant(t) /\ EndsOnly(s, t)
      /\ \A h \in Generations : t.alive[h] <=> s.alive[h] /\ h # g
      /\ \A h \in Generations : t.job[h] = IF h = g THEN NoSlot ELSE s.job[h]
  BY KilledOK
<1> HIDE DEF t
<1>2. Calms(s, t)
  BY <1>1 DEF EndsOnly, Calms
<1> QED BY <1>1, <1>2 DEF t

\* The worker answers, wrongly or not at all; what a worker that is being ended says is not heard.
LEMMA WorkerAnswersSound ==
  ASSUME ClientInvariant(w), NEW g \in Generations, WorkerAnswers(g)
  PROVE  Sound(w, w')
<1> DEFINE slot == w.job[g]
           idle == [w EXCEPT !.job[g] = NoSlot]
<1>1. /\ ClientInvariant(idle) /\ SendsOnly(w, idle) /\ idle.req = w.req /\ Calms(w, idle)
      /\ idle.job[g] = NoSlot
  BY IdleOK
<1>2. slot \in Slots /\ NoSlot \notin Slots
  <2>1. w.job \in [Generations -> Slots \cup {NoSlot}]
    BY DEF ClientInvariant, States
  <2> QED BY <2>1, DistinctAssumption, CallersAssumption DEF WorkerAnswers, Slots, NoSlot
<1>3. \/ w' = idle
      \/ \E killed \in BOOLEAN : w' = BeginTermination(idle, g, "unavailable", TRUE, {}, killed)
      \/ \E killed \in BOOLEAN : w' = BeginTermination(idle, g, "protocol", TRUE, {}, killed)
      \/ /\ Heard(w, g) /\ w.req[slot].phase = "sent"
         /\ \E answer \in {"ok", "error"} : w' = Fail(idle, slot, answer)
  <2>1. CASE ~Heard(w, g)
    BY <2>1 DEF WorkerAnswers
  <2>2. CASE Heard(w, g)
    <3>1. PICK answer \in Answers :
            CASE answer = "crashed" -> \E killed \in BOOLEAN :
                   w' = BeginTermination(idle, g, "unavailable", TRUE, {}, killed)
              [] answer = "wrong" -> \E killed \in BOOLEAN :
                   w' = BeginTermination(idle, g, "protocol", TRUE, {}, killed)
              [] OTHER ->
                   w' = IF w.req[slot].phase = "sent" /\ w.req[slot].gen = g
                        THEN Fail(idle, slot, answer) ELSE idle
      BY <2>2 DEF WorkerAnswers
    <3> HIDE DEF idle, slot
    <3>2. CASE answer = "crashed"
      BY <3>1, <3>2
    <3>3. CASE answer = "wrong"
      BY <3>1, <3>3
    <3>4. CASE answer \in {"ok", "error"}
      BY <2>2, <3>1, <3>4
    <3> QED BY <3>2, <3>3, <3>4 DEF Answers
  <2> QED BY <2>1, <2>2
<1> HIDE DEF idle
<1>4. ASSUME NEW kind \in {"unavailable", "protocol"}, NEW killed \in BOOLEAN,
             w' = BeginTermination(idle, g, kind, TRUE, {}, killed)
      PROVE  Sound(w, w')
  <2>1. kind \in Causes /\ TRUE \in BOOLEAN /\ {} \in SUBSET Slots /\ kind \notin {"cancel", "close"}
    BY DEF Causes
  <2>2. ClientInvariant(w')
    BY <1>1, <1>4, <2>1, BeginTerminationOK
  <2>3. Calms(idle, w')
    BY <1>1, <1>4, BeginTerminationCalms
  <2> QED BY <1>1, <2>2, <2>3, CalmsTwice, CalmIsSound
<1>5. ASSUME Heard(w, g), w.req[slot].phase = "sent", NEW answer \in {"ok", "error"},
             w' = Fail(idle, slot, answer)
      PROVE  Sound(w, w')
  <2>1. Active(idle, slot) /\ answer \in Results /\ answer # "cancelled"
    BY <1>1, <1>5 DEF Active, Results
  <2>2. \A h \in Generations :
          idle.alive[h] /\ h = idle.gen /\ idle.process /\ idle.term.gen # h => idle.job[h] # slot
    BY <1>1, <1>2, <1>5 DEF Heard, SendsOnly
  <2>3. ClientInvariant(w') /\ AsksOnly(idle, w')
    BY <1>1, <1>2, <1>5, <2>1, <2>2, FailOK
  <2> QED BY <1>1, <2>3, AskingCalms, CalmsTwice, CalmIsSound
<1> QED BY <1>1, <1>3, <1>4, <1>5, CalmIsSound

\* A worker dies.
LEMMA WorkerDiesSound ==
  ASSUME ClientInvariant(w), NEW g \in Generations, WorkerDies(g)
  PROVE  Sound(w, w')
<1>1. w' = Killed(w, g)
  BY DEF WorkerDies
<1>2. ClientInvariant(w') /\ Calms(w, w')
  BY <1>1, KilledCalms
<1> QED BY <1>2, CalmIsSound

\* The exit of a worker is reported.
LEMMA ExitReportedSound ==
  ASSUME ClientInvariant(w), NEW g \in Generations, ExitReported(g)
  PROVE  Sound(w, w')
<1>1. ~w.alive[g] /\ (g \in w.retired \/ (g = w.gen /\ w.process)) /\ w' = HandleExit(w, g, TRUE)
  BY DEF ExitReported
<1>2. ClientInvariant(w') /\ Calms(w, w')
  BY <1>1, HandleExitOK
<1> QED BY <1>2, CalmIsSound

\* The worker is healthy, or was for long enough.
LEMMA HealthSound ==
  ASSUME ClientInvariant(w), HealthConfirmed \/ StabilityReset
  PROVE  Sound(w, w')
<1>1. w' \in States /\ FlagsOnly(w, w')
  <2>1. CASE HealthConfirmed
    BY <2>1 DEF HealthConfirmed, ClientInvariant, States, FlagsOnly, Closing
  <2>2. CASE StabilityReset
    <3>1. 0 \in 0..MaxRestarts /\ w' = [w EXCEPT !.restarts = 0]
      BY <2>2, BoundsAssumption DEF StabilityReset
    <3> QED BY <3>1 DEF ClientInvariant, States, FlagsOnly, Closing
  <2> QED BY <2>1, <2>2
<1>2. ClientInvariant(w') /\ Calms(w, w')
  BY <1>1, FlagsAreCalm
<1> QED BY <1>2, CalmIsSound

\* The worker did not say in time that it is healthy.
LEMMA HealthTimesOutSound ==
  ASSUME ClientInvariant(w), HealthTimesOut
  PROVE  Sound(w, w')
<1> DEFINE t == [w EXCEPT !.health = "none"]
<1>1. t \in States /\ FlagsOnly(w, t)
  BY DEF ClientInvariant, States, FlagsOnly, Closing
<1>2. PICK killed \in BOOLEAN : w' = BeginTermination(t, w.gen, "health", TRUE, {}, killed)
  BY DEF HealthTimesOut
<1> HIDE DEF t
<1>3. ClientInvariant(t) /\ Calms(w, t)
  BY <1>1, FlagsAreCalm
<1>4. "health" \in Causes /\ TRUE \in BOOLEAN /\ {} \in SUBSET Slots
  BY DEF Causes
<1>5. ClientInvariant(w')
  BY <1>2, <1>3, <1>4, BeginTerminationOK
<1>6. Calms(t, w')
  BY <1>2, <1>3, BeginTerminationCalms
<1> QED BY <1>3, <1>5, <1>6, CalmsTwice, CalmIsSound

\* The timer of a restart fires.
LEMMA RestartFiresSound ==
  ASSUME ClientInvariant(w), RestartFires
  PROVE  Sound(w, w')
<1> DEFINE fired == [w EXCEPT !.restartDue = FALSE]
<1>1. /\ fired \in States /\ FlagsOnly(w, fired) /\ fired.retired = w.retired
      /\ fired.closing = w.closing
  BY DEF ClientInvariant, States, FlagsOnly, Closing
<1>2. \/ w' = fired
      \/ /\ ~Closing(w)
         /\ \E cleaned \in SUBSET w.retired, spawned \in BOOLEAN :
              /\ spawned => w.gen < MaxGeneration
              /\ w' = IF spawned THEN EnsureProcess(fired, cleaned, spawned)
                      ELSE ScheduleRestart(EnsureProcess(fired, cleaned, spawned))
  BY Zenon DEF RestartFires
<1> HIDE DEF fired
<1>3. ClientInvariant(fired) /\ Calms(w, fired)
  BY <1>1, FlagsAreCalm
<1>4. CASE w' = fired
  BY <1>3, <1>4, CalmIsSound
<1>5. ASSUME ~Closing(w), NEW cleaned \in SUBSET w.retired, NEW spawned \in BOOLEAN,
             spawned => w.gen < MaxGeneration,
             w' = IF spawned THEN EnsureProcess(fired, cleaned, spawned)
                  ELSE ScheduleRestart(EnsureProcess(fired, cleaned, spawned))
      PROVE  Sound(w, w')
  <2> DEFINE ensured == EnsureProcess(fired, cleaned, spawned)
  <2>1. cleaned \in SUBSET fired.retired /\ (~fired.process /\ spawned => fired.gen < MaxGeneration)
    BY <1>1, <1>5 DEF FlagsOnly
  <2>2. ClientInvariant(ensured)
    BY <1>3, <2>1, EnsureProcessOK
  <2>3. ensured.pc = fired.pc /\ Quiet(fired, ensured)
    BY <1>3, <2>1, EnsureProcessQuiet
  <2>4. w' = IF spawned THEN ensured ELSE ScheduleRestart(ensured)
    BY <1>5
  <2> HIDE DEF ensured
  <2>5. ClientInvariant(w') /\ Calms(ensured, w')
    <3>1. CASE spawned
      BY <2>2, <2>4, <3>1 DEF Calms
    <3>2. CASE ~spawned
      BY <2>2, <2>4, <3>2, ScheduleRestartOK, RestartCalms
    <3> QED BY <3>1, <3>2
  <2>6. w'.pc = w.pc /\ Quiet(w, w')
    BY <1>3, <2>3, <2>5 DEF Calms, Quiet
  <2>7. Steady(w, w')
    BY <1>5, <2>6 DEF Steady
  <2> QED BY <2>5, <2>7, SteadyIsSound
<1> QED BY <1>2, <1>4, <1>5

-----------------------------------------------------------------------------
(* The timers of a termination *)

\* A termination goes on with another timer, and knows of its own kills only.
GoesOnKilling(term, was, killed) ==
  /\ term \in Terminations /\ term.gen = was.gen /\ term.kind = was.kind
  /\ term.cancelled = was.cancelled /\ (term.confirmed => killed \/ was.confirmed)

\* Its process is killed by it or not.
LEMMA GoesOnKillingSound ==
  ASSUME ClientInvariant(w), w.term.gen # 0, NEW killed \in BOOLEAN,
         NEW term, GoesOnKilling(term, w.term, killed),
         w' = IF killed THEN Killed([w EXCEPT !.term = term], w.term.gen)
              ELSE [w EXCEPT !.term = term]
  PROVE  Sound(w, w')
<1>1. /\ w \in States /\ w.process /\ w.term.gen = w.gen /\ w.gen \in Generations
      /\ w.term.confirmed => ~w.alive[w.gen]
  <2>1. w \in States /\ w.process /\ w.term.gen = w.gen /\ w.gen \in 0..MaxGeneration
        /\ (w.term.confirmed => ~w.alive[w.gen])
    BY DEF ClientInvariant, TerminationIsCurrent, States
  <2> QED BY <2>1, BoundsAssumption DEF Generations
<1> DEFINE s == IF killed THEN Killed(w, w.gen) ELSE w
<1>2. /\ ClientInvariant(s) /\ Calms(w, s) /\ EndsOnly(w, s) /\ s.term = w.term
      /\ term.confirmed => ~s.alive[w.gen]
  <2>1. CASE killed
    BY <1>1, <2>1, KilledCalms, KilledOK
  <2>2. CASE ~killed
    BY <1>1, <2>2 DEF Calms, EndsOnly, GoesOnKilling
  <2> QED BY <2>1, <2>2
<1>3. w' = [s EXCEPT !.term = term]
  BY <1>1 DEF Killed, States
<1> HIDE DEF s
<1>4. /\ s.process /\ term.gen = s.gen /\ term \in Terminations
      /\ term.confirmed => ~s.alive[s.gen]
      /\ term.kind = "cancel" => \A slot \in term.cancelled : s.req[slot].phase = "sent" => s.req[slot].asked
      /\ term.kind = "close" => Closing(s)
  BY <1>1, <1>2 DEF EndsOnly, GoesOnKilling, ClientInvariant, CancelsOwned
<1>5. ClientInvariant(w') /\ EndsOnly(s, w') /\ w'.alive = s.alive /\ w'.job = s.job
  <2> DEFINE t == [s EXCEPT !.term = term]
  <2>1. ClientInvariant(s) /\ s.process /\ term.gen = s.gen /\ term \in Terminations
    BY <1>2, <1>4
  <2>2. ClientInvariant(t) /\ EndsOnly(s, t) /\ t.alive = s.alive /\ t.job = s.job
    BY <1>4, <2>1, TerminationOK
  <2> QED BY <1>3, <2>2
<1>6. Calms(s, w')
  BY <1>5 DEF EndsOnly, Calms
<1> QED BY <1>2, <1>5, <1>6, CalmsTwice, CalmIsSound

\* The first attempts to kill.
LEMMA KillsSound ==
  ASSUME ClientInvariant(w), ForceKill \/ RetryKill
  PROVE  Sound(w, w')
<1>1. w.term.gen # 0 /\ w.term \in Terminations /\ w \in States
  BY DEF ForceKill, RetryKill, ClientInvariant, TerminationIsCurrent, States
<1>2. \E timer \in {"retry", "deadline"}, killed, confirmed \in BOOLEAN :
        LET term == [w.term EXCEPT !.timer = timer, !.confirmed = confirmed]
        IN  /\ confirmed => killed \/ w.term.confirmed
            /\ w' = IF killed THEN Killed([w EXCEPT !.term = term], w.term.gen)
                    ELSE [w EXCEPT !.term = term]
  <2> DEFINE made(timer, confirmed) == [w EXCEPT !.term = [w.term EXCEPT !.timer = timer, !.confirmed = confirmed]]
  <2>1. ASSUME NEW timer \in {"retry", "deadline"}
        PROVE  /\ [w EXCEPT !.term.timer = timer] = made(timer, w.term.confirmed)
               /\ [[w EXCEPT !.term.timer = timer] EXCEPT !.term.confirmed = TRUE] = made(timer, TRUE)
    <3> DEFINE armed == [w.term EXCEPT !.timer = timer]
    <3>1. armed = [w.term EXCEPT !.timer = timer, !.confirmed = w.term.confirmed]
      BY <1>1 DEF Terminations
    <3>2. [w EXCEPT !.term.timer = timer] = [w EXCEPT !.term = armed]
      OBVIOUS
    <3>3. [w EXCEPT !.term = armed].term = armed
      BY <1>1 DEF States
    <3>4. [[w EXCEPT !.term = armed] EXCEPT !.term.confirmed = TRUE]
            = [w EXCEPT !.term = [armed EXCEPT !.confirmed = TRUE]]
      BY <1>1, <3>3 DEF States
    <3> QED BY <3>1, <3>2, <3>4
  <2>2. w.term.confirmed \in BOOLEAN
    BY <1>1 DEF Terminations
  <2>3. CASE ForceKill
    <3>1. \/ w' = made("retry", w.term.confirmed)
          \/ w' = Killed(made("retry", w.term.confirmed), w.term.gen)
          \/ w' = Killed(made("retry", TRUE), w.term.gen)
      BY <2>1, <2>3, Zenon DEF ForceKill
    <3> QED BY <2>2, <3>1
  <2>4. CASE RetryKill
    <3>1. \/ w' = made("deadline", w.term.confirmed)
          \/ w' = Killed(made("deadline", TRUE), w.term.gen)
      BY <2>1, <2>4, Zenon DEF RetryKill
    <3> QED BY <2>2, <3>1
  <2> QED BY <2>3, <2>4
<1>3. PICK timer \in {"retry", "deadline"}, killed \in BOOLEAN, confirmed \in BOOLEAN :
        LET term == [w.term EXCEPT !.timer = timer, !.confirmed = confirmed]
        IN  /\ confirmed => killed \/ w.term.confirmed
            /\ w' = IF killed THEN Killed([w EXCEPT !.term = term], w.term.gen)
                    ELSE [w EXCEPT !.term = term]
  BY <1>2
<1> DEFINE term == [w.term EXCEPT !.timer = timer, !.confirmed = confirmed]
<1>4. GoesOnKilling(term, w.term, killed)
  <2> DEFINE armed == [w.term EXCEPT !.timer = timer]
  <2>1. /\ armed \in Terminations /\ armed.gen = w.term.gen /\ armed.kind = w.term.kind
        /\ armed.cancelled = w.term.cancelled
    BY <1>1 DEF Terminations
  <2>2. term = [armed EXCEPT !.confirmed = confirmed]
    OBVIOUS
  <2> HIDE DEF term, armed
  <2>3. /\ term \in Terminations /\ term.gen = armed.gen /\ term.kind = armed.kind
        /\ term.cancelled = armed.cancelled /\ term.confirmed = confirmed
    BY <2>1, <2>2 DEF Terminations
  <2> QED BY <1>3, <2>1, <2>3 DEF GoesOnKilling
<1>5. w' = IF killed THEN Killed([w EXCEPT !.term = term], w.term.gen) ELSE [w EXCEPT !.term = term]
  BY <1>3
<1> HIDE DEF term
<1> QED BY <1>1, <1>4, <1>5, GoesOnKillingSound

\* The last timer of a termination: its generation is given up, or quarantined.
LEMMA DeadlineSound ==
  ASSUME ClientInvariant(w), Deadline
  PROVE  Sound(w, w')
<1>1. /\ w.term.gen = w.gen /\ w.process /\ w.gen \in Generations
      /\ w.term.confirmed \in BOOLEAN /\ (w.term.confirmed => ~w.alive[w.gen])
  <2>1. /\ w.term.gen # 0 /\ w.term.gen = w.gen /\ w.process /\ w.gen \in 0..MaxGeneration
        /\ w.term.confirmed \in BOOLEAN /\ (w.term.confirmed => ~w.alive[w.gen])
    BY DEF Deadline, ClientInvariant, TerminationIsCurrent, States, Terminations
  <2> QED BY <2>1, BoundsAssumption DEF Generations
<1>2. CASE w.term.confirmed
  <2>1. w' = HandleExit(w, w.gen, TRUE)
    BY <1>1, <1>2 DEF Deadline
  <2>2. ClientInvariant(w') /\ Calms(w, w')
    BY <1>1, <1>2, <2>1, HandleExitOK
  <2> QED BY <2>2, CalmIsSound
<1>3. CASE ~w.term.confirmed
  <2>1. w' = HandleExit([w EXCEPT !.retired = @ \cup {w.gen}], w.gen, FALSE)
    BY <1>1, <1>3 DEF Deadline
  <2>2. ClientInvariant(w') /\ Calms(w, w')
    BY <1>1, <2>1, QuarantineOK
  <2> QED BY <2>2, CalmIsSound
<1> QED BY <1>1, <1>2, <1>3

-----------------------------------------------------------------------------
(* close() *)

\* close() goes on to its next stage.
LEMMA StageOK ==
  ASSUME NEW s, ClientInvariant(s), NEW stage \in {"grace", "ending", "closed"}
  PROVE  ClientInvariant([s EXCEPT !.closing = stage]) /\ Calms(s, [s EXCEPT !.closing = stage])
<1> DEFINE t == [s EXCEPT !.closing = stage]
<1>1. t \in States /\ FlagsOnly(s, t)
  BY DEF ClientInvariant, States, FlagsOnly, Closing
<1> HIDE DEF t
<1>2. ClientInvariant(t) /\ Calms(s, t)
  BY <1>1, FlagsAreCalm
<1> QED BY <1>2 DEF t

\* close() ends the worker, whatever it does.
LEMMA EndingOK ==
  ASSUME NEW s, ClientInvariant(s), Closing(s), NEW g, NEW killed \in BOOLEAN
  PROVE  LET t == [BeginTermination(s, g, "close", FALSE, {}, killed) EXCEPT !.closing = "ending"]
         IN  ClientInvariant(t) /\ Calms(s, t)
<1> DEFINE ended == BeginTermination(s, g, "close", FALSE, {}, killed)
           t == [ended EXCEPT !.closing = "ending"]
<1>1. "close" \in Causes /\ FALSE \in BOOLEAN /\ {} \in SUBSET Slots
  BY DEF Causes
<1>2. ClientInvariant(ended)
  BY <1>1, BeginTerminationOK
<1>3. Calms(s, ended)
  BY BeginTerminationCalms
<1> HIDE DEF ended
<1>4. ClientInvariant(t) /\ Calms(ended, t)
  BY <1>2, StageOK
<1> QED BY <1>3, <1>4, CalmsTwice DEF ended

\* close() is asked for.
LEMMA CloseAskedSound ==
  ASSUME ClientInvariant(w), CloseAsked
  PROVE  Sound(w, w')
<1> DEFINE t == [w EXCEPT !.closing = "grace", !.restartDue = FALSE, !.health = "none"]
<1>1. t \in States /\ FlagsOnly(w, t) /\ t.closing = "grace" /\ t.retired = w.retired
  BY DEF ClientInvariant, States, FlagsOnly, Closing
<1>2. PICK cleaned \in SUBSET w.retired :
        LET closing == CleanRetired(t, cleaned) IN
        IF ~w.process THEN w' = [closing EXCEPT !.closing = "closed"]
        ELSE IF w.term.gen # 0
        THEN w' = [BeginTermination(closing, w.gen, "close", FALSE, {}, FALSE)
                     EXCEPT !.closing = "ending"]
        ELSE w' = BeginRequest(closing, "shutdown", "shutdown", w.gen)
  BY Zenon DEF CloseAsked
<1> DEFINE closing == CleanRetired(t, cleaned)
<1>3. \/ w' = [closing EXCEPT !.closing = "closed"]
      \/ w' = [BeginTermination(closing, w.gen, "close", FALSE, {}, FALSE) EXCEPT !.closing = "ending"]
      \/ w' = BeginRequest(closing, "shutdown", "shutdown", w.gen)
  BY <1>2, Zenon
<1> HIDE DEF t
<1>4. ClientInvariant(t) /\ Calms(w, t)
  BY <1>1, FlagsAreCalm
<1>5. cleaned \in SUBSET t.retired
  BY <1>1
<1>6. ClientInvariant(closing) /\ CleansOnly(t, closing)
  BY <1>4, <1>5, CleanRetiredOK
<1>7. Calms(w, closing)
  <2>1. Calms(t, closing)
    BY <1>4, <1>5, CleanRetiredCalms
  <2> QED BY <1>4, <2>1, CalmsTwice
<1>8. closing.closing = "grace" /\ closing.req = w.req /\ closing.gen = w.gen /\ Closing(closing)
  BY <1>1, <1>6 DEF CleansOnly, FlagsOnly, Closing
<1> HIDE DEF closing
<1>9. CASE w' = [closing EXCEPT !.closing = "closed"]
  <2>1. ClientInvariant(w') /\ Calms(closing, w')
    BY <1>6, <1>9, StageOK
  <2> QED BY <1>7, <2>1, CalmsTwice, CalmIsSound
<1>10. CASE w' = [BeginTermination(closing, w.gen, "close", FALSE, {}, FALSE) EXCEPT !.closing = "ending"]
  <2>1. ClientInvariant(w') /\ Calms(closing, w')
    BY <1>6, <1>8, <1>10, EndingOK
  <2> QED BY <1>7, <2>1, CalmsTwice, CalmIsSound
<1>11. CASE w' = BeginRequest(closing, "shutdown", "shutdown", w.gen)
  <2>1. "shutdown" \in Slots /\ "shutdown" \in Kinds
        /\ "shutdown" \notin Transcribers \cup Verifiers \cup Mutators
    BY DistinctAssumption, CallersAssumption DEF Slots, Kinds
  <2>2. w.req["shutdown"].phase = "none"
    BY <2>1 DEF CloseAsked, ClientInvariant, RequestsOwned, Owned, Closing
  <2>3. closing.req["shutdown"].phase = "none" /\ Owned(closing, "shutdown")
    BY <1>8, <2>1, <2>2 DEF Owned
  <2>4. w.gen \in 0..MaxGeneration
    BY DEF ClientInvariant, States
  <2>5. "shutdown" \notin {"push", "finish", "drop"}
    OBVIOUS
  <2>6. ClientInvariant(w') /\ AsksOnly(closing, w')
    BY <1>6, <1>11, <2>1, <2>3, <2>4, <2>5, BeginRequestOK
  <2> QED BY <1>7, <2>6, AskingCalms, CalmsTwice, CalmIsSound
<1> QED BY <1>3, <1>9, <1>10, <1>11

\* The grace of close() is over.
LEMMA CloseGraceSound ==
  ASSUME ClientInvariant(w), CloseGrace
  PROVE  Sound(w, w')
<1>1. Closing(w)
  BY DEF CloseGrace, Closing
<1>2. CASE w' = [w EXCEPT !.closing = "closed"]
  <2>1. ClientInvariant(w') /\ Calms(w, w')
    BY <1>2, StageOK
  <2> QED BY <2>1, CalmIsSound
<1>3. ASSUME NEW killed \in BOOLEAN,
             w' = [BeginTermination(w, w.gen, "close", FALSE, {}, killed) EXCEPT !.closing = "ending"]
      PROVE  Sound(w, w')
  <2>1. ClientInvariant(w') /\ Calms(w, w')
    BY <1>1, <1>3, EndingOK
  <2> QED BY <2>1, CalmIsSound
<1> QED BY <1>2, <1>3 DEF CloseGrace

\* close() is done.
LEMMA CloseEndsSound ==
  ASSUME ClientInvariant(w), CloseEnds
  PROVE  Sound(w, w')
<1>1. w' = [w EXCEPT !.closing = "closed"]
  BY DEF CloseEnds
<1>2. ClientInvariant(w') /\ Calms(w, w')
  BY <1>1, StageOK
<1> QED BY <1>2, CalmIsSound

-----------------------------------------------------------------------------
(* The specification *)

\* The lease before anybody asks for it.
LEMMA FreeLockOK ==
  LockOK(FreeLock)
<1>1. <<>> \in Seq(Waiters) /\ DOMAIN FreeLock.queue = {}
  BY DEF FreeLock
<1>2. FreeLock \in Locks
  BY <1>1 DEF FreeLock, Locks
<1>3. Lined(FreeLock) = {} /\ FreeLock.readers = {} /\ FreeLock.writer = Nobody
  BY <1>1 DEF Lined, FreeLock
<1> QED BY <1>1, <1>2, <1>3 DEF LockOK

\* Before anything happens.
LEMMA InitKeeps ==
  Init => ClientInvariant(w)
<1> SUFFICES ASSUME NEW cast \in Casts, w = StartWith(cast) PROVE ClientInvariant(w)
  BY DEF Init
<1>1. /\ w.cast = cast /\ w.lock = FreeLock
      /\ w.pc = [c \in Holders |-> IF c \in cast THEN "idle" ELSE "over"]
      /\ w.expected = [c \in Holders |-> 0] /\ w.sess = NoSession
      /\ w.req = [slot \in Slots |-> NoRequest] /\ w.chain = <<>>
      /\ w.gen = 0 /\ w.process = FALSE /\ w.lastExited = 0 /\ w.health = "none"
      /\ w.restarts = 0 /\ w.restartDue = FALSE /\ w.term = NoTermination /\ w.retired = {}
      /\ w.leases = [g \in Generations |-> {}] /\ w.closing = "no"
      /\ w.alive = [g \in Generations |-> FALSE] /\ w.job = [g \in Generations |-> NoSlot]
  BY DEF StartWith
<1>2. LockOK(FreeLock) /\ FreeLock.readers = {} /\ FreeLock.writer = Nobody /\ FreeLock.queue = <<>>
  BY FreeLockOK DEF FreeLock
<1>3. NoSession \in Sessions /\ NoTermination \in Terminations /\ 0 \in 0..MaxGeneration /\ 0 \in 0..MaxRestarts
  BY BoundsAssumption DEF NoSession, NoTermination, Sessions, Terminations
<1>4. \A c \in Holders : w.pc[c] \in {"idle", "over"}
  BY <1>1
<1>5. w \in States
  <2>1. w.cast \in SUBSET (Holders \cup {"push", "close", "health"})
    BY <1>1, CallersAssumption
  <2>2. w.pc \in [Holders -> Pcs]
    BY <1>1 DEF Pcs, PcsOf
  <2>3. w.req \in [Slots -> Requested] /\ w.lock \in Locks
    BY <1>1, <1>2, NoRequestTyped DEF LockOK
  <2>4. /\ w.leases \in [Generations -> SUBSET Users] /\ w.alive \in [Generations -> BOOLEAN]
        /\ w.job \in [Generations -> Slots \cup {NoSlot}] /\ w.expected \in [Holders -> 0..MaxGeneration]
        /\ w.chain \in Seq(Slots)
    BY <1>1, <1>3
  <2>5. w = [cast |-> w.cast, lock |-> w.lock, pc |-> w.pc, expected |-> w.expected,
             sess |-> w.sess, req |-> w.req, chain |-> w.chain, gen |-> w.gen,
             process |-> w.process, lastExited |-> w.lastExited, health |-> w.health,
             restarts |-> w.restarts, restartDue |-> w.restartDue, term |-> w.term,
             retired |-> w.retired, leases |-> w.leases, closing |-> w.closing,
             alive |-> w.alive, job |-> w.job]
    BY DEF StartWith
  <2> QED BY <1>1, <1>3, <2>1, <2>2, <2>3, <2>4, <2>5 DEF States
<1>6. Lined(w.lock) = {} /\ Session \in Holders
  BY <1>1, <1>2, CallersAssumption DEF Lined
<1>7. CallersHold(w)
  <2>1. \A c \in Holders : w.pc[c] \in PcsOf(c)
    BY <1>4 DEF PcsOf
  <2>2. Nobody \notin Holders
    BY NobodyAssumption
  <2> QED BY <1>1, <1>2, <1>4, <1>6, <2>1, <2>2, CallersAssumption DEF CallersHold
<1>8. ProcessesKnown(w) /\ TerminationIsCurrent(w)
  BY <1>1 DEF ProcessesKnown, TerminationIsCurrent, NoTermination
<1>9. \A slot \in Slots : w.req[slot].phase = "none"
  BY <1>1, NoRequestTyped
<1>10. RequestsOwned(w) /\ JobIsSent(w) /\ ChainSound(w) /\ CancelsOwned(w)
  BY <1>1, <1>9 DEF RequestsOwned, JobIsSent, ChainSound, CancelsOwned, NoTermination
<1>11. w.pc[Session] # "open"
  BY <1>4, <1>6
<1>12. SessionStays(w) /\ SessionCovered(w) /\ SessionSound(w)
  BY <1>1, <1>11 DEF SessionStays, SessionCovered, SessionSound, NoSession
<1>13. LeasesOwed(w) /\ JobsCovered(w) /\ NoneLeaked(w)
  BY <1>1, <1>2 DEF LeasesOwed, JobsCovered, NoneLeaked
<1> QED BY <1>1, <1>2, <1>5, <1>7, <1>8, <1>10, <1>12, <1>13 DEF ClientInvariant

\* Nothing happens.
LEMMA StutterIsSound ==
  ASSUME ClientInvariant(w), UNCHANGED w
  PROVE  Sound(w, w')
<1>1. ClientInvariant(w') /\ Calms(w, w')
  BY DEF Calms
<1> QED BY <1>1, CalmIsSound

\* Every step keeps the invariant, takes a step of ModelUse or none, and starts
\* nothing under close().
LEMMA EveryStepIsSound ==
  ASSUME ClientInvariant(w), [Next]_w
  PROVE  Sound(w, w')
<1>1. CASE Callers
  <2>1. CASE \E user \in Users : StartUse(user) \/ UseGranted(user)
    BY <2>1, StartUseSound, UseGrantedSound
  <2>2. CASE \E user \in Transcribers : FinishUse(user)
    BY <2>2, FinishUseSound
  <2>3. CASE \E v \in Verifiers : StartVerification(v) \/ VerificationGranted(v) \/ FinishVerification(v)
    BY <2>3, StartVerificationSound, VerificationGrantedSound, FinishVerificationSound
  <2>4. ASSUME NEW m \in Mutators,
               \/ StartMutation(m) \/ TryMutation(m) \/ MutationGranted(m)
               \/ Unload(m) \/ Unloaded(m) \/ FilesChanged(m) \/ FinishMutation(m)
        PROVE  Sound(w, w')
    BY <2>4, StartMutationSound, TryMutationSound, MutationGrantedSound, UnloadSound,
       UnloadedSound, FilesChangedSound, FinishMutationSound
  <2>5. CASE \E caller \in Holders : AbandonWait(caller)
    BY <2>5, AbandonWaitSound
  <2> QED BY <1>1, <2>1, <2>2, <2>3, <2>4, <2>5 DEF Callers
<1>2. CASE Streaming
  <2>1. CASE SessionOpened \/ Push \/ PushTurn \/ PushSettled
    BY <2>1, SessionOpenedSound, PushSound, PushTurnSound, PushSettledSound
  <2>2. CASE DropSettled \/ TerminationSettled
    BY <2>2, DropSettledSound, TerminationSettledSound
  <2>3. CASE Finish \/ FinishProceeds \/ FinishSettled \/ FinishAborted
    BY <2>3, FinishSound, FinishProceedsSound, FinishSettledSound, FinishAbortedSound
  <2>4. CASE Cancel \/ CancelProceeds
    BY <2>4, CancelSound, CancelProceedsSound
  <2> QED BY <1>2, <2>1, <2>2, <2>3, <2>4 DEF Streaming
<1>3. CASE Requests
  BY <1>3, EnterSound, DispatchSound, CallerAbortsSound, TimesOutSound DEF Requests
<1>4. CASE Worker
  <2>1. CASE \E g \in Generations : WorkerAnswers(g) \/ WorkerDies(g) \/ ExitReported(g)
    BY <2>1, WorkerAnswersSound, WorkerDiesSound, ExitReportedSound
  <2>2. CASE HealthConfirmed \/ StabilityReset \/ HealthTimesOut \/ RestartFires
    BY <2>2, HealthSound, HealthTimesOutSound, RestartFiresSound
  <2>3. CASE ForceKill \/ RetryKill \/ Deadline
    BY <2>3, KillsSound, DeadlineSound
  <2>4. CASE CloseAsked \/ CloseGrace \/ CloseEnds
    BY <2>4, CloseAskedSound, CloseGraceSound, CloseEndsSound
  <2> QED BY <1>4, <2>1, <2>2, <2>3, <2>4 DEF Worker
<1> QED BY <1>1, <1>2, <1>3, <1>4, StutterIsSound DEF Next

\* The client keeps its invariant, whatever its callers, its worker and its timers do.
THEOREM ClientKeepsInvariant == Spec => []WhisperInvariantHolds
<1>1. Init => WhisperInvariantHolds
  BY InitKeeps DEF WhisperInvariantHolds
<1>2. WhisperInvariantHolds /\ [Next]_w => WhisperInvariantHolds'
  BY EveryStepIsSound DEF WhisperInvariantHolds, Sound
<1> QED BY <1>1, <1>2, PTL DEF Spec

\* A worker that runs a caller's request has that caller's lease, also when the
\* caller was told long ago that it is over; one that checks the files for a
\* verification has its lease as long as the verification waits.
THEOREM WorkIsCovered == Spec => []UseCoversWork
<1>1. WhisperInvariantHolds => UseCoversWork
  <2> SUFFICES ASSUME WhisperInvariantHolds, NEW g \in Reading
               PROVE  OwnerOf(w.job[g]) \in w.lock.readers
    BY DEF UseCoversWork
  <2>1. /\ g \in Generations /\ w.alive[g] /\ ReadsFor(w, w.job[g])
        /\ JobsCovered(w) /\ CallersHold(w)
    BY DEF Reading, WhisperInvariantHolds, ClientInvariant
  <2>2. CASE w.job[g] \in Transcribers
    <3>1. w.job[g] \notin {"push", "finish", "drop"}
      BY <2>2, DistinctAssumption, CallersAssumption
    <3> QED BY <2>1, <2>2, <3>1 DEF JobsCovered, OwnerOf
  <2>3. CASE w.job[g] \in {"push", "finish"}
    BY <2>1, <2>3 DEF JobsCovered, OwnerOf
  <2>4. CASE w.job[g] \in Verifiers /\ w.pc[w.job[g]] = "checking"
    <3>1. w.job[g] \notin {"push", "finish", "drop"}
      BY <2>4, DistinctAssumption, CallersAssumption
    <3> QED BY <2>1, <2>4, <3>1 DEF CallersHold, OwnerOf
  <2> QED BY <2>1, <2>2, <2>3, <2>4 DEF ReadsFor
<1> QED BY <1>1, ClientKeepsInvariant, PTL

\* The state has its type, and no process and no lease is lost sight of.
THEOREM NothingIsForgotten == Spec => []NothingForgotten
<1>1. WhisperInvariantHolds => NothingForgotten
  <2> SUFFICES ASSUME ClientInvariant(w) PROVE NothingForgotten
    BY DEF WhisperInvariantHolds
  <2>1. NoUseLeaked
    BY DEF NoUseLeaked, ClientInvariant, NoneLeaked
  <2>2. NoProcessForgotten
    BY DEF NoProcessForgotten, ClientInvariant, ProcessesKnown
  <2>3. WhisperTypeOK
    <3>1. w.lock.readers \subseteq Holders /\ w.lock.writer \in Holders \cup {Nobody}
      BY DEF ClientInvariant, LockOK, Locks
    <3>2. \A slot \in Slots : w.req[slot].phase \in Phases /\ w.req[slot].gen \in 0..MaxGeneration
      <4>1. \A slot \in Slots : w.req[slot] \in Requested
        BY DEF ClientInvariant, States
      <4> QED BY <4>1 DEF Requested
    <3>3. w.gen \in 0..MaxGeneration /\ w.lastExited \in 0..w.gen
      <4>1. w.gen \in 0..MaxGeneration /\ w.lastExited \in 0..MaxGeneration /\ w.lastExited <= w.gen
        BY DEF ClientInvariant, States, ProcessesKnown
      <4> QED BY <4>1, BoundsAssumption
    <3>4. w.restarts \in 0..MaxRestarts /\ w.retired \subseteq Generations
      BY DEF ClientInvariant, States
    <3>5. \A g \in Generations : w.leases[g] \subseteq Holders /\ w.job[g] \in Slots \cup {NoSlot}
      <4>1. \A g \in Generations : w.leases[g] \subseteq Users /\ w.job[g] \in Slots \cup {NoSlot}
        BY DEF ClientInvariant, States
      <4>2. Users \subseteq Holders
        BY CallersAssumption DEF Users
      <4> QED BY <4>1, <4>2
    <3> QED BY <3>1, <3>2, <3>3, <3>4, <3>5 DEF WhisperTypeOK
  <2> QED BY <2>1, <2>2, <2>3 DEF NothingForgotten
<1> QED BY <1>1, ClientKeepsInvariant, PTL

\* Who shares the worker with others is neither overtaken nor told of a
\* cancellation that is not its own.
THEOREM WorkerIsSharedFairly == Spec => []SharingIsFair
<1>1. WhisperInvariantHolds => SharingIsFair
  <2> SUFFICES ASSUME ClientInvariant(w) PROVE SharingIsFair
    BY DEF WhisperInvariantHolds
  <2>1. Cardinality(Sent(w)) <= 1
    <3>1. Sent(w) \subseteq {w.chain[1]}
      BY DEF Sent, ClientInvariant, ChainSound
    <3>2. Sent(w) = {} \/ Sent(w) = {w.chain[1]}
      BY <3>1
    <3>3. Cardinality({}) = 0 /\ Cardinality({w.chain[1]}) = 1
      BY FS_EmptySet, FS_Singleton
    <3> QED BY <3>2, <3>3
  <2>2. OnlyOwnCancellation
    BY DEF OnlyOwnCancellation, ClientInvariant, CancelsOwned
  <2> QED BY <2>1, <2>2 DEF SharingIsFair, OneInFlight
<1> QED BY <1>1, ClientKeepsInvariant, PTL

\* close() is the end: no worker process starts after it was asked for.
THEOREM CloseIsTheEnd == Spec => NoStartAfterClose
<1>1. WhisperInvariantHolds /\ [Next]_w =>
        [w.closing # "no" => \A g \in Generations : w'.alive[g] => w.alive[g]]_w
  BY EveryStepIsSound DEF WhisperInvariantHolds, Sound, Closing
<1> QED BY <1>1, ClientKeepsInvariant, PTL DEF Spec, NoStartAfterClose

\* The client with its lease implements ModelUse: the files of the model never
\* change while a worker reads them for a caller, were it given up, or for a
\* verification under way.
THEOREM ClientImplementsModelUse == Spec => FilesNeverChangeUnderUse
<1>1. Init => ModelFiles!Init
  <2> SUFFICES ASSUME NEW cast \in Casts, w = StartWith(cast) PROVE Reading = {} /\ Changing = {}
    BY DEF Init, ModelFiles!Init
  <2>1. Reading = {}
    BY DEF StartWith, Reading
  <2>2. Changing = {}
    BY CallersAssumption DEF StartWith, Changing
  <2> QED BY <2>1, <2>2
<1>2. WhisperInvariantHolds /\ [Next]_w => [ModelFiles!Next]_(ModelFiles!use)
  <2> SUFFICES ASSUME WhisperInvariantHolds, [Next]_w
               PROVE  ModelFiles!Next \/ UNCHANGED ModelFiles!use
    OBVIOUS
  <2>1. UseStep(w, w')
    BY EveryStepIsSound DEF WhisperInvariantHolds, Sound
  <2>2. /\ Reading = Reads(w) /\ Reading' = Reads(w')
        /\ Changing = Changes(w) /\ Changing' = Changes(w')
    BY DEF Reading, Reads, Changing, Changes
  <2>3. CASE Changing' = Changing /\ Reading' \subseteq Reading
    <3>1. CASE Reading' = Reading
      BY <2>3, <3>1 DEF ModelFiles!use
    <3>2. CASE Reading' # Reading
      <4> DEFINE ended == Reading \ Reading'
      <4>1. ended \in SUBSET Generations
        BY DEF Reading
      <4>2. ended # {} /\ ended \subseteq Reading /\ Reading' = Reading \ ended
        BY <2>3, <3>2
      <4>3. ModelFiles!EndReading(ended)
        BY <2>3, <4>2 DEF ModelFiles!EndReading
      <4> QED BY <4>1, <4>3 DEF ModelFiles!Next
    <3> QED BY <3>1, <3>2
  <2>4. ASSUME Changing' = Changing, Changing = {}, NEW g \in Generations, g \notin Reading,
               Reading' = Reading \cup {g}
        PROVE  ModelFiles!Next
    BY <2>4 DEF ModelFiles!BeginReading, ModelFiles!Next
  <2>5. ASSUME Reading' = Reading, Reading = {}, Changing = {}, NEW m \in Mutators, Changing' = {m}
        PROVE  ModelFiles!Next
    BY <2>5 DEF ModelFiles!BeginChanging, ModelFiles!Next
  <2>6. CASE Reading' = Reading /\ Changing # {} /\ Changing' = {}
    BY <2>6 DEF ModelFiles!EndChanging, ModelFiles!Next
  <2> QED BY <2>1, <2>2, <2>3, <2>4, <2>5, <2>6 DEF UseStep
<1> QED BY <1>1, <1>2, ClientKeepsInvariant, PTL DEF Spec, FilesNeverChangeUnderUse, ModelFiles!Spec
=============================================================================
