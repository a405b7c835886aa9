-------------------------- MODULE WhisperInvariant --------------------------
(***************************************************************************)
(* The inductive invariant of the worker's client.  Its parts are          *)
(* operators on a state, since an operation of the client passes through   *)
(* states of its own: each is shown to keep every part.                    *)
(***************************************************************************)
EXTENDS WhisperProperties

\* What is known of a request.
Requested ==
  [phase : Phases,
   kind : {"none", "open", "transcribe", "check", "unload", "push", "finish", "drop", "shutdown"},
   waits : 0..MaxGeneration, expected : 0..MaxGeneration, gen : 0..MaxGeneration,
   captured : 0..MaxGeneration, result : {"none", "ok", "error", "crashed", "cancelled"},
   asked : BOOLEAN]

\* What is known of the streaming session.
Sessions ==
  [gen : 0..MaxGeneration, closed : BOOLEAN, failed : BOOLEAN, aborted : BOOLEAN,
   queued : Nat, pushing : BOOLEAN, drop : {"none", "asked", "ending", "done"},
   release : {"none", "drop", "exit"}, finish : {"none", "tail", "asked", "over"},
   cancel : {"none", "tail", "over"}]

\* What is known of the termination of a process.
Terminations ==
  [gen : 0..MaxGeneration, kind : {"none", "cancel", "close", "health", "unavailable", "protocol"},
   restart : BOOLEAN, cancelled : SUBSET Slots, confirmed : BOOLEAN,
   timer : {"none", "force", "retry", "deadline"}]

\* Where a caller may be, by what it is.
PcsOf(caller) ==
  {"idle", "waiting", "over"} \cup
  (IF caller \in Transcribers THEN {"working"}
   ELSE IF caller = Session THEN {"opening", "open"}
   ELSE IF caller \in Verifiers THEN {"checking"}
   ELSE {"unload", "unloading", "files", "checking"})

\* Where any caller may be.
Pcs == UNION {PcsOf(c) : c \in Holders}

\* The states of the client by their type.
States ==
  [cast : SUBSET (Holders \cup {"push", "close", "health"}), lock : Locks, pc : [Holders -> Pcs],
   expected : [Holders -> 0..MaxGeneration], sess : Sessions, req : [Slots -> Requested],
   chain : Seq(Slots), gen : 0..MaxGeneration, process : BOOLEAN, lastExited : 0..MaxGeneration,
   health : {"none", "awaited", "confirmed"}, restarts : 0..MaxRestarts, restartDue : BOOLEAN,
   term : Terminations, retired : SUBSET Generations, leases : [Generations -> SUBSET Users],
   closing : {"no", "grace", "ending", "closed"}, alive : [Generations -> BOOLEAN],
   job : [Generations -> Slots \cup {NoSlot}]]

-----------------------------------------------------------------------------
(* The lease *)

\* Who waits for the lease.
Lined(lock) == {lock.queue[i].who : i \in DOMAIN lock.queue}

\* Uses and mutations exclude each other, and nobody waits for what it has, or twice.
LockOK(lock) ==
  /\ lock \in Locks
  /\ lock.readers # {} => lock.writer = Nobody
  /\ lock.readers \cap Mutators = {}
  /\ \A i \in DOMAIN lock.queue : lock.queue[i].mode = "mutation" <=> lock.queue[i].who \in Mutators
  /\ \A i, j \in DOMAIN lock.queue : lock.queue[i].who = lock.queue[j].who => i = j
  /\ Lined(lock) \cap lock.readers = {}
  /\ lock.writer \notin Lined(lock)

\* Whoever waits in the queue waits, and whoever relies on a lease has it.
CallersHold(s) ==
  /\ \A c \in Holders : s.pc[c] \in PcsOf(c)
  /\ \A c \in Lined(s.lock) : s.pc[c] = "waiting"
  /\ \A c \in Holders : s.pc[c] = "idle" => c \notin s.lock.readers /\ c # s.lock.writer
  /\ \A m \in Mutators :
       s.pc[m] \in {"unload", "unloading", "files", "checking"} => s.lock.writer = m
  /\ \A t \in Transcribers : s.pc[t] = "working" => t \in s.lock.readers
  /\ s.pc[Session] = "opening" => Session \in s.lock.readers
  /\ \A v \in Verifiers : s.pc[v] = "checking" => v \in s.lock.readers

-----------------------------------------------------------------------------
(* Processes and their terminations *)

\* A process that lives is the current one or a quarantined one, and one that is
\* gone works on nothing.
ProcessesKnown(s) ==
  /\ s.lastExited <= s.gen
  /\ s.process => s.lastExited < s.gen
  /\ \A g \in s.retired : g <= s.gen /\ (g = s.gen => ~s.process)
  /\ \A g \in Generations : s.alive[g] => (g = s.gen /\ s.process) \/ g \in s.retired
  /\ \A g \in Generations : ~s.alive[g] => s.job[g] = NoSlot

\* Only the current process is being terminated, and its death is not confirmed
\* while it lives.
TerminationIsCurrent(s) ==
  /\ s.term.gen # 0 => s.term.gen = s.gen /\ s.process
  /\ s.term.timer # "none" \/ s.term.kind # "none" => s.term.gen # 0
  /\ s.term.gen # 0 /\ s.term.confirmed => ~s.alive[s.term.gen]

-----------------------------------------------------------------------------
(* Requests *)

\* A request belongs to a call under way, and has no worker before it is sent.
Owned(s, slot) ==
  /\ s.req[slot].phase \in {"term", "turn"} => s.req[slot].captured = 0
  /\ slot \in Transcribers => s.pc[slot] = "working"
  /\ slot \in Verifiers => s.pc[slot] = "checking"
  /\ slot \in Mutators => s.pc[slot] \in {"unloading", "checking"}
  /\ slot = "push" => s.pc[Session] = "opening" \/ s.sess.pushing
  /\ slot = "finish" => s.sess.finish = "asked"
  /\ slot = "drop" => s.sess.drop = "asked"
  /\ slot = "shutdown" => Closing(s)

\* Every request belongs to a call under way.
RequestsOwned(s) == \A slot \in Slots : s.req[slot].phase # "none" => Owned(s, slot)

\* What a worker does unless it is being ended was sent to it and is not answered.
JobIsSent(s) ==
  \A g \in Generations :
    s.alive[g] /\ g = s.gen /\ s.process /\ s.term.gen # g /\ s.job[g] # NoSlot =>
      s.req[s.job[g]].phase = "sent" /\ s.req[s.job[g]].gen = g

\* The requests of an open session go to its worker, and to no later one.
SessionStays(s) ==
  /\ s.pc[Session] = "open" => s.sess.gen \in 1..s.gen
  /\ s.pc[Session] = "open" => \A slot \in {"push", "finish", "drop"} :
       /\ s.req[slot].phase = "term" => s.req[slot].expected = s.sess.gen
       /\ s.req[slot].phase \in {"turn", "sent"} => s.req[slot].gen = s.sess.gen

\* The chain is made of the requests that wait for their turn, behind the one
\* that is with the worker.
ChainSound(s) ==
  /\ \A i, j \in DOMAIN s.chain : s.chain[i] = s.chain[j] => i = j
  /\ \A i \in DOMAIN s.chain : s.req[s.chain[i]].phase \in {"turn", "sent"}
  /\ \A slot \in Slots :
       s.req[slot].phase \in {"turn", "sent"} => \E i \in DOMAIN s.chain : s.chain[i] = slot
  /\ \A slot \in Slots : s.req[slot].phase = "sent" => s.chain[1] = slot

\* Who is told of a cancellation has asked for it, and so has whoever will be.
CancelsOwned(s) ==
  /\ \A slot \in Slots :
       s.req[slot].phase = "done" /\ s.req[slot].result = "cancelled" => s.req[slot].asked \/ Closing(s)
  /\ s.term.kind = "cancel" => \A slot \in s.term.cancelled :
       s.req[slot].phase = "sent" => s.req[slot].asked
  /\ s.term.kind = "close" => Closing(s)

-----------------------------------------------------------------------------
(* The session, and the leases that outlive their calls *)

\* The session may still send its worker something that reads the files.
Risk(s) ==
  \/ Active(s, "push") \/ Active(s, "finish")
  \/ ~s.sess.failed /\ (s.sess.queued > 0 \/ ~s.sess.closed \/ s.sess.finish = "tail")

SessionSound(s) ==
  /\ s.pc[Session] # "open" => s.sess = NoSession
  /\ s.sess.failed \/ s.sess.finish # "none" \/ s.sess.cancel = "tail" => s.sess.closed
  /\ s.sess.finish = "asked" => s.sess.queued = 0 /\ ~s.sess.pushing
  /\ s.sess.cancel = "tail" => s.sess.finish = "none" /\ s.sess.queued = 0
  /\ s.sess.drop # "none" => ~Risk(s)

\* A session that may still read through its worker has its lease.
SessionCovered(s) ==
  s.pc[Session] = "open" /\ IsCurrent(s, s.sess.gen) /\ Risk(s) => Session \in s.lock.readers

\* A lease is with one generation, after its call, or during the session.
LeasesOwed(s) ==
  /\ \A g \in Generations : \A t \in Transcribers : t \in s.leases[g] => s.pc[t] = "over"
  /\ \A g \in Generations : Session \in s.leases[g] =>
       (s.pc[Session] = "open" /\ g = s.sess.gen) \/ s.pc[Session] = "over"
  /\ \A g, h \in Generations : s.leases[g] \cap s.leases[h] # {} => g = h

\* What a worker reads the files for is covered, by the call or by what it left.
JobsCovered(s) ==
  \A g \in Generations : s.alive[g] =>
    /\ s.job[g] \in Transcribers =>
         /\ s.job[g] \in s.lock.readers
         /\ \/ s.pc[s.job[g]] = "working" /\ s.req[s.job[g]].captured = g
            \/ s.pc[s.job[g]] = "over" /\ s.job[g] \in s.leases[g]
    /\ s.job[g] \in {"push", "finish"} =>
         /\ Session \in s.lock.readers
         /\ \/ s.pc[Session] = "opening" /\ s.job[g] = "push" /\ s.req["push"].captured = g
            \/ s.pc[Session] = "open" /\ s.sess.gen = g
            \/ s.pc[Session] = "over" /\ Session \in s.leases[g]
    /\ s.job[g] \in Verifiers => s.pc[s.job[g]] \in {"checking", "over"}

\* NoUseLeaked of a state.
NoneLeaked(s) ==
  \A user \in s.lock.readers :
    s.pc[user] = "over" =>
      \E g \in Generations : user \in s.leases[g] /\ (g \in s.retired \/ s.term.gen = g)

-----------------------------------------------------------------------------

\* The invariant of a state: its type and the parts above.
ClientInvariant(s) ==
  /\ s \in States
  /\ LockOK(s.lock) /\ CallersHold(s)
  /\ ProcessesKnown(s) /\ TerminationIsCurrent(s)
  /\ RequestsOwned(s) /\ JobIsSent(s) /\ SessionStays(s) /\ ChainSound(s) /\ CancelsOwned(s)
  /\ SessionSound(s) /\ SessionCovered(s) /\ LeasesOwed(s) /\ JobsCovered(s) /\ NoneLeaked(s)

\* The invariant of the state the client is in.
WhisperInvariantHolds == ClientInvariant(w)
=============================================================================
