---------------------------- MODULE HelperProofs ----------------------------
(***************************************************************************)
(* What is proved of the supervision of the helper: CircuitHolds,          *)
(* ShutdownIsLast and NeverAbandoned, for every limit of the failures,     *)
(* everything the helper may print and any finite set of those who reset   *)
(* the session capture.                                                    *)
(*                                                                         *)
(* The argument is about who goes on.  An operation of the client that     *)
(* awaits something has one name at one place: at the helper or in its     *)
(* queue (Asking), among the microtasks (Told), with the reconciler (Ops)  *)
(* or waiting for stderr (Waiting).  Each field that says an operation is  *)
(* under way says which names must be alive, and a name that is alive says *)
(* which fields it may find.  While a microtask runs, the names it has in  *)
(* hand, X below, are in no place; every operator of the model is shown to *)
(* put them back, or to end what they stood for.                           *)
(***************************************************************************)
EXTENDS HelperProperties, FunctionTheorems, FiniteSetTheorems, SequenceTheorems, TLAPS

\* The fields of a client.
Fields == DOMAIN NewClient

\* A record of these fields.
IsClient(c) == c = [field \in Fields |-> c[field]]

\* Who may go on in a microtask.
Whos == Requesters \cup Operations \cup {"reconciler", "stopper"}

\* What it may be told.
Hows == {"ok", "next", "begin", "clean", "unclean", "launched", "stopped", "timeout", "transport",
         "not-running", "missing", "denied", "replaced"} \cup Snapshots \cup Classes

\* The values of the fields that are no sequences and not of the channel, in a
\* client that was started.
Types ==
  [desired |-> BOOLEAN, started |-> {TRUE}, child |-> BOOLEAN, missing |-> BOOLEAN,
   authoritative |-> BOOLEAN, terminating |-> BOOLEAN, stopFault |-> BOOLEAN, shutDown |-> BOOLEAN,
   unclean |-> BOOLEAN, crashLoop |-> BOOLEAN, probe |-> BOOLEAN, want |-> BOOLEAN,
   previous |-> BOOLEAN, blocked |-> BOOLEAN, applied |-> BOOLEAN, moved |-> BOOLEAN, asked |-> BOOLEAN,
   launching |-> {"none", "validating", "initialize", "snapshot", "off", "activation", "failed"},
   health |-> {"none", "snapshot", "activation", "off", "fresh"},
   termination |-> {"none", "asked", "exit", "killed"},
   stop |-> {"none", "begun", "asked", "exit", "killed"},
   reset |-> [Resetters -> {"none", "stopping", "starting", "off"}],
   timer |-> {"none", "delay", "window"}, failures |-> 0 .. FailureLimit - 1,
   readiness |-> Readiness, seen |-> Snapshots, effective |-> {"none", "on", "off"},
   planned |-> Classes \cup {"none", "shutdown"}, said |-> Classes \cup {"nothing"},
   running |-> Operations \cup {"none", "enabling"}]

\* A client whose fields have their values.
Typed(c) == IsClient(c) /\ \A field \in DOMAIN Types : c[field] \in Types[field]

\* The microtasks.
Jobs == [who : Whos, how : Hows]

\* The names in a sequence of those who go on.
Names(s) == {s[i].who : i \in DOMAIN s}

\* Nobody is in it twice.
Unique(s) == \A i, j \in DOMAIN s : s[i].who = s[j].who => i = j

\* The requests that are at the helper or queued.
Asking(c) == ({c.sent} \ {"none"}) \cup ToSet(c.queue)

\* The operation that the reconciler performs: a fresh session has two steps.
Op(c) == IF c.running = "enabling" THEN "fresh" ELSE c.running

\* Those who have a microtask.
Told(c) == Names(c.jobs)

\* Those who wait for stderr to drain.
Waiting(c) == Names(c.waits)

\* The operations of the reconciler, the one it performs and those queued.
Ops(c) == ({Op(c)} \ {"none"}) \cup ToSet(c.operations)

\* Everyone who will go on.
Live(c) == Asking(c) \cup Told(c) \cup Ops(c) \cup Waiting(c)

\* Each has one microtask at most; behind the microtask of a stop no resetter is
\* told that one has ended.
JobsSound(s, reset) ==
  /\ s \in Seq(Jobs) /\ Unique(s)
  /\ \A i, j \in DOMAIN s : i < j /\ s[i].who = "stopper" /\ s[j].who \in Resetters
       => reset[s[j].who] # "stopping"

\* The channel: a request is in one place, one that drains admits shutdowns
\* only, and a closed one has nothing.
QueueSound(c) ==
  /\ c.queue \in Seq(Requesters) /\ IsInjective(c.queue)
  /\ c.sent \in Requesters \cup {"none"} /\ c.sent \notin ToSet(c.queue)
  /\ c.channel \in {"open", "draining", "closed"}
  /\ c.channel = "closed" => Asking(c) = {}
  /\ c.channel = "draining" => ToSet(c.queue) \subseteq Shutdowns
  /\ c.channel = "open" => Asking(c) \cap Shutdowns = {}
  /\ c.dispatched \subseteq Shutdowns
  /\ c.sent \in Shutdowns => c.sent \in c.dispatched
  /\ \A r \in Resetters : r \in Asking(c) => c.reset[r] = "off"

\* The reconciler has each operation once.
OperationsSound(c) ==
  /\ c.operations \in Seq(Operations) /\ IsInjective(c.operations)
  /\ Op(c) \in Operations \cup {"none"} /\ Op(c) \notin ToSet(c.operations)

\* What waits for stderr, and why.
Waits == [who : {"launch", "fault"}, why : Classes]

\* A launch that failed and a fault wait once each.
WaitsSound(c) == c.waits \in Seq(Waits) /\ Unique(c.waits)

\* Who has a microtask is nowhere else; nor is a request with stderr.
Apart(c) ==
  /\ Told(c) \cap (Asking(c) \cup Ops(c) \cup Waiting(c)) = {}
  /\ Asking(c) \cap Waiting(c) = {}

\* Every name is in one place.
Plumbed(c) ==
  JobsSound(c.jobs, c.reset) /\ QueueSound(c) /\ OperationsSound(c) /\ WaitsSound(c) /\ Apart(c)

\* H are the names that are alive or in hand.  A launch goes on by an answer, by
\* stderr once it failed, or by the fresh session it waits for.
LaunchSound(c, H) ==
  /\ "launch" \in H <=> c.launching \in {"initialize", "snapshot", "off", "failed"}
  /\ "launch" \in Waiting(c) => c.launching = "failed"
  /\ "launch" \in Asking(c) \cup Told(c) => c.launching # "failed"
  /\ "fresh" \in H <=> c.launching = "activation" \/ c.health = "fresh"
  /\ c.waits # <<>> => c.child
  /\ c.launching = "validating" => ~c.child /\ c.readiness # "ready"
  /\ c.health # "none" => c.launching \in {"none", "validating"}

\* A refresh of the health goes on by an answer, or by the session's operation.
HealthSound(c, H) ==
  /\ "health" \in H <=> c.health \in {"snapshot", "off"}
  /\ "session" \in H <=> c.health = "activation"

\* The reconciler goes on by the answer to its request or by its microtask, and
\* one configuration is under way.
ReconcilerSound(c, H) ==
  /\ "configure" \in H <=> c.running # "none"
  /\ "reconciler" \in H <=> c.running = "none" /\ c.operations # <<>>
  /\ ~("intent" \in H /\ "rollback" \in H)

\* A stop goes on by its microtask, by its shutdown or by the exit of the
\* helper; once its shutdown is at the helper nothing else is.
StopSound(c, H) ==
  /\ c.stop = "begun" => "stopper" \in H
  /\ "stopper" \in H => c.stop = "begun" \/ (c.stop \in {"exit", "killed"} /\ ~c.child)
  /\ c.stop \in {"exit", "killed"} /\ ~c.child => "stopper" \in H
  /\ "stop" \in H => c.stop = "asked"
  /\ c.stop # "none" => c.channel # "open"
  /\ "stop" \in c.dispatched => c.stop # "none" /\ (c.stop = "asked" => "stop" \in H)
  /\ "stop" \in c.dispatched \/ c.stop \in {"exit", "killed"} => Asking(c) \subseteq Shutdowns
  /\ c.stop \in {"asked", "exit", "killed"} => c.timer = "none" /\ c.launching # "validating"
  /\ c.stop = "begun" /\ ~c.child => c.launching \in {"none", "validating"}
  /\ ~c.child /\ (c.stop \in {"exit", "killed"} \/ "stop" \in c.dispatched) =>
       /\ c.launching = "none" /\ c.health = "none"
       /\ H \subseteq {"stopper", "stop", "termination"} \cup Resetters
  /\ ~c.child => c.channel = "closed" /\ c.termination = "none"
  /\ "termination" \in H => c.terminating \/ ~c.child
  /\ c.stop # "none" /\ c.desired => \E r \in Resetters : c.reset[r] = "stopping"

\* The stage of a reset fits what it waits for: the stop, the launch that
\* follows, or the answer that the capture is off.
ResetFits(c, H, r) ==
  /\ r \in H => c.reset[r] # "none"
  /\ c.reset[r] = "stopping" /\ r \in H => c.launching \in {"none", "validating", "failed"}
  /\ c.reset[r] = "starting" =>
       IF r \in H THEN c.launching \in {"none", "validating"} ELSE c.launching # "none"
  /\ c.reset[r] = "off" => r \in H

\* So it does for every resetter; one that stops the helper waits for a stop.
ResetSound(c, H) ==
  \A r \in Resetters :
    /\ ResetFits(c, H, r)
    /\ c.reset[r] = "stopping" =>
         IF r \in H THEN c.stop = "none" \/ (c.stop = "begun" /\ ~c.desired) ELSE c.stop # "none"

\* The circuit: while it is open, a helper that runs is a probe; a client that
\* says it has stopped has nothing that would start one.
CircuitSound(c) ==
  /\ c.probe => c.crashLoop
  /\ c.crashLoop => c.desired
  /\ c.crashLoop /\ (c.child \/ c.launching = "validating") => c.probe
  /\ c.readiness = "stopped" =>
       ~c.child /\ c.timer = "none" /\ c.launching \in {"none", "validating"} /\ ~c.desired

\* A resetter that is told of its stop will start the helper again.
Returning(c) ==
  \E i \in DOMAIN c.jobs : /\ c.jobs[i].who \in Resetters /\ c.jobs[i].how = "stopped"
                           /\ c.reset[c.jobs[i].who] = "stopping"

\* What the client that is not stopping promises of a helper that is gone.
Held(c) ==
  c.stop = "none" =>
    /\ ~c.child /\ c.launching # "validating" /\ ~c.unclean /\ ~Returning(c) =>
         /\ c.crashLoop => c.timer = "window"
         /\ c.desired => c.timer # "none" \/ c.readiness \in {"stable", "shutdown"}
    /\ ~c.child /\ ~c.unclean /\ ~Returning(c) => c.readiness # "ready"
    /\ ~c.desired => c.launching \in {"none", "validating", "failed"} /\ (c.child => c.unclean)

\* The client is sound with X in hand.
Base(c, X) ==
  /\ Typed(c) /\ Plumbed(c) /\ X \cap Live(c) = {}
  /\ LaunchSound(c, Live(c) \cup X) /\ HealthSound(c, Live(c) \cup X) /\ ReconcilerSound(c, Live(c) \cup X)
  /\ StopSound(c, Live(c) \cup X) /\ ResetSound(c, Live(c) \cup X) /\ CircuitSound(c)

\* It also keeps its promises.
Sound(c, X) == Base(c, X) /\ Held(c)

-----------------------------------------------------------------------------
(* The fields and the sequences                                            *)

\* The fields, one by one.
LEMMA FieldsOf == Fields =
  {"desired", "started", "child", "channel", "queue", "sent", "dispatched", "jobs", "launching",
   "waits", "said", "seen", "health", "missing", "authoritative", "terminating", "planned",
   "termination", "stop", "stopFault", "shutDown", "unclean", "reset", "timer", "failures",
   "crashLoop", "probe", "readiness", "want", "previous", "blocked", "applied", "effective",
   "moved", "asked", "running", "operations"}
BY DEF Fields, NewClient

\* d is a client that has all but the fields in F of c.
Differs(c, d, F) == IsClient(d) /\ \A field \in Fields \ F : d[field] = c[field]

\* The fields that Types says nothing of.
Loose == {"channel", "queue", "sent", "dispatched", "jobs", "waits", "operations"}

\* Types, field by field.
LEMMA TypesOf ==
  /\ DOMAIN Types = Fields \ Loose
  /\ \A flag \in {"desired", "child", "missing", "authoritative", "terminating", "stopFault",
                 "shutDown", "unclean", "crashLoop", "probe", "want", "previous", "blocked", "applied",
                 "moved", "asked"} : Types[flag] = BOOLEAN
  /\ Types["launching"] = {"none", "validating", "initialize", "snapshot", "off", "activation", "failed"}
  /\ Types["health"] = {"none", "snapshot", "activation", "off", "fresh"}
  /\ Types["termination"] = {"none", "asked", "exit", "killed"}
  /\ Types["stop"] = {"none", "begun", "asked", "exit", "killed"}
  /\ Types["reset"] = [Resetters -> {"none", "stopping", "starting", "off"}]
  /\ Types["timer"] = {"none", "delay", "window"} /\ Types["failures"] = 0 .. FailureLimit - 1
  /\ Types["readiness"] = Readiness /\ Types["seen"] = Snapshots
  /\ Types["effective"] = {"none", "on", "off"}
  /\ Types["planned"] = Classes \cup {"none", "shutdown"} /\ Types["said"] = Classes \cup {"nothing"}
  /\ Types["running"] = Operations \cup {"none", "enabling"}
<1>1. DOMAIN Types = Fields \ Loose
  BY FieldsOf DEF Types, Loose
<1> QED BY <1>1 DEF Types

\* Fields that change to values of their types leave a client typed.
LEMMA TypedKept ==
  ASSUME NEW c, NEW d, NEW F, Typed(c), Differs(c, d, F),
         \A field \in F \ Loose : d[field] \in Types[field]
  PROVE  Typed(d)
BY TypesOf DEF Typed, Differs

\* What Typed says of each field.
LEMMA TypedFields ==
  ASSUME NEW c, Typed(c)
  PROVE  /\ IsClient(c)
         /\ \A flag \in {"desired", "child", "missing", "authoritative", "terminating", "stopFault",
                        "shutDown", "unclean", "crashLoop", "probe", "want", "previous", "blocked", "applied",
                        "moved", "asked"} : c[flag] \in BOOLEAN
         /\ c.launching \in {"none", "validating", "initialize", "snapshot", "off", "activation", "failed"}
         /\ c.health \in {"none", "snapshot", "activation", "off", "fresh"}
         /\ c.termination \in {"none", "asked", "exit", "killed"}
         /\ c.stop \in {"none", "begun", "asked", "exit", "killed"}
         /\ c.reset \in [Resetters -> {"none", "stopping", "starting", "off"}]
         /\ c.timer \in {"none", "delay", "window"} /\ c.failures \in 0 .. FailureLimit - 1
         /\ c.readiness \in Readiness /\ c.seen \in Snapshots
         /\ c.effective \in {"none", "on", "off"}
         /\ c.planned \in Classes \cup {"none", "shutdown"} /\ c.said \in Classes \cup {"nothing"}
         /\ c.running \in Operations \cup {"none", "enabling"}
<1>1. DOMAIN Types = Fields \ Loose /\ \A field \in Fields \ Loose : c[field] \in Types[field]
  BY TypesOf DEF Typed
<1>2. {"desired", "child", "missing", "authoritative", "terminating", "stopFault",
       "shutDown", "unclean", "crashLoop", "probe", "want", "previous", "blocked", "applied",
       "moved", "asked", "launching", "health", "termination", "stop", "reset", "timer", "failures",
       "readiness", "seen", "effective", "planned", "said", "running"} \subseteq Fields \ Loose
  BY FieldsOf DEF Loose
<1>3. \A field \in {"desired", "child", "missing", "authoritative", "terminating", "stopFault",
       "shutDown", "unclean", "crashLoop", "probe", "want", "previous", "blocked", "applied",
       "moved", "asked", "launching", "health", "termination", "stop", "reset", "timer", "failures",
       "readiness", "seen", "effective", "planned", "said", "running"} : c[field] \in Types[field]
  BY <1>1, <1>2
<1>4. \A flag \in {"desired", "child", "missing", "authoritative", "terminating", "stopFault",
                 "shutDown", "unclean", "crashLoop", "probe", "want", "previous", "blocked", "applied",
                 "moved", "asked"} : c[flag] \in BOOLEAN
  BY <1>3, TypesOf
<1>5. /\ c["launching"] \in Types["launching"] /\ c["health"] \in Types["health"]
      /\ c["termination"] \in Types["termination"] /\ c["stop"] \in Types["stop"]
      /\ c["reset"] \in Types["reset"] /\ c["timer"] \in Types["timer"]
      /\ c["failures"] \in Types["failures"] /\ c["readiness"] \in Types["readiness"]
      /\ c["seen"] \in Types["seen"] /\ c["effective"] \in Types["effective"]
      /\ c["planned"] \in Types["planned"] /\ c["said"] \in Types["said"]
      /\ c["running"] \in Types["running"]
  BY <1>3
<1> QED BY <1>4, <1>5, TypesOf DEF Typed

\* A resetter has no other name.
LEMMA Apiece ==
  /\ Resetters \cap (Shutdowns \cup Operations \cup
       {"launch", "fault", "health", "configure", "reconciler", "stopper", "none"}) = {}
  /\ Requesters = Shutdowns \cup {"launch", "health", "configure"} \cup Resetters
BY ResettersAssumption DEF Requesters

\* Microtasks that are sound, behind others that are.
LEMMA JobsAppended ==
  ASSUME NEW s, NEW t, NEW reset, JobsSound(s, reset), JobsSound(t, reset), Names(s) \cap Names(t) = {},
         "stopper" \in Names(s) => \A r \in Resetters \cap Names(t) : reset[r] # "stopping"
  PROVE  JobsSound(s \o t, reset) /\ Names(s \o t) = Names(s) \cup Names(t)
<1> DEFINE u == s \o t
<1>1. u \in Seq(Jobs) /\ Len(u) = Len(s) + Len(t) /\ Len(s) \in Nat /\ Len(t) \in Nat
  BY DEF JobsSound
<1>2. DOMAIN u = 1 .. Len(s) + Len(t) /\ DOMAIN s = 1 .. Len(s) /\ DOMAIN t = 1 .. Len(t)
  BY <1>1 DEF JobsSound
<1>3. /\ \A i \in DOMAIN s : u[i] = s[i] /\ i \in DOMAIN u
      /\ \A i \in DOMAIN t : u[i + Len(s)] = t[i] /\ i + Len(s) \in DOMAIN u
  BY <1>1, <1>2 DEF JobsSound
<1>4. \A i \in DOMAIN u : i \in DOMAIN s \/ (i - Len(s) \in DOMAIN t /\ u[i] = t[i - Len(s)] /\ i \notin DOMAIN s)
  BY <1>1, <1>2 DEF JobsSound
<1> HIDE DEF u
<1>5. Names(u) = Names(s) \cup Names(t)
  BY <1>3, <1>4 DEF Names
<1>6. \A i \in DOMAIN s, j \in DOMAIN t : s[i].who # t[j].who
  BY DEF Names
<1>7. Unique(u)
  <2> SUFFICES ASSUME NEW i \in DOMAIN u, NEW j \in DOMAIN u, u[i].who = u[j].who PROVE i = j
    BY DEF Unique
  <2> QED BY <1>1, <1>2, <1>3, <1>4, <1>6, SMTT(40) DEF JobsSound, Unique
<1>8. ASSUME NEW i \in DOMAIN u, NEW j \in DOMAIN u, i < j, u[i].who = "stopper", u[j].who \in Resetters
      PROVE  reset[u[j].who] # "stopping"
  <2>1. CASE j \in DOMAIN s
    <3>1. i \in DOMAIN s
      BY <1>1, <1>2, <1>8, <2>1
    <3>2. u[i] = s[i] /\ u[j] = s[j]
      BY <1>3, <2>1, <3>1
    <3> QED BY <1>8, <2>1, <3>1, <3>2 DEF JobsSound
  <2>2. CASE j - Len(s) \in DOMAIN t /\ u[j] = t[j - Len(s)] /\ i \in DOMAIN s
    BY <1>3, <1>8, <2>2 DEF Names
  <2>3. CASE j - Len(s) \in DOMAIN t /\ u[j] = t[j - Len(s)] /\ i \notin DOMAIN s
    BY <1>1, <1>2, <1>4, <1>8, <2>3 DEF JobsSound
  <2> QED BY <1>4, <2>1, <2>2, <2>3
<1> QED BY <1>1, <1>5, <1>7, <1>8 DEF JobsSound, u

\* The microtasks of those who are told the same.
LEMMA JobsOf ==
  ASSUME NEW whos \in Seq(Whos), NEW how \in Hows, IsInjective(whos), NEW reset,
         "stopper" \in ToSet(whos) => ToSet(whos) \cap Resetters = {}
  PROVE  LET s == [i \in DOMAIN whos |-> [who |-> whos[i], how |-> how]]
         IN  JobsSound(s, reset) /\ Names(s) = ToSet(whos)
<1> DEFINE s == [i \in DOMAIN whos |-> [who |-> whos[i], how |-> how]]
<1>1. DOMAIN s = 1 .. Len(whos) /\ Len(whos) \in Nat /\ \A i \in DOMAIN s : s[i] \in Jobs
  BY DEF Jobs
<1>2. s \in Seq(Jobs)
  BY <1>1, IsASeq
<1>3. \A i \in DOMAIN s : s[i].who = whos[i] /\ i \in DOMAIN whos
  OBVIOUS
<1>4. DOMAIN s = DOMAIN whos
  OBVIOUS
<1> HIDE DEF s
<1>5. Names(s) = ToSet(whos)
  BY <1>3, <1>4 DEF Names, ToSet
<1>6. Unique(s)
  BY <1>3 DEF Unique, IsInjective
<1>7. \A i, j \in DOMAIN s : ~(s[i].who = "stopper" /\ s[j].who \in Resetters)
  BY <1>5 DEF Names
<1> QED BY <1>2, <1>5, <1>6, <1>7 DEF JobsSound, s

\* A finite set as a sequence has each element once.
LEMMA SetToSeqProperties ==
  ASSUME NEW S, IsFiniteSet(S)
  PROVE  SetToSeq(S) \in Seq(S) /\ IsInjective(SetToSeq(S)) /\ ToSet(SetToSeq(S)) = S
<1> DEFINE n == Cardinality(S)
<1>1. n \in Nat /\ ExistsBijection(1..n, S)
  BY FS_CardinalityType
<1>2. PICK f : f \in Bijection(1..n, S)
  BY <1>1 DEF ExistsBijection
<1>3. f \in [1..n -> S] /\ IsInjective(f)
  BY <1>2 DEF Bijection, Injection, IsInjective
<1>4. SetToSeq(S) \in [1..n -> S] /\ IsInjective(SetToSeq(S))
  BY <1>3 DEF SetToSeq
<1> DEFINE s == SetToSeq(S)
           image == ToSet(s)
<1>5. DOMAIN s = 1..n /\ \A i \in 1..n : s[i] \in S /\ s[i] \in image
  BY <1>4 DEF ToSet
<1> HIDE DEF s
<1>6. s \in Seq(S)
  BY <1>1, <1>4, IsASeq DEF s
<1>7. s \in Bijection(1..n, image)
  <2>1. s \in [1..n -> image]
    BY <1>4, <1>5 DEF s
  <2>2. s \in Injection(1..n, image)
    BY <1>4, <2>1 DEF Injection, s
  <2>3. \A x \in image : \E i \in 1..n : s[i] = x
    BY <1>5 DEF ToSet
  <2> QED BY <2>1, <2>2, <2>3 DEF Bijection, Surjection
<1>8. IsFiniteSet(1..n) /\ Cardinality(1..n) = n
  BY <1>1, FS_Interval
<1>9. Cardinality(image) = n
  BY <1>7, <1>8, FS_Bijection DEF ExistsBijection
<1>10. image \in SUBSET S
  BY <1>5 DEF ToSet
<1>11. image = S
  BY <1>9, <1>10, FS_Subset
<1> QED BY <1>4, <1>6, <1>11 DEF s

\* So has a sequence in reverse.
LEMMA ReverseProperties ==
  ASSUME NEW S, NEW s \in Seq(S), IsInjective(s)
  PROVE  Reverse(s) \in Seq(S) /\ IsInjective(Reverse(s)) /\ ToSet(Reverse(s)) = ToSet(s)
<1> DEFINE n == Len(s)
<1>1. n \in Nat /\ DOMAIN s = 1..n /\ \A i \in 1..n : s[i] \in S /\ n - i + 1 \in 1..n
  OBVIOUS
<1>2. Reverse(s) = [i \in 1..n |-> s[(n - i) + 1]]
  BY DEF Reverse
<1>3. Reverse(s) \in Seq(S)
  BY <1>1, <1>2, IsASeq
<1>4. DOMAIN Reverse(s) = 1..n /\ \A i \in 1..n : Reverse(s)[i] = s[n - i + 1]
  BY <1>2
<1> HIDE DEF n
<1>5. \A i, j \in 1..n : Reverse(s)[i] = Reverse(s)[j] => i = j
  BY <1>1, <1>4 DEF IsInjective
<1>6. \A i \in 1..n : n - (n - i + 1) + 1 = i
  BY <1>1
<1>7. \A i \in 1..n : s[i] = Reverse(s)[n - i + 1]
  BY <1>1, <1>4, <1>6
<1>8. ToSet(Reverse(s)) \subseteq ToSet(s)
  BY <1>1, <1>4 DEF ToSet
<1>9. ToSet(s) \subseteq ToSet(Reverse(s))
  BY <1>1, <1>4, <1>7 DEF ToSet
<1> QED BY <1>3, <1>4, <1>5, <1>8, <1>9 DEF IsInjective

\* What is left of a sequence where one element is taken out.
LEMMA RemoveAtElements ==
  ASSUME NEW S, NEW s \in Seq(S), NEW k \in 1..Len(s)
  PROVE  /\ RemoveAt(s, k) \in Seq(S)
         /\ Len(RemoveAt(s, k)) = Len(s) - 1
         /\ DOMAIN RemoveAt(s, k) = 1..Len(RemoveAt(s, k))
         /\ \A i \in 1..Len(RemoveAt(s, k)) :
              RemoveAt(s, k)[i] = IF i < k THEN s[i] ELSE s[i + 1]
<1> DEFINE before == SubSeq(s, 1, k - 1)
           behind == SubSeq(s, k + 1, Len(s))
<1>1. Len(s) \in Nat /\ \A i \in 1..Len(s) : s[i] \in S
  BY LenProperties, ElementOfSeq
<1>2. /\ before \in Seq(S) /\ Len(before) = k - 1
      /\ \A i \in 1..(k - 1) : before[i] = s[i]
  BY <1>1, SubSeqProperties
<1>3. /\ behind \in Seq(S) /\ Len(behind) = Len(s) - k
      /\ \A i \in 1..(Len(s) - k) : behind[i] = s[k + i]
  BY <1>1, SubSeqProperties
<1> HIDE DEF before, behind
<1>4. /\ before \o behind \in Seq(S) /\ Len(before \o behind) = Len(s) - 1
      /\ \A i \in 1..(Len(s) - 1) :
           (before \o behind)[i] = IF i <= k - 1 THEN before[i] ELSE behind[i - (k - 1)]
  BY <1>1, <1>2, <1>3, ConcatProperties
<1>5. \A i \in 1..(Len(s) - 1) :
        (before \o behind)[i] = IF i < k THEN s[i] ELSE s[i + 1]
  <2> TAKE i \in 1..(Len(s) - 1)
  <2>1. CASE i < k
    BY <1>1, <1>2, <1>4, <2>1
  <2>2. CASE ~(i < k)
    <3>1. i - (k - 1) \in 1..(Len(s) - k) /\ k + (i - (k - 1)) = i + 1 /\ ~(i <= k - 1)
      BY <1>1, <2>2
    <3> QED BY <1>3, <1>4, <2>2, <3>1
  <2> QED BY <2>1, <2>2
<1>6. DOMAIN (before \o behind) = 1..(Len(s) - 1)
  BY <1>4, LenProperties
<1>7. RemoveAt(s, k) = before \o behind
  BY DEF RemoveAt, before, behind
<1> QED BY <1>4, <1>5, <1>6, <1>7

\* A sequence without its e has the others, once each.
LEMMA RemoveFirstProperties ==
  ASSUME NEW S, NEW s \in Seq(S), IsInjective(s), NEW e
  PROVE  /\ RemoveFirst(s, e) \in Seq(S) /\ IsInjective(RemoveFirst(s, e))
         /\ ToSet(RemoveFirst(s, e)) = ToSet(s) \ {e}
<1> DEFINE n == Len(s)
<1>0. n \in Nat /\ DOMAIN s = 1..n
  OBVIOUS
<1>1. CASE \A i \in 1..n : s[i] # e
  BY <1>0, <1>1 DEF RemoveFirst, ToSet
<1>2. CASE \E i \in 1..n : s[i] = e
  <2>1. PICK k \in 1..n : s[k] = e
    BY <1>2
  <2>2. {i \in 1..n : s[i] = e} = {k}
    BY <1>0, <2>1 DEF IsInjective
  <2>3. Min({k}) = k
    BY <2>1 DEF Min
  <2>4. SelectInSeq(s, LAMBDA v : v = e) = k
    BY <2>2, <2>3 DEF SelectInSeq
  <2> DEFINE t == RemoveAt(s, k)
  <2>5. RemoveFirst(s, e) = t
    BY <1>2, <2>4 DEF RemoveFirst
  <2>8. t \in Seq(S) /\ Len(t) = n - 1
    BY <1>0, RemoveAtElements
  <2>9. \A i \in 1..n-1 : t[i] = IF i < k THEN s[i] ELSE s[i + 1]
    BY <1>0, <2>8, RemoveAtElements
  <2> HIDE DEF t
  <2>14. DOMAIN t = 1..n-1
    BY <2>8, LenProperties
  <2>10. \A i \in 1..n : i < k => i \in 1..n-1 /\ t[i] = s[i]
    BY <1>0, <2>1, <2>9
  <2>11. \A i \in 1..n : i > k => i - 1 \in 1..n-1 /\ t[i - 1] = s[i]
    BY <1>0, <2>1, <2>9
  <2>12. ToSet(t) = ToSet(s) \ {e}
    <3>1. ASSUME NEW i \in 1..n-1 PROVE \E j \in 1..n : j # k /\ t[i] = s[j]
      BY <1>0, <2>1, <2>9
    <3>2. \A j \in 1..n : j # k => s[j] # e
      BY <1>0, <2>1 DEF IsInjective
    <3>3. \A j \in 1..n : j # k => \E i \in 1..n-1 : t[i] = s[j]
      BY <1>0, <2>1, <2>10, <2>11
    <3>4. ToSet(t) \subseteq ToSet(s) \ {e}
      BY <1>0, <2>14, <3>1, <3>2 DEF ToSet
    <3>5. ToSet(s) \ {e} \subseteq ToSet(t)
      BY <1>0, <2>1, <2>14, <3>3 DEF ToSet
    <3> QED BY <3>4, <3>5
  <2>13. IsInjective(t)
    <3> SUFFICES ASSUME NEW i \in 1..n-1, NEW j \in 1..n-1, t[i] = t[j] PROVE i = j
      BY <2>14 DEF IsInjective
    <3> QED BY <1>0, <2>1, <2>9 DEF IsInjective
  <2> QED BY <2>5, <2>8, <2>12, <2>13
<1> QED BY <1>1, <1>2

\* A sequence with an element that it had not, behind or before the others.
LEMMA PutProperties ==
  ASSUME NEW S, NEW s \in Seq(S), IsInjective(s), NEW e \in S, e \notin ToSet(s)
  PROVE  /\ s \o <<e>> \in Seq(S) /\ IsInjective(s \o <<e>>) /\ ToSet(s \o <<e>>) = ToSet(s) \cup {e}
         /\ <<e>> \o s \in Seq(S) /\ IsInjective(<<e>> \o s) /\ ToSet(<<e>> \o s) = ToSet(s) \cup {e}
<1>1. DOMAIN s = 1..Len(s) /\ Len(s) \in Nat
  OBVIOUS
<1> DEFINE t == s \o <<e>>
           u == <<e>> \o s
<1>2. t \in Seq(S) /\ DOMAIN t = 1..Len(s)+1 /\ \A i \in 1..Len(s)+1 : t[i] = IF i = Len(s)+1 THEN e ELSE s[i]
  BY <1>1
<1>3. u \in Seq(S) /\ DOMAIN u = 1..Len(s)+1 /\ \A i \in 1..Len(s)+1 : u[i] = IF i = 1 THEN e ELSE s[i-1]
  BY <1>1
<1>4. \A i \in 1..Len(s) : s[i] # e /\ i \in 1..Len(s)+1 /\ t[i] = s[i] /\ i+1 \in 1..Len(s)+1 /\ u[i+1] = s[i]
  BY <1>1, <1>2, <1>3 DEF ToSet
<1>5. Len(s)+1 \in 1..Len(s)+1 /\ t[Len(s)+1] = e /\ 1 \in 1..Len(s)+1 /\ u[1] = e
  BY <1>1, <1>2, <1>3
<1> HIDE DEF t, u
<1>6. \A i \in 1..Len(s)+1 : (i = Len(s)+1 \/ i \in 1..Len(s)) /\ (i = 1 \/ i-1 \in 1..Len(s))
  BY <1>1
<1>7. ToSet(t) = ToSet(s) \cup {e} /\ ToSet(u) = ToSet(s) \cup {e}
  <2>1. e \in ToSet(t) /\ e \in ToSet(u)
    BY <1>2, <1>3, <1>5 DEF ToSet
  <2>4. \A i \in DOMAIN s : s[i] \in ToSet(t) /\ s[i] \in ToSet(u)
    BY <1>1, <1>2, <1>3, <1>4 DEF ToSet
  <2>2. \A i \in DOMAIN t : t[i] \in ToSet(s) \cup {e}
    BY <1>1, <1>2, <1>4, <1>6 DEF ToSet
  <2>3. \A i \in DOMAIN u : u[i] \in ToSet(s) \cup {e}
    BY <1>1, <1>3, <1>6 DEF ToSet
  <2>5. ToSet(s) \subseteq ToSet(t) /\ ToSet(s) \subseteq ToSet(u)
    BY <2>4 DEF ToSet
  <2>6. ToSet(t) \subseteq ToSet(s) \cup {e} /\ ToSet(u) \subseteq ToSet(s) \cup {e}
    BY <2>2, <2>3 DEF ToSet
  <2> QED BY <2>1, <2>5, <2>6
<1>8. IsInjective(t)
  BY <1>1, <1>2, <1>4, <1>6 DEF IsInjective
<1>9. IsInjective(u)
  <2> SUFFICES ASSUME NEW i \in 1..Len(s)+1, NEW j \in 1..Len(s)+1, u[i] = u[j] PROVE i = j
    BY <1>3 DEF IsInjective
  <2>1. i = 1 => j = 1
    BY <1>3, <1>4, <1>6
  <2>2. j = 1 => i = 1
    BY <1>3, <1>4, <1>6
  <2>3. CASE i # 1 /\ j # 1
    <3>1. s[i-1] = s[j-1] /\ i-1 \in 1..Len(s) /\ j-1 \in 1..Len(s)
      BY <1>3, <1>6, <2>3
    <3>2. i-1 = j-1
      BY <1>1, <3>1 DEF IsInjective
    <3> QED BY <3>2
  <2> QED BY <2>1, <2>2, <2>3
<1> QED BY <1>2, <1>3, <1>7, <1>8, <1>9 DEF t, u

\* A sequence without its first element.
LEMMA TailProperties ==
  ASSUME NEW S, NEW s \in Seq(S), IsInjective(s), s # <<>>
  PROVE  /\ Head(s) \in S /\ Tail(s) \in Seq(S) /\ IsInjective(Tail(s))
         /\ ToSet(s) = ToSet(Tail(s)) \cup {Head(s)} /\ Head(s) \notin ToSet(Tail(s))
<1>1. /\ Len(s) \in Nat \ {0} /\ DOMAIN s = 1..Len(s) /\ Head(s) = s[1] /\ Tail(s) \in Seq(S)
      /\ DOMAIN Tail(s) = 1..Len(s)-1 /\ \A i \in 1..Len(s)-1 : Tail(s)[i] = s[i+1] /\ i+1 \in 1..Len(s)
      /\ \A i \in 1..Len(s) : i = 1 \/ (i-1 \in 1..Len(s)-1 /\ Tail(s)[i-1] = s[i])
  OBVIOUS
<1>2. ToSet(s) = ToSet(Tail(s)) \cup {Head(s)}
  <2>1. 1 \in 1..Len(s) /\ s[1] \in S
    BY <1>1
  <2>2. \A i \in 1..Len(s) : s[i] \in ToSet(Tail(s)) \cup {Head(s)}
    BY <1>1 DEF ToSet
  <2>3. \A i \in DOMAIN Tail(s) : Tail(s)[i] \in ToSet(s)
    BY <1>1 DEF ToSet
  <2> QED BY <1>1, <2>1, <2>2, <2>3 DEF ToSet
<1>3. Head(s) \notin ToSet(Tail(s)) /\ IsInjective(Tail(s))
  <2>1. \A i \in 1..Len(s)-1 : i+1 # 1 /\ 1 \in 1..Len(s)
    BY <1>1
  <2>2. \A i, j \in 1..Len(s)-1 : i+1 = j+1 => i = j
    OBVIOUS
  <2> QED BY <1>1, <2>1, <2>2 DEF ToSet, IsInjective
<1> QED BY <1>1, <1>2, <1>3

\* The microtasks behind the first one are sound, and its name is not among
\* them.
LEMMA JobsTail ==
  ASSUME NEW s, NEW reset, JobsSound(s, reset), s # <<>>
  PROVE  /\ Head(s) \in Jobs /\ JobsSound(Tail(s), reset)
         /\ Names(s) = Names(Tail(s)) \cup {Head(s).who} /\ Head(s).who \notin Names(Tail(s))
         /\ Head(s).who = "stopper" => \A r \in Resetters \cap Names(Tail(s)) : reset[r] # "stopping"
<1>1. /\ Len(s) \in Nat \ {0} /\ DOMAIN s = 1..Len(s) /\ Head(s) = s[1] /\ Tail(s) \in Seq(Jobs) /\ s[1] \in Jobs
      /\ DOMAIN Tail(s) = 1..Len(s)-1 /\ \A i \in 1..Len(s)-1 : Tail(s)[i] = s[i+1] /\ i+1 \in 1..Len(s)
      /\ \A i \in 1..Len(s) : i = 1 \/ (i-1 \in 1..Len(s)-1 /\ Tail(s)[i-1] = s[i])
  BY DEF JobsSound
<1>2. 1 \in 1..Len(s) /\ \A i \in 1..Len(s)-1 : i+1 # 1 /\ 1 < i+1
  BY <1>1
<1>3. \A i, j \in 1..Len(s)-1 : (i+1 = j+1 => i = j) /\ (i < j => i+1 < j+1)
  OBVIOUS
<1>4. Names(s) = Names(Tail(s)) \cup {Head(s).who}
  <2>1. \A i \in 1..Len(s) : s[i].who \in Names(Tail(s)) \cup {Head(s).who}
    BY <1>1 DEF Names
  <2>2. \A i \in DOMAIN Tail(s) : Tail(s)[i].who \in Names(s)
    BY <1>1 DEF Names
  <2> QED BY <1>1, <1>2, <2>1, <2>2 DEF Names
<1>5. Head(s).who \notin Names(Tail(s)) /\ Unique(Tail(s))
  BY <1>1, <1>2, <1>3, SMTT(40) DEF Names, Unique, JobsSound
<1>6. \A i, j \in DOMAIN Tail(s) : i < j /\ Tail(s)[i].who = "stopper" /\ Tail(s)[j].who \in Resetters
       => reset[Tail(s)[j].who] # "stopping"
  BY <1>1, <1>3 DEF JobsSound
<1>7. Head(s).who = "stopper" => \A r \in Resetters \cap Names(Tail(s)) : reset[r] # "stopping"
  BY <1>1, <1>2 DEF Names, JobsSound
<1> QED BY <1>1, <1>4, <1>5, <1>6, <1>7 DEF JobsSound

-----------------------------------------------------------------------------
(* The channel                                                             *)

\* The fields that the operations of the channel change.
Wires == {"channel", "queue", "sent", "dispatched", "jobs"}

\* Every name is in one place, and those of X in none.
Ready(c, X) == IsClient(c) /\ Plumbed(c) /\ X \cap Live(c) = {}

\* The channel has moved names from X into places, and left the rest as it
\* was.
Moves(c, d, X, Y) ==
  /\ Differs(c, d, Wires) /\ Ready(d, Y) /\ Live(d) \cup Y = Live(c) \cup X
  /\ c.channel # "open" => d.channel # "open"
  /\ c.channel = "closed" => d.channel = "closed"
  /\ Asking(c) \subseteq Shutdowns /\ c.channel # "open" => Asking(d) \subseteq Shutdowns
  /\ "stop" \in d.dispatched =>
       \/ "stop" \in c.dispatched
       \/ /\ "stop" \in Live(c) \cup X /\ c.channel # "closed"
          /\ d.channel # "open" /\ Asking(d) \subseteq Shutdowns
  /\ "launch" \in X \ Y => c.launching # "failed"
  /\ Returning(c) => Returning(d)

\* What kind of names each place has.
LEMMA Kinds ==
  ASSUME NEW c, Plumbed(c)
  PROVE  /\ Asking(c) \subseteq Requesters /\ Ops(c) \subseteq Operations
         /\ Waiting(c) \subseteq {"launch", "fault"} /\ Told(c) \subseteq Whos
<1>1. Asking(c) \subseteq Requesters /\ Ops(c) \subseteq Operations
  BY DEF Plumbed, QueueSound, OperationsSound, Asking, Ops, ToSet
<1>2. \A i \in DOMAIN c.waits : c.waits[i].who \in {"launch", "fault"}
  <2>1. \A i \in DOMAIN c.waits : c.waits[i] \in Waits
    BY DEF Plumbed, WaitsSound
  <2> QED BY <2>1 DEF Waits
<1>3. \A i \in DOMAIN c.jobs : c.jobs[i].who \in Whos
  <2>1. \A i \in DOMAIN c.jobs : c.jobs[i] \in Jobs
    BY DEF Plumbed, JobsSound
  <2> QED BY <2>1 DEF Jobs
<1> QED BY <1>1, <1>2, <1>3 DEF Waiting, Told, Names

\* A client is as sound as before when the channel moves names.
LEMMA MovesSound ==
  ASSUME NEW c, NEW d, NEW X, NEW Y, Base(c, X), Moves(c, d, X, Y)
  PROVE  Base(d, Y) /\ (Held(c) => Held(d))
<1> DEFINE H == Live(c) \cup X
<1>1. H = Live(d) \cup Y
  BY DEF Moves
<1>2. /\ d.desired = c.desired /\ d.started = c.started /\ d.child = c.child /\ d.launching = c.launching
      /\ d.waits = c.waits /\ d.health = c.health /\ d.terminating = c.terminating
      /\ d.termination = c.termination /\ d.stop = c.stop /\ d.unclean = c.unclean /\ d.reset = c.reset
      /\ d.timer = c.timer /\ d.crashLoop = c.crashLoop /\ d.probe = c.probe
      /\ d.readiness = c.readiness /\ d.running = c.running /\ d.operations = c.operations
  BY FieldsOf DEF Moves, Differs, Wires
<1>3. Typed(d)
  <2>1. Typed(c) /\ Differs(c, d, Wires) /\ Wires \subseteq Loose
    BY DEF Base, Moves, Wires, Loose
  <2> QED BY <2>1, TypedKept
<1>4. Plumbed(d) /\ Y \cap Live(d) = {}
  BY DEF Moves, Ready
<1>5. LaunchSound(d, H)
  <2>1. Waiting(d) = Waiting(c) /\ Ops(d) = Ops(c)
    BY <1>2 DEF Waiting, Ops, Op
  <2>2. "launch" \in Asking(d) \cup Told(d) => c.launching # "failed"
    <3>1. "launch" \notin Ops(c)
      BY Apiece, Kinds DEF Base, Operations
    <3> QED BY <1>1, <1>4, <2>1, <3>1 DEF Base, Moves, LaunchSound, Live, Plumbed, Apart
  <2>3. LaunchSound(c, H)
    BY DEF Base
  <2> HIDE DEF H
  <2> QED BY <1>2, <2>1, <2>2, <2>3 DEF LaunchSound
<1>6. HealthSound(d, H) /\ ReconcilerSound(d, H) /\ ResetSound(d, H) /\ CircuitSound(d)
  <2>1. HealthSound(c, H) /\ ReconcilerSound(c, H) /\ ResetSound(c, H) /\ CircuitSound(c)
    BY DEF Base
  <2> HIDE DEF H
  <2> QED BY <1>2, <2>1 DEF HealthSound, ReconcilerSound, ResetSound, ResetFits, CircuitSound
<1>7. StopSound(d, H)
  <2>1. StopSound(c, H)
    BY DEF Base
  <2>2. "stop" \in d.dispatched => c.stop # "none"
    BY <2>1 DEF Moves, StopSound
  <2>3. "stop" \in d.dispatched /\ ~c.child => "stop" \in c.dispatched
    BY <2>1 DEF Moves, StopSound
  <2>5. "stop" \in d.dispatched \/ c.stop \in {"exit", "killed"} => Asking(d) \subseteq Shutdowns
    BY <2>1 DEF Moves, StopSound
  <2>6. "stop" \in d.dispatched /\ c.stop = "asked" => "stop" \in H
    BY <2>1 DEF Moves, StopSound
  <2>4. /\ c.channel # "open" => d.channel # "open"
        /\ c.channel = "closed" => d.channel = "closed"
    BY DEF Moves
  <2> HIDE DEF H
  <2> QED BY <1>2, <2>1, <2>2, <2>3, <2>4, <2>5, <2>6 DEF StopSound
<1>8. Base(d, Y)
  BY <1>1, <1>3, <1>4, <1>5, <1>6, <1>7 DEF Base
<1>9. Held(c) => Held(d)
  BY <1>2 DEF Held, Moves
<1> QED BY <1>8, <1>9

\* One move after another.
LEMMA MovesChain ==
  ASSUME NEW c, NEW d, NEW e, NEW X, NEW Y, NEW Z, Moves(c, d, X, Y), Moves(d, e, Y, Z)
  PROVE  Moves(c, e, X, Z)
<1>1. Differs(c, e, Wires) /\ d.launching = c.launching
  BY FieldsOf DEF Moves, Differs, Wires
<1>2. Ready(e, Z) /\ Live(e) \cup Z = Live(c) \cup X
  BY DEF Moves
<1> QED BY <1>1, <1>2 DEF Moves

\* The channel has changed, and what awaited an answer may be in hand.
LEMMA Rewired ==
  ASSUME NEW c, NEW d, NEW X, Ready(c, X), Differs(c, d, Wires \ {"jobs"}), QueueSound(d),
         Asking(d) \subseteq Asking(c) \cup X,
         c.channel # "open" => d.channel # "open",
         c.channel = "closed" => d.channel = "closed",
         Asking(c) \subseteq Shutdowns /\ c.channel # "open" => Asking(d) \subseteq Shutdowns,
         "stop" \in d.dispatched =>
           \/ "stop" \in c.dispatched
           \/ /\ "stop" \in Live(c) \cup X /\ c.channel # "closed"
              /\ d.channel # "open" /\ Asking(d) \subseteq Shutdowns,
         "launch" \in X \cap Asking(d) => c.launching # "failed"
  PROVE  Moves(c, d, X, (X \cup Asking(c)) \ Asking(d))
<1> DEFINE Y == (X \cup Asking(c)) \ Asking(d)
<1>1. /\ d.jobs = c.jobs /\ d.reset = c.reset /\ d.running = c.running /\ d.operations = c.operations
      /\ d.waits = c.waits /\ IsClient(d)
  BY FieldsOf DEF Differs, Wires
<1>2. Told(d) = Told(c) /\ Ops(d) = Ops(c) /\ Waiting(d) = Waiting(c) /\ Op(d) = Op(c)
  BY <1>1 DEF Told, Ops, Op, Waiting
<1>3. JobsSound(d.jobs, d.reset) /\ OperationsSound(d) /\ WaitsSound(d)
  BY <1>1, <1>2 DEF Ready, Plumbed, OperationsSound, WaitsSound
<1>4. Apart(d)
  BY <1>2 DEF Apart, Ready, Plumbed, Live
<1>5. Returning(c) => Returning(d)
  BY <1>1 DEF Returning
<1>6. Live(d) \cup Y = Live(c) \cup X
  BY <1>2 DEF Live
<1>7. Y \cap Live(d) = {}
  <2>1. Asking(c) \cap Ops(c) = {}
    <3>1. Operations \cap Requesters = {}
      BY Apiece DEF Operations, Shutdowns
    <3> QED BY <3>1, Kinds DEF Ready
  <2> QED BY <1>2, <2>1 DEF Live, Ready, Plumbed, Apart
<1>8. Differs(c, d, Wires)
  BY DEF Differs
<1> QED BY <1>1, <1>3, <1>4, <1>5, <1>6, <1>7, <1>8 DEF Moves, Ready, Plumbed

\* SettleAll moves those whom it tells.
LEMMA SettleAllMoves ==
  ASSUME NEW c, NEW X, Ready(c, X), NEW whos \in Seq(Whos), IsInjective(whos), NEW how \in Hows,
         ToSet(whos) \subseteq X, "stopper" \in ToSet(whos) => ToSet(whos) \cap Resetters = {},
         "stopper" \in Told(c) => \A r \in Resetters \cap ToSet(whos) : c.reset[r] # "stopping",
         "launch" \in ToSet(whos) => c.launching # "failed"
  PROVE  Moves(c, SettleAll(c, whos, how), X, X \ ToSet(whos))
<1> DEFINE s == [i \in DOMAIN whos |-> [who |-> whos[i], how |-> how]]
           d == SettleAll(c, whos, how)
<1>1. JobsSound(s, c.reset) /\ Names(s) = ToSet(whos)
  BY JobsOf
<1>2. Differs(c, d, {"jobs"}) /\ d.jobs = c.jobs \o s
  BY FieldsOf DEF SettleAll, Differs, IsClient, Ready
<1> HIDE DEF d, s
<1>3. /\ d.channel = c.channel /\ d.queue = c.queue /\ d.sent = c.sent /\ d.dispatched = c.dispatched
      /\ d.reset = c.reset /\ d.running = c.running /\ d.operations = c.operations
      /\ d.waits = c.waits /\ IsClient(d)
  BY <1>2, FieldsOf DEF Differs
<1>4. Asking(d) = Asking(c) /\ Ops(d) = Ops(c) /\ Waiting(d) = Waiting(c) /\ Op(d) = Op(c)
  BY <1>3 DEF Asking, Ops, Op, Waiting
<1>5. QueueSound(d) /\ OperationsSound(d) /\ WaitsSound(d)
  BY <1>3, <1>4 DEF Ready, Plumbed, QueueSound, OperationsSound, WaitsSound
<1>6. JobsSound(d.jobs, d.reset) /\ Told(d) = Told(c) \cup ToSet(whos)
  <2>1. JobsSound(c.jobs, c.reset) /\ Names(c.jobs) \cap Names(s) = {} /\ Told(c) = Names(c.jobs)
    BY <1>1 DEF Ready, Plumbed, Live, Told
  <2>2. "stopper" \in Names(c.jobs) => \A r \in Resetters \cap Names(s) : c.reset[r] # "stopping"
    BY <1>1, <2>1
  <2>3. JobsSound(c.jobs \o s, c.reset) /\ Names(c.jobs \o s) = Names(c.jobs) \cup Names(s)
    BY <1>1, <2>1, <2>2, JobsAppended
  <2> QED BY <1>1, <1>2, <1>3, <2>1, <2>3 DEF Told
<1>7. Apart(d) /\ (X \ ToSet(whos)) \cap Live(d) = {}
  BY <1>4, <1>6 DEF Apart, Ready, Plumbed, Live
<1>8. Live(d) \cup (X \ ToSet(whos)) = Live(c) \cup X
  BY <1>4, <1>6 DEF Live
<1>9. Returning(c) => Returning(d)
  <2>1. c.jobs \in Seq(Jobs) /\ s \in Seq(Jobs)
    BY <1>1 DEF Ready, Plumbed, JobsSound
  <2>2. \A i \in DOMAIN c.jobs : i \in DOMAIN d.jobs /\ d.jobs[i] = c.jobs[i]
    BY <1>2, <2>1
  <2> QED BY <1>3, <2>2 DEF Returning
<1>10. Differs(c, d, Wires)
  BY <1>2 DEF Differs, Wires
<1>11. Moves(c, d, X, X \ ToSet(whos))
  BY <1>3, <1>4, <1>5, <1>6, <1>7, <1>8, <1>9, <1>10 DEF Moves, Ready, Plumbed
<1> QED BY <1>11 DEF d

\* Settle moves the one whom it tells.
LEMMA SettleMoves ==
  ASSUME NEW c, NEW X, Ready(c, X), NEW who \in Whos \cap X, NEW how \in Hows,
         "stopper" \in Told(c) /\ who \in Resetters => c.reset[who] # "stopping",
         who = "launch" => c.launching # "failed"
  PROVE  Moves(c, Settle(c, who, how), X, X \ {who})
<1>1. <<who>> \in Seq(Whos) /\ IsInjective(<<who>>) /\ ToSet(<<who>>) = {who}
  BY DEF IsInjective, ToSet
<1>2. Settle(c, who, how) = SettleAll(c, <<who>>, how)
  <2>1. [i \in DOMAIN <<who>> |-> [who |-> <<who>>[i], how |-> how]] = << [who |-> who, how |-> how] >>
    OBVIOUS
  <2>2. c.jobs \in Seq(Jobs) /\ [who |-> who, how |-> how] \in Jobs
    BY DEF Ready, Plumbed, JobsSound, Jobs
  <2>3. Append(c.jobs, [who |-> who, how |-> how]) = c.jobs \o << [who |-> who, how |-> how] >>
    BY <2>2, AppendIsConcat
  <2> QED BY <2>1, <2>3 DEF Settle, SettleAll
<1>3. "stopper" \in {who} => {who} \cap Resetters = {}
  BY Apiece
<1> HIDE DEF Whos, Hows
<1>4. Moves(c, SettleAll(c, <<who>>, how), X, X \ ToSet(<<who>>))
  BY <1>1, <1>3, SettleAllMoves
<1> QED BY <1>1, <1>2, <1>4

\* PumpWrites moves a request from the queue to the helper.
LEMMA PumpWritesMoves ==
  ASSUME NEW c, NEW X, Ready(c, X)
  PROVE  Moves(c, PumpWrites(c), X, X)
<1> DEFINE d == [c EXCEPT !.sent = Head(c.queue), !.queue = Tail(@),
                          !.dispatched = @ \cup (Shutdowns \cap {Head(c.queue)})]
<1>1. Moves(c, c, X, X)
  BY DEF Moves, Ready, Differs
<1>2. CASE c.channel # "closed" /\ c.sent = "none" /\ c.queue # <<>>
  <2>1. QueueSound(c)
    BY DEF Ready, Plumbed
  <2>2. /\ Head(c.queue) \in Requesters /\ Tail(c.queue) \in Seq(Requesters) /\ IsInjective(Tail(c.queue))
        /\ ToSet(c.queue) = ToSet(Tail(c.queue)) \cup {Head(c.queue)}
        /\ Head(c.queue) \notin ToSet(Tail(c.queue))
    BY <1>2, <2>1, TailProperties DEF QueueSound
  <2>3. /\ Differs(c, d, Wires \ {"jobs"}) /\ d.channel = c.channel /\ d.sent = Head(c.queue)
        /\ d.queue = Tail(c.queue) /\ d.dispatched = c.dispatched \cup (Shutdowns \cap {Head(c.queue)})
        /\ d.reset = c.reset
    BY FieldsOf, ZenonT(40) DEF Ready, IsClient, Differs, Wires
  <2> HIDE DEF d
  <2>4. "none" \notin Requesters
    BY Apiece DEF Shutdowns
  <2>5. Asking(d) = Asking(c)
    BY <1>2, <2>2, <2>3, <2>4 DEF Asking
  <2>6. QueueSound(d)
    BY <2>1, <2>2, <2>3, <2>5 DEF QueueSound
  <2>7. "stop" \in d.dispatched => "stop" \in c.dispatched \/
          ("stop" \in Live(c) /\ d.channel # "open" /\ Asking(d) \subseteq Shutdowns)
    <3>1. SUFFICES ASSUME Head(c.queue) = "stop"
                   PROVE  "stop" \in Live(c) /\ d.channel # "open" /\ Asking(d) \subseteq Shutdowns
      BY <2>3
    <3>2. "stop" \in Asking(c)
      BY <2>2, <3>1 DEF Asking
    <3>3. c.channel = "draining" /\ Asking(c) = ToSet(c.queue)
      BY <1>2, <2>1, <3>2 DEF QueueSound, Asking, Shutdowns
    <3> QED BY <2>1, <2>3, <2>5, <3>2, <3>3 DEF QueueSound, Live
  <2>8. X \cap Asking(d) = {} /\ (X \cup Asking(c)) \ Asking(d) = X
    BY <2>5 DEF Ready, Live
  <2>9. Moves(c, d, X, (X \cup Asking(c)) \ Asking(d))
    BY <1>2, <2>3, <2>5, <2>6, <2>7, <2>8, Rewired
  <2> QED BY <1>2, <2>8, <2>9 DEF PumpWrites, d
<1> QED BY <1>1, <1>2 DEF PumpWrites

\* Request queues a request, or tells that there is no helper.
LEMMA RequestMoves ==
  ASSUME NEW c, NEW X, Ready(c, X), NEW who \in Requesters \cap X, who \notin Shutdowns,
         who \in Resetters => c.reset[who] = "off", who = "launch" => c.launching # "failed"
  PROVE  Moves(c, Request(c, who), X, X \ {who})
<1> DEFINE d == [c EXCEPT !.queue = Append(@, who)]
<1>1. CASE c.channel = "open"
  <2>1. QueueSound(c) /\ who \notin Asking(c) /\ who # "none"
    BY Apiece DEF Ready, Plumbed, Live, Shutdowns
  <2>2. /\ d.queue \in Seq(Requesters) /\ IsInjective(d.queue)
        /\ ToSet(d.queue) = ToSet(c.queue) \cup {who}
        /\ Differs(c, d, Wires \ {"jobs"}) /\ d.channel = c.channel /\ d.sent = c.sent
        /\ d.dispatched = c.dispatched /\ d.reset = c.reset
    <3>1. /\ Differs(c, d, Wires \ {"jobs"}) /\ d.channel = c.channel /\ d.sent = c.sent
          /\ d.dispatched = c.dispatched /\ d.reset = c.reset /\ d.queue = Append(c.queue, who)
      BY FieldsOf DEF Ready, IsClient, Differs, Wires
    <3>2. /\ who \notin ToSet(c.queue) /\ c.queue \in Seq(Requesters) /\ IsInjective(c.queue)
          /\ who \in Requesters
      BY <2>1 DEF QueueSound, Asking
    <3>3. /\ c.queue \o <<who>> \in Seq(Requesters) /\ IsInjective(c.queue \o <<who>>)
          /\ ToSet(c.queue \o <<who>>) = ToSet(c.queue) \cup {who}
      BY <3>2, PutProperties
    <3>4. Append(c.queue, who) = c.queue \o <<who>>
      BY <3>2, AppendIsConcat
    <3> QED BY <3>1, <3>3, <3>4
  <2> HIDE DEF d
  <2>3. Asking(d) = Asking(c) \cup {who}
    BY <2>2 DEF Asking
  <2>4. QueueSound(d)
    BY <1>1, <2>1, <2>2, <2>3 DEF QueueSound, Asking
  <2>5. (X \cup Asking(c)) \ Asking(d) = X \ {who}
    BY <2>3 DEF Ready, Live
  <2>6. Moves(c, d, X, (X \cup Asking(c)) \ Asking(d))
    BY <1>1, <2>1, <2>2, <2>3, <2>4, Rewired DEF Ready, Live
  <2>7. Moves(d, PumpWrites(d), X \ {who}, X \ {who})
    BY <2>5, <2>6, PumpWritesMoves DEF Moves
  <2>8. Moves(c, d, X, X \ {who})
    BY <2>5, <2>6
  <2>9. Moves(c, PumpWrites(d), X, X \ {who})
    BY <2>7, <2>8, MovesChain
  <2> QED BY <1>1, <2>9 DEF Request, d
<1>2. CASE c.channel # "open"
  <2>1. who \in Whos /\ "not-running" \in Hows
    BY DEF Whos, Hows
  <2>2. Moves(c, Settle(c, who, "not-running"), X, X \ {who})
    BY <2>1, SettleMoves
  <2> QED BY <1>2, <2>2 DEF Request
<1> QED BY <1>1, <1>2

\* RequestShutdown does so for a shutdown, of a channel that drains.
LEMMA RequestShutdownMoves ==
  ASSUME NEW c, NEW X, Ready(c, X), NEW who \in Shutdowns \cap X, c.channel # "open"
  PROVE  Moves(c, RequestShutdown(c, who), X, X \ {who})
<1> DEFINE d == [c EXCEPT !.queue = <<who>> \o @]
<1>0. who \in Requesters /\ who # "none" /\ who \notin Resetters /\ who # "launch"
  BY Apiece DEF Shutdowns
<1>1. CASE c.channel # "closed"
  <2>1. QueueSound(c) /\ who \notin Asking(c)
    BY DEF Ready, Plumbed, Live
  <2>2. /\ d.queue \in Seq(Requesters) /\ IsInjective(d.queue)
        /\ ToSet(d.queue) = ToSet(c.queue) \cup {who}
        /\ Differs(c, d, Wires \ {"jobs"}) /\ d.channel = c.channel /\ d.sent = c.sent
        /\ d.dispatched = c.dispatched /\ d.reset = c.reset
    <3>1. /\ Differs(c, d, Wires \ {"jobs"}) /\ d.channel = c.channel /\ d.sent = c.sent
          /\ d.dispatched = c.dispatched /\ d.reset = c.reset /\ d.queue = <<who>> \o c.queue
      BY FieldsOf DEF Ready, IsClient, Differs, Wires
    <3>2. who \notin ToSet(c.queue) /\ c.queue \in Seq(Requesters) /\ IsInjective(c.queue)
      BY <2>1 DEF QueueSound, Asking
    <3>3. /\ <<who>> \o c.queue \in Seq(Requesters) /\ IsInjective(<<who>> \o c.queue)
          /\ ToSet(<<who>> \o c.queue) = ToSet(c.queue) \cup {who}
      BY <1>0, <3>2, PutProperties
    <3> QED BY <3>1, <3>3
  <2> HIDE DEF d
  <2>3. Asking(d) = Asking(c) \cup {who}
    BY <2>2 DEF Asking
  <2>4. QueueSound(d)
    BY <1>0, <1>1, <2>1, <2>2, <2>3 DEF QueueSound, Asking
  <2>5. (X \cup Asking(c)) \ Asking(d) = X \ {who}
    BY <2>3 DEF Ready, Live
  <2>6. Moves(c, d, X, (X \cup Asking(c)) \ Asking(d))
    BY <1>0, <1>1, <2>1, <2>2, <2>3, <2>4, Rewired DEF Ready, Live
  <2>7. Moves(d, PumpWrites(d), X \ {who}, X \ {who})
    BY <2>5, <2>6, PumpWritesMoves DEF Moves
  <2>8. Moves(c, d, X, X \ {who})
    BY <2>5, <2>6
  <2>9. Moves(c, PumpWrites(d), X, X \ {who})
    BY <2>7, <2>8, MovesChain
  <2> QED BY <1>1, <2>9 DEF RequestShutdown, d
<1>2. CASE c.channel = "closed"
  <2>1. who \in Whos /\ "not-running" \in Hows
    BY <1>0 DEF Whos, Hows
  <2>2. Moves(c, Settle(c, who, "not-running"), X, X \ {who})
    BY <1>0, <2>1, SettleMoves
  <2> QED BY <1>2, <2>2 DEF RequestShutdown
<1> QED BY <1>1, <1>2

\* Those who were asking are told.
LEMMA ReleasedMoves ==
  ASSUME NEW c, NEW d, NEW X, Ready(c, X), Differs(c, d, Wires \ {"jobs", "dispatched"}), QueueSound(d),
         c.channel # "open" => d.channel # "open",
         c.channel = "closed" => d.channel = "closed",
         Asking(d) \subseteq Asking(c), "launch" \in Asking(c) => c.launching # "failed",
         NEW whos \in Seq(Requesters), IsInjective(whos), ToSet(whos) = Asking(c) \ Asking(d),
         NEW how \in Hows
  PROVE  Moves(c, SettleAll(d, whos, how), X, X)
<1>1. d.dispatched = c.dispatched /\ d.reset = c.reset /\ Differs(c, d, Wires \ {"jobs"})
      /\ d.launching = c.launching
  BY FieldsOf DEF Differs, Wires
<1> DEFINE Y == (X \cup Asking(c)) \ Asking(d)
<1>2. Moves(c, d, X, Y)
  BY <1>1, Rewired DEF Ready, Live
<1>3. Y \ ToSet(whos) = X
  BY DEF Ready, Live
<1>4. whos \in Seq(Whos)
  BY DEF Whos
<1>5. "stopper" \notin ToSet(whos)
  BY Apiece, Kinds DEF Ready, Shutdowns
<1>6. \A r \in Resetters \cap ToSet(whos) : d.reset[r] = "off"
  BY <1>1 DEF Ready, Plumbed, QueueSound
<1>8. Ready(d, Y) /\ ToSet(whos) \subseteq Y /\ ("launch" \in ToSet(whos) => d.launching # "failed")
  BY <1>1, <1>2 DEF Moves
<1> HIDE DEF Y
<1>7. Moves(d, SettleAll(d, whos, how), Y, Y \ ToSet(whos))
  BY <1>4, <1>5, <1>6, <1>8, SettleAllMoves
<1>9. Moves(d, SettleAll(d, whos, how), Y, X)
  BY <1>3, <1>7
<1> QED BY <1>2, <1>9, MovesChain

\* What is pending is what is asked, once each.
LEMMA PendingProperties ==
  ASSUME NEW c, QueueSound(c)
  PROVE  Pending(c) \in Seq(Requesters) /\ IsInjective(Pending(c)) /\ ToSet(Pending(c)) = Asking(c)
<1>1. CASE c.sent = "none"
  <2>1. Pending(c) = c.queue
    BY <1>1 DEF Pending, QueueSound
  <2> QED BY <1>1, <2>1 DEF QueueSound, Asking
<1>2. CASE c.sent # "none"
  <2>1. Pending(c) = <<c.sent>> \o c.queue
    BY <1>2 DEF Pending
  <2>2. /\ c.sent \in Requesters /\ c.sent \notin ToSet(c.queue) /\ c.queue \in Seq(Requesters)
        /\ IsInjective(c.queue)
    BY <1>2 DEF QueueSound
  <2> QED BY <1>2, <2>1, <2>2, PutProperties DEF Asking
<1> QED BY <1>1, <1>2

\* Close tells everyone who asked, and asks nothing more.
LEMMA CloseMoves ==
  ASSUME NEW c, NEW X, Ready(c, X), "launch" \in Asking(c) => c.launching # "failed"
  PROVE  Moves(c, Close(c), X, X) /\ Close(c).channel = "closed" /\ Asking(Close(c)) = {}
<1> DEFINE d == [c EXCEPT !.channel = "closed", !.sent = "none", !.queue = <<>>]
<1>1. /\ Differs(c, d, Wires \ {"jobs", "dispatched"}) /\ d.channel = "closed" /\ d.sent = "none"
      /\ d.queue = <<>> /\ d.dispatched = c.dispatched
  BY FieldsOf, ZenonT(40) DEF Ready, IsClient, Differs, Wires
<1> HIDE DEF d
<1>2. Asking(d) = {}
  BY <1>1 DEF Asking, ToSet
<1>3. QueueSound(c)
  BY DEF Ready, Plumbed
<1>4. QueueSound(d)
  <2>1. "none" \notin Shutdowns /\ <<>> \in Seq(Requesters) /\ IsInjective(<<>>) /\ ToSet(<<>>) = {}
    BY DEF Shutdowns, IsInjective, ToSet
  <2> QED BY <1>1, <1>2, <1>3, <2>1 DEF QueueSound
<1>5. Moves(c, SettleAll(d, Pending(c), "transport"), X, X)
  <2>1. /\ Pending(c) \in Seq(Requesters) /\ IsInjective(Pending(c))
        /\ ToSet(Pending(c)) = Asking(c) \ Asking(d) /\ "transport" \in Hows
    BY <1>2, <1>3, PendingProperties DEF Hows
  <2> QED BY <1>1, <1>2, <1>4, <2>1, ReleasedMoves
<1>6. Close(c) = SettleAll(d, Pending(c), "transport")
  BY DEF Close, d
<1>7. Close(c).channel = "closed" /\ Asking(Close(c)) = {}
  <2>1. SettleAll(d, Pending(c), "transport").channel = d.channel
        /\ SettleAll(d, Pending(c), "transport").sent = d.sent
        /\ SettleAll(d, Pending(c), "transport").queue = d.queue
    BY <1>1, FieldsOf DEF SettleAll, Differs, IsClient
  <2> QED BY <1>1, <1>2, <1>6, <2>1 DEF Asking
<1> QED BY <1>5, <1>6, <1>7

\* BeginDraining tells everyone who is queued.
LEMMA BeginDrainingMoves ==
  ASSUME NEW c, NEW X, Ready(c, X), "launch" \in Asking(c) => c.launching # "failed"
  PROVE  Moves(c, BeginDraining(c), X, X) /\ BeginDraining(c).channel # "open"
<1> DEFINE d == [c EXCEPT !.channel = "draining", !.queue = <<>>]
           e == SettleAll(d, Reverse(c.queue), "not-running")
<1>1. CASE c.channel = "open"
  <2>1. /\ Differs(c, d, Wires \ {"jobs", "dispatched"}) /\ d.channel = "draining" /\ d.sent = c.sent
        /\ d.queue = <<>> /\ d.dispatched = c.dispatched /\ d.reset = c.reset
    BY FieldsOf, ZenonT(40) DEF Ready, IsClient, Differs, Wires
  <2>2. e.channel = d.channel
    <3> HIDE DEF d
    <3> QED BY <2>1, FieldsOf DEF SettleAll, Differs, IsClient
  <2> HIDE DEF d
  <2>3. QueueSound(c)
    BY DEF Ready, Plumbed
  <2>4. <<>> \in Seq(Requesters) /\ IsInjective(<<>>) /\ ToSet(<<>>) = {}
    BY DEF IsInjective, ToSet
  <2>5. Asking(d) = {c.sent} \ {"none"} /\ ToSet(c.queue) = Asking(c) \ Asking(d) /\ Asking(d) \subseteq Asking(c)
    <3>1. "none" \notin ToSet(c.queue)
      BY <2>3, Apiece DEF QueueSound, ToSet, Shutdowns
    <3> QED BY <2>1, <2>3, <2>4, <3>1 DEF Asking, QueueSound
  <2>6. QueueSound(d)
    BY <1>1, <2>1, <2>3, <2>4, <2>5 DEF QueueSound
  <2>7. /\ Reverse(c.queue) \in Seq(Requesters) /\ IsInjective(Reverse(c.queue))
        /\ ToSet(Reverse(c.queue)) = Asking(c) \ Asking(d) /\ "not-running" \in Hows
    BY <2>3, <2>5, ReverseProperties DEF QueueSound, Hows
  <2>8. Moves(c, e, X, X)
    BY <1>1, <2>1, <2>5, <2>6, <2>7, ReleasedMoves
  <2> HIDE DEF e
  <2>9. Moves(e, PumpWrites(e), X, X)
    BY <2>8, PumpWritesMoves DEF Moves
  <2>10. Moves(c, PumpWrites(e), X, X) /\ PumpWrites(e).channel # "open"
    BY <2>1, <2>2, <2>8, <2>9, MovesChain DEF Moves
  <2> QED BY <1>1, <2>10 DEF BeginDraining, e, d
<1>2. CASE c.channel # "open"
  <2>1. Moves(c, PumpWrites(c), X, X)
    BY PumpWritesMoves
  <2> QED BY <1>2, <2>1 DEF BeginDraining, Moves
<1> QED BY <1>1, <1>2

\* An answer tells the one who asked.
LEMMA AnsweredMoves ==
  ASSUME NEW c, NEW X, Ready(c, X), c.sent # "none", NEW how \in Hows,
         "launch" \in Asking(c) => c.launching # "failed"
  PROVE  Moves(c, Settle([c EXCEPT !.sent = "none"], c.sent, how), X, X)
<1> DEFINE d == [c EXCEPT !.sent = "none"]
           Y == (X \cup Asking(c)) \ Asking(d)
<1>1. /\ Differs(c, d, Wires \ {"jobs"}) /\ d.channel = c.channel /\ d.sent = "none"
      /\ d.queue = c.queue /\ d.dispatched = c.dispatched /\ d.reset = c.reset /\ d.launching = c.launching
  BY FieldsOf DEF Ready, IsClient, Differs, Wires
<1> HIDE DEF d
<1>2. QueueSound(c) /\ "none" \notin Requesters
  BY Apiece DEF Ready, Plumbed, Shutdowns
<1>3. Asking(d) = ToSet(c.queue) /\ Asking(c) = Asking(d) \cup {c.sent} /\ c.sent \notin Asking(d)
  BY <1>1, <1>2 DEF Asking, QueueSound
<1>11. "none" \notin ToSet(c.queue)
  BY <1>2, <1>3, Kinds DEF Ready
<1>4. QueueSound(d)
  BY <1>1, <1>2, <1>3, <1>11 DEF QueueSound, Shutdowns
<1>5. Moves(c, d, X, Y)
  BY <1>1, <1>3, <1>4, Rewired DEF Ready, Live
<1>6. Y \ {c.sent} = X /\ c.sent \in Y
  BY <1>3 DEF Ready, Live
<1>7. c.sent \in Whos /\ (c.sent \in Resetters => d.reset[c.sent] = "off")
      /\ (c.sent = "launch" => d.launching # "failed")
  BY <1>1, <1>2, <1>3 DEF QueueSound, Whos
<1>8. Ready(d, Y)
  BY <1>5 DEF Moves
<1> HIDE DEF Y
<1>9. Moves(d, Settle(d, c.sent, how), Y, Y \ {c.sent})
  BY <1>6, <1>7, <1>8, SettleMoves
<1>10. Moves(c, Settle(d, c.sent, how), X, X)
  BY <1>5, <1>6, <1>9, MovesChain
<1> QED BY <1>10 DEF d

\* A request that is not at the helper leaves the queue.
LEMMA WithdrawMoves ==
  ASSUME NEW c, NEW X, Ready(c, X), NEW who, who # c.sent
  PROVE  /\ Moves(c, Withdraw(c, who), X, X \cup ({who} \cap Asking(c)))
         /\ Asking(Withdraw(c, who)) = Asking(c) \ {who}
<1> DEFINE d == Withdraw(c, who)
<1>1. /\ Differs(c, d, Wires \ {"jobs"}) /\ d.channel = c.channel /\ d.sent = c.sent
      /\ d.queue = RemoveFirst(c.queue, who) /\ d.dispatched = c.dispatched /\ d.reset = c.reset
  BY FieldsOf DEF Ready, IsClient, Differs, Wires, Withdraw
<1> HIDE DEF d
<1>2. QueueSound(c)
  BY DEF Ready, Plumbed
<1>3. /\ d.queue \in Seq(Requesters) /\ IsInjective(d.queue) /\ ToSet(d.queue) = ToSet(c.queue) \ {who}
  BY <1>1, <1>2, RemoveFirstProperties DEF QueueSound
<1>4. Asking(d) = Asking(c) \ {who}
  BY <1>1, <1>3 DEF Asking
<1>5. QueueSound(d)
  BY <1>1, <1>2, <1>3, <1>4 DEF QueueSound
<1>6. Moves(c, d, X, (X \cup Asking(c)) \ Asking(d))
  BY <1>1, <1>4, <1>5, Rewired DEF Ready, Live
<1>7. (X \cup Asking(c)) \ Asking(d) = X \cup ({who} \cap Asking(c))
  BY <1>4 DEF Ready, Live
<1>8. Moves(c, d, X, X \cup ({who} \cap Asking(c)))
  BY <1>6, <1>7
<1> QED BY <1>4, <1>8 DEF d

\* A deadline tells the one it is about.
LEMMA ExpiredMoves ==
  ASSUME NEW c, NEW X, Ready(c, X), NEW who \in Asking(c),
         "launch" \in Asking(c) => c.launching # "failed"
  PROVE  Moves(c, Expired(c, who), X, X)
<1>1. QueueSound(c) /\ "none" \notin Requesters /\ who \in Requesters /\ "timeout" \in Hows
  BY Apiece, Kinds DEF Ready, Plumbed, Shutdowns, Hows
<1>2. CASE who = c.sent
  BY <1>1, <1>2, AnsweredMoves DEF Expired
<1>3. CASE who # c.sent
  <2> DEFINE d == Withdraw(c, who)
             Y == X \cup {who}
  <2>1. Moves(c, d, X, Y)
    <3>1. X \cup ({who} \cap Asking(c)) = Y
      OBVIOUS
    <3> QED BY <1>3, <3>1, WithdrawMoves
  <2>2. d.reset = c.reset /\ d.launching = c.launching
    BY <2>1, FieldsOf DEF Moves, Differs, Wires
  <2>3. Y \ {who} = X /\ who \in Whos \cap Y
    BY <1>1 DEF Ready, Live, Whos
  <2>4. (who \in Resetters => d.reset[who] = "off") /\ (who = "launch" => d.launching # "failed")
    BY <1>1, <2>2 DEF QueueSound
  <2> HIDE DEF d, Y
  <2>5. Moves(d, Settle(d, who, "timeout"), Y, Y \ {who})
    BY <1>1, <2>1, <2>3, <2>4, SettleMoves DEF Moves
  <2>6. Moves(c, Settle(d, who, "timeout"), X, X)
    BY <2>1, <2>3, <2>5, MovesChain
  <2> QED BY <1>3, <2>6 DEF Expired, Withdraw, d
<1> QED BY <1>2, <1>3

-----------------------------------------------------------------------------
(* What is left alone                                                      *)

\* What the channel, the queue of microtasks and the tokens do not depend on.
Scalars == Fields \ {"channel", "queue", "sent", "jobs", "running", "operations", "waits"}

\* Everything but the channel and the queue of microtasks may have changed.
LEMMA Kept ==
  ASSUME NEW c, NEW d, Plumbed(c), Differs(c, d, Scalars \cup {"running", "operations", "waits"}),
         d.dispatched \subseteq c.dispatched, c.sent \in Shutdowns => c.sent \in d.dispatched,
         \A r \in Resetters \cap (Asking(c) \cup Told(c)) : d.reset[r] = c.reset[r],
         OperationsSound(d), WaitsSound(d), Ops(d) \cap Told(c) = {},
         Waiting(d) \cap (Told(c) \cup Asking(c)) = {}
  PROVE  /\ Plumbed(d) /\ Asking(d) = Asking(c) /\ Told(d) = Told(c)
         /\ Live(d) = Asking(c) \cup Told(c) \cup Ops(d) \cup Waiting(d)
         /\ Returning(d) = Returning(c) /\ d.channel = c.channel /\ d.sent = c.sent /\ d.queue = c.queue
         /\ d.jobs = c.jobs
<1>1. d.jobs = c.jobs /\ d.channel = c.channel /\ d.queue = c.queue /\ d.sent = c.sent
  BY FieldsOf DEF Differs, Scalars
<1>2. Asking(d) = Asking(c) /\ Told(d) = Told(c)
  BY <1>1 DEF Asking, Told
<1>3. QueueSound(d)
  BY <1>1, <1>2 DEF Plumbed, QueueSound
<1>4. \A i \in DOMAIN c.jobs : c.jobs[i].who \in Told(c)
  BY DEF Told, Names
<1>5. JobsSound(d.jobs, d.reset)
  BY <1>1, <1>4 DEF Plumbed, JobsSound
<1>6. Apart(d)
  BY <1>2 DEF Plumbed, Apart
<1>7. Returning(d) = Returning(c)
  BY <1>1, <1>4 DEF Returning
<1> QED BY <1>1, <1>2, <1>3, <1>5, <1>6, <1>7 DEF Plumbed, Live

\* Only scalars have changed.
LEMMA Changed ==
  ASSUME NEW c, NEW d, NEW X, NEW F \in SUBSET Scalars, Base(c, X), Differs(c, d, F),
         \A field \in F \ Loose : d[field] \in Types[field],
         d.dispatched \subseteq c.dispatched, c.sent \in Shutdowns => c.sent \in d.dispatched,
         \A r \in Resetters \cap (Asking(c) \cup Told(c)) : d.reset[r] = c.reset[r]
  PROVE  /\ Typed(d) /\ Plumbed(d) /\ Live(d) = Live(c) /\ Asking(d) = Asking(c) /\ Told(d) = Told(c)
         /\ Waiting(d) = Waiting(c) /\ Ops(d) = Ops(c) /\ Returning(d) = Returning(c)
         /\ d.channel = c.channel /\ d.sent = c.sent /\ d.queue = c.queue /\ d.jobs = c.jobs
         /\ d.running = c.running /\ d.operations = c.operations /\ d.waits = c.waits
<1>1. Typed(d)
  BY TypedKept DEF Base
<1>2. d.running = c.running /\ d.operations = c.operations /\ d.waits = c.waits
  BY FieldsOf DEF Differs, Scalars
<1>3. Op(d) = Op(c) /\ Ops(d) = Ops(c) /\ Waiting(d) = Waiting(c)
  BY <1>2 DEF Op, Ops, Waiting
<1>4. OperationsSound(d) /\ WaitsSound(d)
  BY <1>2, <1>3 DEF Base, Plumbed, OperationsSound, WaitsSound
<1>5. Differs(c, d, Scalars \cup {"running", "operations", "waits"})
  BY DEF Differs
<1>6. Ops(d) \cap Told(c) = {} /\ Waiting(d) \cap (Told(c) \cup Asking(c)) = {} /\ Plumbed(c)
  BY <1>3 DEF Base, Plumbed, Apart
<1>7. /\ Plumbed(d) /\ Asking(d) = Asking(c) /\ Told(d) = Told(c)
      /\ Live(d) = Asking(c) \cup Told(c) \cup Ops(d) \cup Waiting(d)
      /\ Returning(d) = Returning(c) /\ d.channel = c.channel /\ d.sent = c.sent /\ d.queue = c.queue
      /\ d.jobs = c.jobs
  BY <1>4, <1>5, <1>6, Kept
<1> QED BY <1>1, <1>2, <1>3, <1>7 DEF Live

\* What the soundness does not depend on but by its type.
Quiet == {"want", "previous", "blocked", "applied", "effective", "moved", "asked", "authoritative",
          "missing", "seen", "said", "planned", "stopFault", "shutDown"}

\* A client is as sound as before when only quiet fields change.
LEMMA QuietSound ==
  ASSUME NEW c, NEW d, NEW X, Base(c, X), Differs(c, d, Quiet), Typed(d)
  PROVE  Base(d, X) /\ (Held(c) => Held(d))
<1>1. Quiet \in SUBSET Scalars /\ Quiet \subseteq Fields \ Loose
  BY FieldsOf DEF Scalars, Quiet, Loose
<1>3. /\ d.desired = c.desired /\ d.started = c.started /\ d.child = c.child /\ d.launching = c.launching
      /\ d.health = c.health /\ d.terminating = c.terminating
      /\ d.termination = c.termination /\ d.stop = c.stop /\ d.unclean = c.unclean
      /\ d.timer = c.timer /\ d.crashLoop = c.crashLoop /\ d.probe = c.probe
      /\ d.readiness = c.readiness /\ d.dispatched = c.dispatched /\ d.reset = c.reset
  BY FieldsOf DEF Differs, Quiet
<1>8. \A field \in Quiet \ Loose : d[field] \in Types[field]
  BY <1>1, TypesOf DEF Typed
<1>9. c.sent \in Shutdowns => c.sent \in d.dispatched
  BY <1>3 DEF Base, Plumbed, QueueSound
<1>2. /\ Plumbed(d) /\ Live(d) = Live(c) /\ Asking(d) = Asking(c) /\ Told(d) = Told(c)
      /\ Waiting(d) = Waiting(c) /\ Returning(d) = Returning(c) /\ d.channel = c.channel
      /\ d.running = c.running /\ d.operations = c.operations /\ d.waits = c.waits
  BY <1>1, <1>3, <1>8, <1>9, Changed
<1> DEFINE H == Live(c) \cup X
<1>4. /\ LaunchSound(c, H) /\ HealthSound(c, H) /\ ReconcilerSound(c, H) /\ StopSound(c, H)
      /\ ResetSound(c, H) /\ CircuitSound(c) /\ X \cap Live(c) = {}
  BY DEF Base
<1> HIDE DEF H
<1>5. /\ LaunchSound(d, H) /\ HealthSound(d, H) /\ ReconcilerSound(d, H) /\ StopSound(d, H)
      /\ ResetSound(d, H) /\ CircuitSound(d)
  BY <1>2, <1>3, <1>4 DEF LaunchSound, HealthSound, ReconcilerSound, StopSound, ResetSound, ResetFits, CircuitSound
<1>6. Base(d, X)
  BY <1>2, <1>4, <1>5 DEF Base, H
<1>7. Held(c) => Held(d)
  BY <1>2, <1>3 DEF Held
<1> QED BY <1>6, <1>7

\* A client that is sound is ready for the channel's operations.
LEMMA BaseReady ==
  ASSUME NEW c, NEW X, Base(c, X)
  PROVE  Ready(c, X) /\ ("launch" \in Asking(c) => c.launching # "failed")
BY DEF Base, Typed, Ready, LaunchSound

\* The channel's operations keep what is sound.
LEMMA RequestSound ==
  ASSUME NEW c, NEW X, Base(c, X), NEW who \in Requesters \cap X, who \notin Shutdowns,
         who \in Resetters => c.reset[who] = "off", who = "launch" => c.launching # "failed"
  PROVE  Base(Request(c, who), X \ {who}) /\ (Held(c) => Held(Request(c, who)))
<1>1. Moves(c, Request(c, who), X, X \ {who})
  BY BaseReady, RequestMoves
<1> QED BY <1>1, MovesSound

\* Settle takes the one whom it tells from those in hand.
LEMMA SettleSound ==
  ASSUME NEW c, NEW X, Base(c, X), NEW who \in Whos \cap X, NEW how \in Hows,
         "stopper" \in Told(c) /\ who \in Resetters => c.reset[who] # "stopping",
         who = "launch" => c.launching # "failed"
  PROVE  Base(Settle(c, who, how), X \ {who}) /\ (Held(c) => Held(Settle(c, who, how)))
<1>1. Moves(c, Settle(c, who, how), X, X \ {who})
  BY BaseReady, SettleMoves
<1> QED BY <1>1, MovesSound

\* PumpWrites keeps a client sound.
LEMMA PumpWritesSound ==
  ASSUME NEW c, NEW X, Base(c, X)
  PROVE  Base(PumpWrites(c), X) /\ (Held(c) => Held(PumpWrites(c)))
<1>1. Moves(c, PumpWrites(c), X, X)
  BY BaseReady, PumpWritesMoves
<1> QED BY <1>1, MovesSound

\* BeginDraining keeps a client sound.
LEMMA BeginDrainingSound ==
  ASSUME NEW c, NEW X, Base(c, X)
  PROVE  Base(BeginDraining(c), X) /\ (Held(c) => Held(BeginDraining(c)))
<1>1. Moves(c, BeginDraining(c), X, X)
  BY BaseReady, BeginDrainingMoves
<1> QED BY <1>1, MovesSound

-----------------------------------------------------------------------------
(* Quiet changes                                                           *)

\* Only what the soundness does not depend on has changed.
Quieter(c, d) == Typed(d) /\ Differs(c, d, Quiet)

\* An operation of quiet fields keeps a client sound.
LEMMA QuieterSound ==
  ASSUME NEW c, NEW d, NEW X, Base(c, X), Quieter(c, d)
  PROVE  Base(d, X) /\ (Held(c) => Held(d))
BY QuietSound DEF Quieter

\* The fields that it leaves alone.
LEMMA QuieterFields ==
  ASSUME NEW c, NEW d, Quieter(c, d)
  PROVE  /\ d.desired = c.desired /\ d.started = c.started /\ d.child = c.child /\ d.launching = c.launching
         /\ d.health = c.health /\ d.terminating = c.terminating
         /\ d.termination = c.termination /\ d.stop = c.stop /\ d.unclean = c.unclean
         /\ d.timer = c.timer /\ d.crashLoop = c.crashLoop /\ d.probe = c.probe
         /\ d.readiness = c.readiness /\ d.dispatched = c.dispatched /\ d.reset = c.reset
         /\ d.channel = c.channel /\ d.sent = c.sent /\ d.queue = c.queue /\ d.jobs = c.jobs
         /\ d.running = c.running /\ d.operations = c.operations /\ d.waits = c.waits
         /\ d.failures = c.failures
BY FieldsOf DEF Quieter, Differs, Quiet

\* One such operation after another.
LEMMA QuieterChain ==
  ASSUME NEW c, NEW d, NEW e, Quieter(c, d), Quieter(d, e)
  PROVE  Quieter(c, e)
BY DEF Quieter, Differs

\* What makes an operation one of quiet fields.
LEMMA QuieterBy ==
  ASSUME NEW c, NEW d, Typed(c), NEW F \in SUBSET Quiet, Differs(c, d, F),
         \A field \in F : d[field] \in Types[field]
  PROVE  Quieter(c, d)
<1>1. Typed(d)
  BY TypedKept
<1> QED BY <1>1 DEF Quieter, Differs

\* Revise and SetBlocked are such operations.
LEMMA SetBlockedQuieter ==
  ASSUME NEW c, Typed(c), NEW blocked \in BOOLEAN
  PROVE  Quieter(c, Revise(c)) /\ Quieter(c, SetBlocked(c, blocked))
<1>1. ASSUME NEW e, Typed(e)
      PROVE  Quieter(e, Revise(e))
  <2>1. /\ Differs(e, Revise(e), {"applied", "moved"})
        /\ \A field \in {"applied", "moved"} : Revise(e)[field] \in BOOLEAN
    BY <1>1, FieldsOf, ZenonT(40) DEF Revise, Typed, IsClient, Differs
  <2> QED BY <1>1, <2>1, QuieterBy, TypesOf DEF Quiet
<1> DEFINE e == [c EXCEPT !.blocked = blocked]
<1>2. Quieter(c, e)
  <2>1. Differs(c, e, {"blocked"}) /\ e.blocked = blocked
    BY FieldsOf DEF Typed, IsClient, Differs
  <2> HIDE DEF e
  <2> QED BY <2>1, QuieterBy, TypesOf DEF Quiet
<1> HIDE DEF e
<1>3. SetBlocked(c, blocked) = c \/ SetBlocked(c, blocked) = Revise(e)
  BY DEF SetBlocked, e
<1>4. Quieter(c, c)
  BY DEF Quieter, Typed, Differs
<1>5. Quieter(c, Revise(e))
  BY <1>1, <1>2, QuieterChain DEF Quieter
<1> QED BY <1>1, <1>3, <1>4, <1>5

\* So are what the reconciler notes of its session.
LEMMA QuietOperations ==
  ASSUME NEW c, Typed(c)
  PROVE  /\ Quieter(c, Forget(c)) /\ Quieter(c, Unavailable(c)) /\ Quieter(c, Confirm(c))
         /\ Quieter(c, Applied(c)) /\ Quieter(c, Authoritative(c))
<1> DEFINE e == Unavailable(c)
<1>1. Quieter(c, e)
  <2>1. Differs(c, e, {"applied", "effective"}) /\ e.applied \in BOOLEAN /\ e.effective = "none"
    BY FieldsOf DEF Typed, IsClient, Differs, Unavailable
  <2> HIDE DEF e
  <2>2. \A field \in {"applied", "effective"} : e[field] \in Types[field]
    BY <2>1, TypesOf
  <2> QED BY <2>1, <2>2, QuieterBy DEF Quiet
<1>2. Quieter(c, SetBlocked(e, TRUE))
  BY <1>1, SetBlockedQuieter, QuieterChain DEF Quieter
<1>3. Forget(c) = SetBlocked(e, TRUE)
  BY DEF Forget, Unavailable
<1> HIDE DEF e
<1>4. Quieter(c, Confirm(c))
  <2>1. Differs(c, Confirm(c), {"effective"}) /\ Confirm(c).effective \in {"on", "off"}
    BY FieldsOf DEF Typed, IsClient, Differs, Confirm
  <2> QED BY <2>1, QuieterBy, TypesOf DEF Quiet
<1>5. Quieter(c, Applied(c))
  <2>1. Differs(c, Applied(c), {"applied"}) /\ Applied(c).applied \in BOOLEAN
    BY FieldsOf DEF Typed, IsClient, Differs, Applied
  <2>2. \A field \in {"applied"} : Applied(c)[field] \in Types[field]
    BY <2>1, TypesOf
  <2> QED BY <2>1, <2>2, QuieterBy DEF Quiet
<1>6. Quieter(c, Authoritative(c))
  <2>1. Differs(c, Authoritative(c), {"authoritative"}) /\ Authoritative(c).authoritative \in BOOLEAN
    BY FieldsOf DEF Typed, IsClient, Differs, Authoritative
  <2> QED BY <2>1, QuieterBy, TypesOf DEF Quiet
<1> QED BY <1>1, <1>2, <1>3, <1>4, <1>5, <1>6 DEF e

\* A readiness other than the one of a client that has stopped.
LEMMA PublishSound ==
  ASSUME NEW c, NEW X, Base(c, X), NEW w \in Readiness \ {"stopped"}, c.child \/ w # "ready"
  PROVE  /\ Base(Publish(c, w), X) /\ Differs(c, Publish(c, w), {"readiness"}) /\ Publish(c, w).readiness = w
         /\ Held(c) /\ (c.child \/ c.stop # "none") => Held(Publish(c, w))
<1> DEFINE d == Publish(c, w)
           H == Live(c) \cup X
<1>1. Differs(c, d, {"readiness"}) /\ d.readiness = w /\ Typed(c)
  BY FieldsOf DEF Base, Typed, IsClient, Differs, Publish
<1> HIDE DEF d
<1>2. {"readiness"} \in SUBSET Scalars /\ \A field \in {"readiness"} \ Loose : d[field] \in Types[field]
  BY <1>1, FieldsOf, TypesOf DEF Scalars
<1>3. /\ d.desired = c.desired /\ d.started = c.started /\ d.child = c.child /\ d.launching = c.launching
      /\ d.health = c.health /\ d.terminating = c.terminating
      /\ d.termination = c.termination /\ d.stop = c.stop /\ d.unclean = c.unclean
      /\ d.timer = c.timer /\ d.crashLoop = c.crashLoop /\ d.probe = c.probe
      /\ d.dispatched = c.dispatched /\ d.reset = c.reset
  BY <1>1, FieldsOf DEF Differs
<1>9. c.sent \in Shutdowns => c.sent \in d.dispatched
  BY <1>3 DEF Base, Plumbed, QueueSound
<1>4. /\ Typed(d) /\ Plumbed(d) /\ Live(d) = Live(c) /\ Asking(d) = Asking(c) /\ Told(d) = Told(c)
      /\ Waiting(d) = Waiting(c) /\ Returning(d) = Returning(c) /\ d.channel = c.channel
      /\ d.running = c.running /\ d.operations = c.operations /\ d.waits = c.waits
  BY <1>1, <1>2, <1>3, <1>9, Changed
<1>5. /\ LaunchSound(c, H) /\ HealthSound(c, H) /\ ReconcilerSound(c, H) /\ StopSound(c, H)
      /\ ResetSound(c, H) /\ CircuitSound(c) /\ X \cap Live(c) = {}
  BY DEF Base
<1> HIDE DEF H
<1>6. LaunchSound(d, H) /\ CircuitSound(d)
  BY <1>1, <1>3, <1>4, <1>5 DEF LaunchSound, CircuitSound
<1>7. HealthSound(d, H) /\ ReconcilerSound(d, H) /\ StopSound(d, H) /\ ResetSound(d, H)
  BY <1>3, <1>4, <1>5 DEF HealthSound, ReconcilerSound, StopSound, ResetSound, ResetFits
<1>8. Base(d, X)
  BY <1>4, <1>5, <1>6, <1>7 DEF Base, H
<1>10. Held(c) /\ (c.child \/ c.stop # "none") => Held(d)
  BY <1>3, <1>4 DEF Held
<1> QED BY <1>1, <1>8, <1>10 DEF d

-----------------------------------------------------------------------------
(* The reconciler                                                          *)

\* The names of requests, of operations and of the others are apart.
LEMMA Distinct ==
  /\ "none" \notin Operations \cup Requesters /\ Operations \cap Requesters = {}
  /\ {"reconciler", "stopper", "fault"} \cap (Operations \cup Requesters) = {} /\ "launch" \notin Operations
  /\ Resetters \cap (Operations \cup Shutdowns) = {}
  /\ Resetters \cap {"launch", "fault", "health", "configure", "reconciler", "stopper", "none"} = {}
BY Apiece DEF Operations, Shutdowns

\* The operation that ends tells who waits for it.
LEMMA FinishSound ==
  ASSUME NEW c, NEW X, Base(c, X), "configure" \in X, NEW how \in Hows
  PROVE  Base(Finish(c, how), X \ {"configure"}) /\ (Held(c) => Held(Finish(c, how)))
<1> DEFINE e == [c EXCEPT !.running = "none", !.moved = FALSE, !.asked = FALSE]
           R == IF c.operations = <<>> THEN {} ELSE {"reconciler"}
           Z == X \ {"configure"}
           Y == Z \cup {Op(c)} \cup R
           H == Live(c) \cup X
           G == Live(e) \cup Y
<1>1. /\ LaunchSound(c, H) /\ HealthSound(c, H) /\ ReconcilerSound(c, H) /\ StopSound(c, H)
      /\ ResetSound(c, H) /\ CircuitSound(c) /\ X \cap Live(c) = {} /\ Typed(c) /\ Plumbed(c)
  BY DEF Base
<1>2. c.running # "none" /\ "reconciler" \notin H /\ "configure" \notin Live(c)
  BY <1>1 DEF ReconcilerSound
<1>3. /\ Op(c) \in Operations /\ Op(c) \notin ToSet(c.operations)
      /\ Op(c) = IF c.running = "enabling" THEN "fresh" ELSE c.running
  BY <1>1, <1>2, Distinct DEF Plumbed, OperationsSound, Op
<1>4. /\ Differs(c, e, {"running", "moved", "asked"}) /\ e.running = "none"
      /\ \A field \in {"running", "moved", "asked"} : e[field] \in BOOLEAN \cup {"none"}
      /\ e.moved \in BOOLEAN /\ e.asked \in BOOLEAN
  BY <1>1, FieldsOf, ZenonT(40) DEF Typed, IsClient, Differs
<1> HIDE DEF e
<1>5. /\ e.desired = c.desired /\ e.started = c.started /\ e.child = c.child /\ e.launching = c.launching
      /\ e.health = c.health /\ e.terminating = c.terminating
      /\ e.termination = c.termination /\ e.stop = c.stop /\ e.unclean = c.unclean
      /\ e.timer = c.timer /\ e.crashLoop = c.crashLoop /\ e.probe = c.probe /\ e.readiness = c.readiness
      /\ e.dispatched = c.dispatched /\ e.reset = c.reset /\ e.operations = c.operations /\ e.waits = c.waits
  BY <1>4, FieldsOf DEF Differs
<1>6. Typed(e)
  BY <1>1, <1>4, TypedKept, TypesOf
<1>7. Op(e) = "none" /\ Ops(e) = ToSet(c.operations) /\ Waiting(e) = Waiting(c) /\ Ops(c) = Ops(e) \cup {Op(c)}
  <2>1. "none" \notin ToSet(c.operations)
    BY <1>1, Kinds, Distinct DEF Ops
  <2> QED BY <1>3, <1>4, <1>5, <2>1, Distinct DEF Op, Ops, Waiting
<1>8. OperationsSound(e) /\ WaitsSound(e)
  <2>1. "none" \notin ToSet(c.operations)
    BY <1>1, Kinds, Distinct DEF Ops
  <2> QED BY <1>1, <1>5, <1>7, <2>1 DEF Plumbed, OperationsSound, WaitsSound
<1>9. /\ Plumbed(e) /\ Asking(e) = Asking(c) /\ Told(e) = Told(c)
      /\ Live(e) = Asking(c) \cup Told(c) \cup Ops(e) \cup Waiting(c)
      /\ Returning(e) = Returning(c) /\ e.channel = c.channel /\ e.sent = c.sent /\ e.queue = c.queue
      /\ e.jobs = c.jobs
  <2>1. Differs(c, e, Scalars \cup {"running", "operations", "waits"})
    BY <1>4, FieldsOf DEF Differs, Scalars
  <2>2. c.sent \in Shutdowns => c.sent \in e.dispatched
    BY <1>1, <1>5 DEF Plumbed, QueueSound
  <2>3. Ops(e) \cap Told(c) = {} /\ Waiting(e) \cap (Told(c) \cup Asking(c)) = {}
    BY <1>1, <1>7 DEF Plumbed, Apart
  <2>4. e.dispatched \subseteq c.dispatched /\ \A r \in Resetters \cap (Asking(c) \cup Told(c)) : e.reset[r] = c.reset[r]
    BY <1>5
  <2>5. /\ Plumbed(e) /\ Asking(e) = Asking(c) /\ Told(e) = Told(c)
        /\ Live(e) = Asking(c) \cup Told(c) \cup Ops(e) \cup Waiting(e)
        /\ Returning(e) = Returning(c) /\ e.channel = c.channel /\ e.sent = c.sent /\ e.queue = c.queue
        /\ e.jobs = c.jobs
    BY <1>1, <1>8, <2>1, <2>2, <2>3, <2>4, Kept
  <2> QED BY <1>7, <2>5
<1>10. Live(c) = Live(e) \cup {Op(c)} /\ Op(c) \notin Live(e)
  <2>1. Op(c) \notin Told(c) /\ Op(c) \notin Asking(c) /\ Op(c) \notin Waiting(c)
    BY <1>1, <1>3, <1>7, Kinds, Distinct DEF Plumbed, Apart
  <2> QED BY <1>3, <1>7, <1>9, <2>1 DEF Live
<1>11. Y \cap Live(e) = {} /\ G = (H \ {"configure"}) \cup R /\ "reconciler" \notin G \ R
  BY <1>1, <1>2, <1>10
<1>12. R = {} <=> c.operations = <<>>
  OBVIOUS
<1>13. R \subseteq {"reconciler"} /\ (c.operations # <<>> => "reconciler" \in R)
  OBVIOUS
<1> HIDE DEF G, H, R
<1>14. LaunchSound(e, G) /\ HealthSound(e, G) /\ ReconcilerSound(e, G) /\ CircuitSound(e)
  <2>1. LaunchSound(e, G) /\ HealthSound(e, G)
    BY <1>1, <1>5, <1>7, <1>9, <1>11, <1>13 DEF LaunchSound, HealthSound
  <2>2. ReconcilerSound(e, G)
    BY <1>1, <1>2, <1>4, <1>5, <1>11, <1>12, <1>13 DEF ReconcilerSound
  <2>3. CircuitSound(e)
    BY <1>1, <1>5 DEF CircuitSound
  <2> QED BY <2>1, <2>2, <2>3
<1>15. StopSound(e, G)
  <2>1. ~(~c.child /\ (c.stop \in {"exit", "killed"} \/ "stop" \in c.dispatched))
    <3>1. "configure" \in H /\ "configure" \notin {"stopper", "stop", "termination"} \cup Resetters
      BY Distinct DEF H
    <3> QED BY <1>1, <3>1 DEF StopSound
  <2> QED BY <1>1, <1>5, <1>9, <1>11, <1>13, <2>1 DEF StopSound
<1>16. ResetSound(e, G)
  <2>1. \A r \in Resetters : r \in G <=> r \in H
    BY <1>11, <1>13, Distinct
  <2> QED BY <1>1, <1>5, <2>1 DEF ResetSound, ResetFits
<1>17. Base(e, Y) /\ (Held(c) => Held(e))
  <2>1. Base(e, Y)
    BY <1>6, <1>9, <1>11, <1>14, <1>15, <1>16 DEF Base, G
  <2> QED BY <1>5, <1>9, <2>1 DEF Held
<1> DEFINE f == Settle(e, Op(c), how)
<1>18. Base(f, Z \cup R) /\ (Held(c) => Held(f)) /\ f.operations = c.operations
  <2>1. Op(c) \in Whos \cap Y /\ Op(c) \notin Resetters /\ Op(c) # "launch"
    BY <1>3, Distinct DEF Whos
  <2>2. Base(f, Y \ {Op(c)}) /\ (Held(e) => Held(f))
    <3> HIDE DEF Y, f
    <3> QED BY <1>17, <2>1, SettleSound DEF f
  <2>3. Op(c) \notin Z \cup R
    <3>1. Op(c) \notin X /\ Op(c) # "reconciler"
      BY <1>1, <1>3, <1>10, Distinct
    <3> QED BY <1>13, <3>1
  <2>4. Y \ {Op(c)} = Z \cup R
    BY <2>3
  <2>5. f.operations = e.operations
    <3> HIDE DEF Y, R
    <3> QED BY <1>6, FieldsOf DEF Settle, Typed, IsClient
  <2> HIDE DEF f, Y
  <2> QED BY <1>5, <1>17, <2>2, <2>4, <2>5
<1> HIDE DEF f
<1>19. CASE c.operations = <<>>
  <2>1. Z \cup R = Z /\ Finish(c, how) = f
    BY <1>12, <1>19 DEF Finish, Op, e, f
  <2> QED BY <1>18, <2>1
<1>20. CASE c.operations # <<>>
  <2>1. (Z \cup R) \ {"reconciler"} = Z /\ "reconciler" \in Whos \cap (Z \cup R)
    BY <1>2, <1>13, <1>20 DEF H, Whos
  <2>2. Finish(c, how) = Settle(f, "reconciler", "next") /\ "next" \in Hows
    BY <1>20 DEF Finish, Op, e, f, Hows
  <2>3. "reconciler" \notin Resetters
    BY Distinct
  <2> HIDE DEF Z
  <2>4. Base(Settle(f, "reconciler", "next"), (Z \cup R) \ {"reconciler"})
        /\ (Held(f) => Held(Settle(f, "reconciler", "next")))
    BY <1>18, <2>1, <2>2, <2>3, SettleSound
  <2> QED BY <1>18, <2>1, <2>2, <2>4 DEF Z
<1> QED BY <1>19, <1>20

\* An operation in hand is queued.
LEMMA EnqueueSound ==
  ASSUME NEW c, NEW X, Base(c, X), NEW operation \in X \cap Operations
  PROVE  Base(Enqueue(c, operation), X \ {operation}) /\ (Held(c) => Held(Enqueue(c, operation)))
<1> DEFINE e == [c EXCEPT !.operations = Append(@, operation)]
           R == IF c.operations = <<>> /\ c.running = "none" THEN {"reconciler"} ELSE {}
           Z == X \ {operation}
           Y == Z \cup R
           H == Live(c) \cup X
           G == Live(e) \cup Y
<1>1. /\ LaunchSound(c, H) /\ HealthSound(c, H) /\ ReconcilerSound(c, H) /\ StopSound(c, H)
      /\ ResetSound(c, H) /\ CircuitSound(c) /\ X \cap Live(c) = {} /\ Typed(c) /\ Plumbed(c)
  BY DEF Base
<1>2. R = {} \/ (R = {"reconciler"} /\ "reconciler" \notin H /\ c.running = "none" /\ c.operations = <<>>)
  BY <1>1 DEF ReconcilerSound
<1>3. /\ operation \notin Live(c) /\ operation \notin ToSet(c.operations) /\ operation # Op(c) /\ operation # "none"
      /\ operation \notin Told(c)
  BY <1>1, Distinct DEF Live, Ops
<1>4. Differs(c, e, {"operations"}) /\ e.operations = Append(c.operations, operation)
  BY <1>1, FieldsOf DEF Typed, IsClient, Differs
<1> HIDE DEF e
<1>5. /\ e.desired = c.desired /\ e.started = c.started /\ e.child = c.child /\ e.launching = c.launching
      /\ e.health = c.health /\ e.terminating = c.terminating
      /\ e.termination = c.termination /\ e.stop = c.stop /\ e.unclean = c.unclean
      /\ e.timer = c.timer /\ e.crashLoop = c.crashLoop /\ e.probe = c.probe /\ e.readiness = c.readiness
      /\ e.dispatched = c.dispatched /\ e.reset = c.reset /\ e.running = c.running /\ e.waits = c.waits
  BY <1>4, FieldsOf DEF Differs
<1>6. Typed(e)
  BY <1>1, <1>4, TypedKept DEF Loose
<1>7. /\ e.operations \in Seq(Operations) /\ IsInjective(e.operations)
      /\ ToSet(e.operations) = ToSet(c.operations) \cup {operation} /\ e.operations # <<>>
  <2>1. c.operations \in Seq(Operations) /\ IsInjective(c.operations) /\ operation \in Operations
    BY <1>1 DEF Plumbed, OperationsSound
  <2>2. Append(c.operations, operation) = c.operations \o <<operation>>
    BY <2>1, AppendIsConcat
  <2>3. /\ c.operations \o <<operation>> \in Seq(Operations) /\ IsInjective(c.operations \o <<operation>>)
        /\ ToSet(c.operations \o <<operation>>) = ToSet(c.operations) \cup {operation}
    BY <1>3, <2>1, PutProperties
  <2>4. operation \in ToSet(c.operations \o <<operation>>) /\ ToSet(<<>>) = {}
    <3>1. ToSet(<<>>) = {}
      BY DEF ToSet
    <3> QED BY <2>3, <3>1
  <2> QED BY <1>4, <2>2, <2>3, <2>4
<1>8. Op(e) = Op(c) /\ Ops(e) = Ops(c) \cup {operation} /\ Waiting(e) = Waiting(c)
  BY <1>5, <1>7 DEF Op, Ops, Waiting
<1>9. OperationsSound(e) /\ WaitsSound(e)
  BY <1>1, <1>3, <1>5, <1>7, <1>8 DEF Plumbed, OperationsSound, WaitsSound
<1>10. /\ Plumbed(e) /\ Asking(e) = Asking(c) /\ Told(e) = Told(c)
       /\ Live(e) = Asking(c) \cup Told(c) \cup Ops(e) \cup Waiting(e)
       /\ Returning(e) = Returning(c) /\ e.channel = c.channel /\ e.sent = c.sent /\ e.queue = c.queue
       /\ e.jobs = c.jobs
  <2>1. Differs(c, e, Scalars \cup {"running", "operations", "waits"})
    BY <1>4 DEF Differs
  <2>2. c.sent \in Shutdowns => c.sent \in e.dispatched
    BY <1>1, <1>5 DEF Plumbed, QueueSound
  <2>3. Ops(e) \cap Told(c) = {} /\ Waiting(e) \cap (Told(c) \cup Asking(c)) = {}
    BY <1>1, <1>3, <1>8 DEF Plumbed, Apart
  <2>4. e.dispatched \subseteq c.dispatched /\ \A r \in Resetters \cap (Asking(c) \cup Told(c)) : e.reset[r] = c.reset[r]
    BY <1>5
  <2> QED BY <1>1, <1>9, <2>1, <2>2, <2>3, <2>4, Kept
<1>11. Live(e) = Live(c) \cup {operation}
  BY <1>8, <1>10 DEF Live
<1>12. Y \cap Live(e) = {} /\ G = H \cup R
  BY <1>1, <1>2, <1>11, Distinct
<1>13. R # {} <=> c.operations = <<>> /\ c.running = "none"
  OBVIOUS
<1>14. operation \in H /\ operation \notin {"stopper", "stop", "termination"} \cup Resetters
  BY Distinct DEF Operations
<1> HIDE DEF G, H, R
<1>15. LaunchSound(e, G) /\ HealthSound(e, G) /\ ReconcilerSound(e, G) /\ CircuitSound(e)
  <2>1. LaunchSound(e, G) /\ HealthSound(e, G)
    BY <1>1, <1>2, <1>5, <1>8, <1>10, <1>12 DEF LaunchSound, HealthSound
  <2>2. ReconcilerSound(e, G)
    BY <1>1, <1>2, <1>5, <1>7, <1>12, <1>13 DEF ReconcilerSound
  <2>3. CircuitSound(e)
    BY <1>1, <1>5 DEF CircuitSound
  <2> QED BY <2>1, <2>2, <2>3
<1>16. StopSound(e, G)
  <2>1. ~(~c.child /\ (c.stop \in {"exit", "killed"} \/ "stop" \in c.dispatched))
    BY <1>1, <1>14 DEF StopSound
  <2> QED BY <1>1, <1>2, <1>5, <1>10, <1>12, <2>1 DEF StopSound
<1>17. ResetSound(e, G)
  <2>1. \A r \in Resetters : r \in G <=> r \in H
    BY <1>2, <1>12, Distinct
  <2> QED BY <1>1, <1>5, <2>1 DEF ResetSound, ResetFits
<1>18. Base(e, Y) /\ (Held(c) => Held(e))
  <2>1. Base(e, Y)
    BY <1>6, <1>10, <1>12, <1>15, <1>16, <1>17 DEF Base, G
  <2> QED BY <1>5, <1>10, <2>1 DEF Held
<1>19. CASE R = {}
  <2>1. Y = Z /\ Enqueue(c, operation) = e
    BY <1>13, <1>19 DEF Enqueue, e
  <2> QED BY <1>18, <2>1
<1>20. CASE R # {}
  <2>1. Y \ {"reconciler"} = Z /\ "reconciler" \in Whos \cap Y
    BY <1>2, <1>20 DEF H, Whos
  <2>2. Enqueue(c, operation) = Settle(e, "reconciler", "next") /\ "next" \in Hows
    BY <1>13, <1>20 DEF Enqueue, e, Hows
  <2>3. "reconciler" \notin Resetters
    BY Distinct
  <2> HIDE DEF Z, Y
  <2>4. Base(Settle(e, "reconciler", "next"), Y \ {"reconciler"})
        /\ (Held(e) => Held(Settle(e, "reconciler", "next")))
    BY <1>18, <2>1, <2>2, <2>3, SettleSound
  <2> QED BY <1>18, <2>1, <2>2, <2>4 DEF Z
<1> QED BY <1>19, <1>20

\* A configuration in hand is asked for.
LEMMA AskSound ==
  ASSUME NEW c, NEW X, Base(c, X), "configure" \in X, NEW enabled \in BOOLEAN
  PROVE  Base(Ask(c, enabled), X \ {"configure"}) /\ (Held(c) => Held(Ask(c, enabled)))
<1> DEFINE e == [c EXCEPT !.moved = FALSE, !.asked = enabled]
<1>1. Typed(c)
  BY DEF Base
<1>2. Quieter(c, e)
  <2>1. Differs(c, e, {"moved", "asked"}) /\ e.moved \in BOOLEAN /\ e.asked \in BOOLEAN
    BY <1>1, FieldsOf DEF Typed, IsClient, Differs
  <2> HIDE DEF e
  <2> QED BY <1>1, <2>1, QuieterBy, TypesOf DEF Quiet
<1>3. "configure" \in Requesters \cap X /\ "configure" \notin Shutdowns /\ "configure" \notin Resetters
  BY Distinct DEF Requesters, Shutdowns
<1>4. Base(e, X) /\ (Held(c) => Held(e))
  BY <1>2, QuieterSound
<1>5. Base(Request(e, "configure"), X \ {"configure"}) /\ (Held(e) => Held(Request(e, "configure")))
  <2> HIDE DEF e
  <2> QED BY <1>3, <1>4, RequestSound
<1> QED BY <1>4, <1>5 DEF Ask

\* Ends in an answer or in another request, whatever the operation does.
Ends(c, d, X) == Base(d, X \ {"configure"}) /\ (Held(c) => Held(d))

\* Quiet changes and then the end of the operation, or another request.
LEMMA EndsBy ==
  ASSUME NEW c, NEW d, NEW X, Base(c, X), "configure" \in X, Quieter(c, d)
  PROVE  /\ \A how \in Hows : Ends(c, Finish(d, how), X)
         /\ \A enabled \in BOOLEAN : Ends(c, Ask(d, enabled), X)
<1>1. Base(d, X) /\ (Held(c) => Held(d))
  BY QuieterSound
<1> QED BY <1>1, FinishSound, AskSound DEF Ends

\* Quiet changes before anything that so ends.
LEMMA EndsChain ==
  ASSUME NEW c, NEW d, NEW e, NEW X, Base(c, X), Quieter(c, d), Ends(d, e, X)
  PROVE  Ends(c, e, X)
BY QuieterSound DEF Ends

\* Those of Hows that the client itself tells.
LEMMA HowsOf ==
  {"ok", "not-running", "next", "begin", "launched", "stopped", "unclean", "clean", "timeout", "transport"}
    \subseteq Hows
BY DEF Hows

\* Both steps of a fresh session end so.
LEMMA FreshEnds ==
  ASSUME NEW c, NEW X, Base(c, X), "configure" \in X, NEW enabled \in BOOLEAN
  PROVE  Ends(c, Fresh(c, enabled), X) /\ Ends(c, FreshEnable(c), X)
<1>1. Typed(c)
  BY DEF Base
<1>2. Quieter(c, Unavailable(c)) /\ Quieter(c, c)
  BY <1>1, QuietOperations DEF Quieter, Typed, Differs
<1> DEFINE d == [c EXCEPT !.effective = "off"]
<1>3. Quieter(c, d)
  <2>1. Differs(c, d, {"effective"}) /\ d.effective = "off"
    BY <1>1, FieldsOf DEF Typed, IsClient, Differs
  <2> HIDE DEF d
  <2> QED BY <1>1, <2>1, QuieterBy, TypesOf DEF Quiet
<1> HIDE DEF d
<1>4. Quieter(c, Authoritative(Applied(d)))
  <2>1. Quieter(d, Applied(d))
    BY <1>3, QuietOperations DEF Quieter
  <2>2. Quieter(Applied(d), Authoritative(Applied(d)))
    BY <2>1, QuietOperations DEF Quieter
  <2> QED BY <1>3, <2>1, <2>2, QuieterChain
<1>5. /\ Ends(c, Ask(c, enabled), X) /\ Ends(c, Ask(c, TRUE), X)
      /\ Ends(c, Finish(Unavailable(c), "not-running"), X)
      /\ Ends(c, Finish(Authoritative(Applied(d)), "ok"), X)
  BY <1>2, <1>4, EndsBy, HowsOf
<1> QED BY <1>5 DEF Fresh, FreshEnable, d

\* So does the answer to the first of them.
LEMMA FreshDisabledEnds ==
  ASSUME NEW c, NEW X, Base(c, X), "configure" \in X, c.running = "fresh"
  PROVE  Ends(c, FreshDisabled(c), X)
<1> DEFINE d == Confirm(c)
           e == [d EXCEPT !.running = "enabling"]
           H == Live(c) \cup X
<1>1. Typed(c)
  BY DEF Base
<1>2. Quieter(c, d)
  BY <1>1, QuietOperations
<1>3. Base(d, X) /\ (Held(c) => Held(d)) /\ d.running = "fresh" /\ Live(d) = Live(c)
  BY <1>2, QuieterSound, QuieterFields DEF Live, Asking, Told, Waiting, Ops, Op
<1> HIDE DEF d
<1>4. Quieter(c, Authoritative(Applied(d)))
  <2>1. Quieter(d, Applied(d))
    BY <1>2, QuietOperations DEF Quieter
  <2>2. Quieter(Applied(d), Authoritative(Applied(d)))
    BY <2>1, QuietOperations DEF Quieter
  <2> QED BY <1>2, <2>1, <2>2, QuieterChain
<1>5. Ends(c, Finish(Authoritative(Applied(d)), "ok"), X)
  BY <1>4, EndsBy, HowsOf
<1>6. Ends(c, Fresh(d, FALSE), X)
  BY <1>2, <1>3, FreshEnds, EndsChain
<1>7. Base(e, X) /\ (Held(d) => Held(e))
  <2>1. Differs(d, e, {"running"}) /\ e.running = "enabling"
    BY <1>3, FieldsOf DEF Base, Typed, IsClient, Differs
  <2> HIDE DEF e
  <2>2. /\ e.desired = d.desired /\ e.started = d.started /\ e.child = d.child /\ e.launching = d.launching
        /\ e.health = d.health /\ e.terminating = d.terminating
        /\ e.termination = d.termination /\ e.stop = d.stop /\ e.unclean = d.unclean
        /\ e.timer = d.timer /\ e.crashLoop = d.crashLoop /\ e.probe = d.probe /\ e.readiness = d.readiness
        /\ e.dispatched = d.dispatched /\ e.reset = d.reset /\ e.operations = d.operations /\ e.waits = d.waits
    BY <2>1, FieldsOf DEF Differs
  <2>3. Typed(e) /\ Plumbed(d) /\ X \cap Live(d) = {}
    BY <1>3, <2>1, TypedKept, TypesOf DEF Base
  <2>4. Op(e) = Op(d) /\ Ops(e) = Ops(d) /\ Waiting(e) = Waiting(d)
    BY <1>3, <2>1, <2>2 DEF Op, Ops, Waiting
  <2>5. OperationsSound(e) /\ WaitsSound(e) /\ Ops(e) \cap Told(d) = {} /\ Waiting(e) \cap (Told(d) \cup Asking(d)) = {}
    BY <2>2, <2>3, <2>4 DEF Plumbed, OperationsSound, WaitsSound, Apart
  <2>6. Differs(d, e, Scalars \cup {"running", "operations", "waits"})
    BY <2>1 DEF Differs
  <2>7. /\ d.sent \in Shutdowns => d.sent \in e.dispatched
        /\ e.dispatched \subseteq d.dispatched
        /\ \A r \in Resetters \cap (Asking(d) \cup Told(d)) : e.reset[r] = d.reset[r]
    BY <2>2, <2>3 DEF Plumbed, QueueSound
  <2>8. /\ Plumbed(e) /\ Asking(e) = Asking(d) /\ Told(e) = Told(d)
        /\ Live(e) = Asking(d) \cup Told(d) \cup Ops(e) \cup Waiting(e)
        /\ Returning(e) = Returning(d) /\ e.channel = d.channel /\ e.sent = d.sent /\ e.queue = d.queue
        /\ e.jobs = d.jobs
    BY <2>3, <2>5, <2>6, <2>7, Kept
  <2>9. Live(e) = Live(d)
    BY <2>4, <2>8 DEF Live
  <2>10. Live(d) \cup X = H /\ Live(e) \cup X = H
    BY <1>3, <2>9
  <2>11. /\ LaunchSound(d, H) /\ HealthSound(d, H) /\ ReconcilerSound(d, H) /\ StopSound(d, H)
         /\ ResetSound(d, H) /\ CircuitSound(d)
    BY <1>3, <2>10 DEF Base
  <2> HIDE DEF H
  <2>12. LaunchSound(e, H) /\ HealthSound(e, H) /\ ReconcilerSound(e, H) /\ CircuitSound(e)
    BY <1>3, <2>1, <2>2, <2>4, <2>8, <2>11 DEF LaunchSound, HealthSound, ReconcilerSound, CircuitSound
  <2>13. StopSound(e, H) /\ ResetSound(e, H)
    BY <2>2, <2>4, <2>8, <2>11 DEF StopSound, ResetSound, ResetFits
  <2>14. Base(e, X)
    BY <2>3, <2>8, <2>9, <2>10, <2>12, <2>13 DEF Base
  <2> QED BY <2>2, <2>8, <2>14 DEF Held
<1> HIDE DEF e
<1>8. Ends(e, FreshEnable(e), X)
  BY <1>7, FreshEnds
<1>9. Ends(c, FreshEnable(e), X)
  BY <1>3, <1>7, <1>8 DEF Ends
<1> QED BY <1>5, <1>6, <1>9 DEF FreshDisabled, d, e

\* So does the answer to the second.
LEMMA FreshEnabledEnds ==
  ASSUME NEW c, NEW X, Base(c, X), "configure" \in X
  PROVE  Ends(c, FreshEnabled(c), X)
<1> DEFINE d == Confirm(c)
<1>1. Quieter(c, d)
  BY QuietOperations DEF Base
<1>2. Base(d, X)
  BY <1>1, QuieterSound
<1> HIDE DEF d
<1>3. Quieter(c, Authoritative(Applied(d)))
  <2>1. Quieter(d, Applied(d))
    BY <1>1, QuietOperations DEF Quieter
  <2>2. Quieter(Applied(d), Authoritative(Applied(d)))
    BY <2>1, QuietOperations DEF Quieter
  <2> QED BY <1>1, <2>1, <2>2, QuieterChain
<1>4. Ends(c, Finish(Authoritative(Applied(d)), "ok"), X)
  BY <1>3, EndsBy, HowsOf
<1>5. Ends(c, FreshEnable(d), X)
  BY <1>1, <1>2, FreshEnds, EndsChain
<1> QED BY <1>4, <1>5 DEF FreshEnabled, d

\* So do the operations of a session that is not fresh.
LEMMA ReconcileEnds ==
  ASSUME NEW c, NEW X, Base(c, X), "configure" \in X
  PROVE  Ends(c, Unreachable(c), X) /\ Ends(c, Reconcile(c), X) /\ Ends(c, Reconciled(c), X)
<1>1. ASSUME NEW d, Base(d, X) PROVE Ends(d, Unreachable(d), X) /\ Ends(d, Reconcile(d), X)
  <2>1. Quieter(d, Unavailable(d)) /\ Quieter(d, d) /\ Typed(d)
    BY <1>1, QuietOperations DEF Base, Quieter, Typed, Differs
  <2>2. /\ Ends(d, Finish(Unavailable(d), "ok"), X) /\ Ends(d, Finish(Unavailable(d), "not-running"), X)
        /\ Ends(d, Finish(d, "ok"), X)
    BY <1>1, <2>1, EndsBy, HowsOf
  <2>3. Ends(d, Ask(d, ~d.blocked /\ d.want), X)
    <3>1. (~d.blocked /\ d.want) \in BOOLEAN
      OBVIOUS
    <3> QED BY <1>1, <2>1, <3>1, EndsBy
  <2>4. Ends(d, Unreachable(d), X)
    BY <2>2 DEF Unreachable
  <2> QED BY <2>2, <2>3, <2>4 DEF Reconcile
<1> DEFINE d == Confirm(c)
<1>2. Quieter(c, d)
  BY QuietOperations DEF Base
<1>3. Base(d, X)
  BY <1>2, QuieterSound
<1> HIDE DEF d
<1>4. Quieter(c, Applied(d))
  <2>1. Quieter(d, Applied(d))
    BY <1>2, QuietOperations DEF Quieter
  <2> QED BY <1>2, <2>1, QuieterChain
<1>5. Ends(c, Finish(Applied(d), "ok"), X)
  BY <1>4, EndsBy, HowsOf
<1>6. Ends(c, Reconcile(d), X)
  BY <1>1, <1>2, <1>3, EndsChain
<1>7. Ends(c, Unreachable(c), X) /\ Ends(c, Reconcile(c), X)
  BY <1>1
<1> QED BY <1>5, <1>6, <1>7 DEF Reconciled, d

\* So does every answer to a configuration.
LEMMA ConfiguredEnds ==
  ASSUME NEW c, NEW X, Base(c, X), "configure" \in X, NEW how \in Hows
  PROVE  Ends(c, Configured(c, how), X)
<1>1. Typed(c)
  BY DEF Base
<1>2. Quieter(c, Unavailable(c)) /\ Quieter(c, c)
  BY <1>1, QuietOperations DEF Quieter, Typed, Differs
<1>3. Ends(c, Finish(Unavailable(c), "not-running"), X) /\ Ends(c, Finish(c, how), X)
  BY <1>2, EndsBy, HowsOf
<1>4. c.running = "fresh" => Ends(c, FreshDisabled(c), X)
  BY FreshDisabledEnds
<1>5. Ends(c, FreshEnabled(c), X)
  BY FreshEnabledEnds
<1>6. Ends(c, Reconciled(c), X) /\ Ends(c, Unreachable(c), X)
  BY ReconcileEnds
<1> QED BY <1>3, <1>4, <1>5, <1>6 DEF Configured

\* The reconciler performs its next operation.
LEMMA RunNextSound ==
  ASSUME NEW c, NEW X, Base(c, X), "reconciler" \in X
  PROVE  Base(RunNext(c), X \ {"reconciler"}) /\ (Held(c) => Held(RunNext(c)))
<1> DEFINE e == [c EXCEPT !.running = Head(c.operations), !.operations = Tail(@)]
           Z == X \ {"reconciler"}
           Y == Z \cup {"configure"}
           H == Live(c) \cup X
           G == Live(e) \cup Y
<1>1. /\ LaunchSound(c, H) /\ HealthSound(c, H) /\ ReconcilerSound(c, H) /\ StopSound(c, H)
      /\ ResetSound(c, H) /\ CircuitSound(c) /\ X \cap Live(c) = {} /\ Typed(c) /\ Plumbed(c)
  BY DEF Base
<1>2. c.running = "none" /\ c.operations # <<>> /\ "configure" \notin H /\ "reconciler" \notin Live(c)
  BY <1>1 DEF ReconcilerSound
<1>3. /\ Head(c.operations) \in Operations /\ Tail(c.operations) \in Seq(Operations)
      /\ IsInjective(Tail(c.operations))
      /\ ToSet(c.operations) = ToSet(Tail(c.operations)) \cup {Head(c.operations)}
      /\ Head(c.operations) \notin ToSet(Tail(c.operations))
  BY <1>1, <1>2, TailProperties DEF Plumbed, OperationsSound
<1>4. /\ Differs(c, e, {"running", "operations"}) /\ e.operations = Tail(c.operations)
      /\ e.running = Head(c.operations)
  BY <1>1, FieldsOf DEF Typed, IsClient, Differs
<1> HIDE DEF e
<1>5. /\ e.desired = c.desired /\ e.started = c.started /\ e.child = c.child /\ e.launching = c.launching
      /\ e.health = c.health /\ e.terminating = c.terminating
      /\ e.termination = c.termination /\ e.stop = c.stop /\ e.unclean = c.unclean
      /\ e.timer = c.timer /\ e.crashLoop = c.crashLoop /\ e.probe = c.probe /\ e.readiness = c.readiness
      /\ e.dispatched = c.dispatched /\ e.reset = c.reset /\ e.waits = c.waits
  BY <1>4, FieldsOf DEF Differs
<1>6. Typed(e)
  <2>1. \A field \in {"running", "operations"} \ Loose : e[field] \in Types[field]
    BY <1>3, <1>4, TypesOf DEF Loose
  <2> QED BY <1>1, <1>4, <2>1, TypedKept
<1>7. Op(e) = Head(c.operations) /\ Ops(e) = Ops(c) /\ Waiting(e) = Waiting(c)
  <2>1. Head(c.operations) # "enabling" /\ Head(c.operations) # "none"
    BY <1>3 DEF Operations
  <2> QED BY <1>2, <1>3, <1>4, <1>5, <2>1 DEF Op, Ops, Waiting
<1>8. OperationsSound(e) /\ WaitsSound(e)
  BY <1>1, <1>3, <1>4, <1>5, <1>7 DEF Plumbed, OperationsSound, WaitsSound
<1>9. /\ Plumbed(e) /\ Asking(e) = Asking(c) /\ Told(e) = Told(c)
      /\ Live(e) = Asking(c) \cup Told(c) \cup Ops(e) \cup Waiting(e)
      /\ Returning(e) = Returning(c) /\ e.channel = c.channel /\ e.sent = c.sent /\ e.queue = c.queue
      /\ e.jobs = c.jobs
  <2>1. Differs(c, e, Scalars \cup {"running", "operations", "waits"})
    BY <1>4 DEF Differs
  <2>2. c.sent \in Shutdowns => c.sent \in e.dispatched
    BY <1>1, <1>5 DEF Plumbed, QueueSound
  <2>3. Ops(e) \cap Told(c) = {} /\ Waiting(e) \cap (Told(c) \cup Asking(c)) = {}
    BY <1>1, <1>7 DEF Plumbed, Apart
  <2>4. e.dispatched \subseteq c.dispatched /\ \A r \in Resetters \cap (Asking(c) \cup Told(c)) : e.reset[r] = c.reset[r]
    BY <1>5
  <2> QED BY <1>1, <1>8, <2>1, <2>2, <2>3, <2>4, Kept
<1>10. Live(e) = Live(c)
  BY <1>7, <1>9 DEF Live
<1>11. Y \cap Live(e) = {} /\ G = (H \ {"reconciler"}) \cup {"configure"} /\ "reconciler" \in H
  BY <1>1, <1>2, <1>10
<1> HIDE DEF G, H
<1>12. LaunchSound(e, G) /\ HealthSound(e, G) /\ ReconcilerSound(e, G) /\ CircuitSound(e)
  <2>1. LaunchSound(e, G) /\ HealthSound(e, G)
    BY <1>1, <1>5, <1>7, <1>9, <1>11 DEF LaunchSound, HealthSound
  <2>2. ReconcilerSound(e, G)
    <3>1. e.running # "none"
      BY <1>3, <1>4, Distinct
    <3> QED BY <1>1, <1>11, <3>1 DEF ReconcilerSound
  <2>3. CircuitSound(e)
    BY <1>1, <1>5 DEF CircuitSound
  <2> QED BY <2>1, <2>2, <2>3
<1>13. StopSound(e, G)
  <2>1. ~(~c.child /\ (c.stop \in {"exit", "killed"} \/ "stop" \in c.dispatched))
    BY <1>1, <1>11, Distinct DEF StopSound
  <2> QED BY <1>1, <1>5, <1>9, <1>11, <2>1 DEF StopSound
<1>14. ResetSound(e, G)
  <2>1. \A r \in Resetters : r \in G <=> r \in H
    BY <1>11, Distinct
  <2> QED BY <1>1, <1>5, <2>1 DEF ResetSound, ResetFits
<1>15. Base(e, Y) /\ (Held(c) => Held(e))
  <2>1. Base(e, Y)
    BY <1>6, <1>9, <1>11, <1>12, <1>13, <1>14 DEF Base, G
  <2> QED BY <1>5, <1>9, <2>1 DEF Held
<1>16. Ends(e, Fresh(e, FALSE), Y) /\ Ends(e, Reconcile(e), Y)
  BY <1>15, FreshEnds, ReconcileEnds
<1>17. Y \ {"configure"} = Z
  BY <1>2 DEF H
<1>18. RunNext(c) = IF e.running = "fresh" THEN Fresh(e, FALSE) ELSE Reconcile(e)
  BY DEF RunNext, e
<1> HIDE DEF Y, Z
<1>19. Base(RunNext(c), Z) /\ (Held(c) => Held(RunNext(c)))
  BY <1>15, <1>16, <1>17, <1>18 DEF Ends
<1> QED BY <1>19 DEF Z

\* Who is in hand has changed, and nothing else.
LEMMA Retoken ==
  ASSUME NEW c, NEW X, NEW Y, Base(c, X), Y \cap Live(c) = {},
         \A who \in {"launch", "fresh", "health", "session", "configure", "reconciler", "stopper"} \cup Resetters :
           who \in Y <=> who \in X,
         Y \cap Shutdowns \subseteq X,
         "stop" \in X \ Y => "stop" \notin c.dispatched,
         ~("intent" \in Live(c) \cup Y /\ "rollback" \in Live(c) \cup Y),
         ~c.child /\ (c.stop \in {"exit", "killed"} \/ "stop" \in c.dispatched) =>
           Y \subseteq {"stopper", "stop", "termination"} \cup Resetters
  PROVE  Base(c, Y)
<1> DEFINE H == Live(c) \cup X
           G == Live(c) \cup Y
<1>1. /\ LaunchSound(c, H) /\ HealthSound(c, H) /\ ReconcilerSound(c, H) /\ StopSound(c, H)
      /\ ResetSound(c, H) /\ CircuitSound(c) /\ Typed(c) /\ Plumbed(c)
  BY DEF Base
<1>2. /\ \A who \in {"launch", "fresh", "health", "session", "configure", "reconciler", "stopper"} \cup Resetters :
           who \in G <=> who \in H
      /\ "stop" \in G => "stop" \in H
      /\ "termination" \in G => "termination" \in H
      /\ "stop" \in H \ G => "stop" \notin c.dispatched
      /\ ~("intent" \in G /\ "rollback" \in G)
  BY DEF Shutdowns
<1>3. ~c.child /\ (c.stop \in {"exit", "killed"} \/ "stop" \in c.dispatched) =>
        G \subseteq {"stopper", "stop", "termination"} \cup Resetters
  BY <1>1 DEF StopSound
<1> HIDE DEF G, H
<1>4. LaunchSound(c, G) /\ HealthSound(c, G) /\ ReconcilerSound(c, G)
  <2>1. LaunchSound(c, G)
    BY <1>1, <1>2 DEF LaunchSound
  <2>2. HealthSound(c, G)
    BY <1>1, <1>2 DEF HealthSound
  <2>3. ReconcilerSound(c, G)
    BY <1>1, <1>2 DEF ReconcilerSound
  <2> QED BY <2>1, <2>2, <2>3
<1>5. StopSound(c, G)
  BY <1>1, <1>2, <1>3 DEF StopSound
<1>6. ResetSound(c, G)
  BY <1>1, <1>2 DEF ResetSound, ResetFits
<1> QED BY <1>1, <1>4, <1>5, <1>6 DEF Base, G

\* The application configures while nothing else does.
LEMMA ConfigureSound ==
  ASSUME NEW c, Base(c, {}), {"intent", "rollback"} \cap Live(c) = {}, NEW enabled \in BOOLEAN,
         ~(~c.child /\ (c.stop \in {"exit", "killed"} \/ "stop" \in c.dispatched))
  PROVE  Base(Configure(c, enabled), {}) /\ (Held(c) => Held(Configure(c, enabled)))
<1> DEFINE e == [c EXCEPT !.previous = c.want, !.want = enabled]
<1>1. Typed(c) /\ c.want \in BOOLEAN
  BY TypedFields DEF Base
<1>2. Quieter(c, e)
  <2>1. Differs(c, e, {"previous", "want"}) /\ e.previous \in BOOLEAN /\ e.want \in BOOLEAN
    BY <1>1, FieldsOf DEF Typed, IsClient, Differs
  <2> HIDE DEF e
  <2> QED BY <1>1, <2>1, QuieterBy, TypesOf DEF Quiet
<1> HIDE DEF e
<1> DEFINE d == Revise(e)
<1>3. Quieter(c, d)
  BY <1>2, SetBlockedQuieter, QuieterChain DEF Quieter
<1> HIDE DEF d
<1>4. Base(c, {"intent"})
  <2>1. "intent" \notin Shutdowns /\ "intent" \notin Resetters /\ "intent" \notin Live(c) /\ "rollback" \notin Live(c)
    BY Distinct DEF Operations, Shutdowns
  <2> QED BY <2>1, Retoken
<1>5. Base(d, {"intent"}) /\ (Held(c) => Held(d))
  BY <1>3, <1>4, QuieterSound
<1>6. Base(Enqueue(d, "intent"), {"intent"} \ {"intent"}) /\ (Held(d) => Held(Enqueue(d, "intent")))
  BY <1>5, EnqueueSound DEF Operations
<1>7. {"intent"} \ {"intent"} = {}
  OBVIOUS
<1>8. Configure(c, enabled) = Enqueue(d, "intent")
  BY DEF Configure, d, e
<1> QED BY <1>5, <1>6, <1>7, <1>8

\* The intent that failed is rolled back.
LEMMA RollBackSound ==
  ASSUME NEW c, Base(c, {"intent"})
  PROVE  Base(RollBack(c), {}) /\ (Held(c) => Held(RollBack(c)))
<1> DEFINE e == [c EXCEPT !.want = c.previous]
<1>1. Typed(c) /\ c.previous \in BOOLEAN
  BY TypedFields DEF Base
<1>2. Quieter(c, e)
  <2>1. Differs(c, e, {"want"}) /\ e.want \in BOOLEAN
    BY <1>1, FieldsOf DEF Typed, IsClient, Differs
  <2> HIDE DEF e
  <2> QED BY <1>1, <2>1, QuieterBy, TypesOf DEF Quiet
<1> HIDE DEF e
<1> DEFINE d == Revise(e)
<1>3. Quieter(c, d)
  BY <1>2, SetBlockedQuieter, QuieterChain DEF Quieter
<1> HIDE DEF d
<1>4. Base(c, {"rollback"})
  <2>1. "intent" \notin Live(c) /\ "rollback" \notin Live(c)
    BY DEF Base, ReconcilerSound
  <2>2. ~(~c.child /\ (c.stop \in {"exit", "killed"} \/ "stop" \in c.dispatched))
    <3>1. StopSound(c, Live(c) \cup {"intent"}) /\ "intent" \notin {"stopper", "stop", "termination"} \cup Resetters
      BY Distinct DEF Base, Operations
    <3> QED BY <3>1 DEF StopSound
  <2> QED BY <2>1, <2>2, Retoken, Distinct DEF Operations, Shutdowns
<1>5. Base(d, {"rollback"}) /\ (Held(c) => Held(d))
  BY <1>3, <1>4, QuieterSound
<1>6. Base(Enqueue(d, "rollback"), {"rollback"} \ {"rollback"}) /\ (Held(d) => Held(Enqueue(d, "rollback")))
  BY <1>5, EnqueueSound DEF Operations
<1>7. {"rollback"} \ {"rollback"} = {}
  OBVIOUS
<1>8. RollBack(c) = Enqueue(d, "rollback")
  BY DEF RollBack, d, e
<1> QED BY <1>5, <1>6, <1>7, <1>8

-----------------------------------------------------------------------------
(* Launching                                                               *)

\* The request, or the operation of the reconciler, that a launch waits for.
LaunchToken(c, w) ==
  \/ w = "launch" /\ c.launching \in {"initialize", "snapshot", "off"}
  \/ w = "fresh" /\ c.launching = "activation"

\* The launch is at another step, and waits for what that step needs.
LEMMA LaunchStepSound ==
  ASSUME NEW c, NEW w, Base(c, {w}), LaunchToken(c, w), NEW step \in {"snapshot", "off", "activation"}
  PROVE  LET d == [c EXCEPT !.launching = step]
         IN  /\ Base(d, {IF step = "activation" THEN "fresh" ELSE "launch"}) /\ (Held(c) => Held(d))
             /\ d.launching = step
<1> DEFINE d == [c EXCEPT !.launching = step]
           t == IF step = "activation" THEN "fresh" ELSE "launch"
           H == Live(c) \cup {w}
           G == Live(d) \cup {t}
<1>1. /\ LaunchSound(c, H) /\ HealthSound(c, H) /\ ReconcilerSound(c, H) /\ StopSound(c, H)
      /\ ResetSound(c, H) /\ CircuitSound(c) /\ w \notin Live(c) /\ Typed(c) /\ Plumbed(c)
  BY DEF Base
<1>2. Differs(c, d, {"launching"}) /\ d.launching = step
  BY <1>1, FieldsOf DEF Typed, IsClient, Differs
<1> HIDE DEF d
<1>3. /\ d.desired = c.desired /\ d.started = c.started /\ d.child = c.child /\ d.timer = c.timer
      /\ d.health = c.health /\ d.terminating = c.terminating
      /\ d.termination = c.termination /\ d.stop = c.stop /\ d.unclean = c.unclean
      /\ d.crashLoop = c.crashLoop /\ d.probe = c.probe /\ d.readiness = c.readiness
      /\ d.dispatched = c.dispatched /\ d.reset = c.reset
  BY <1>2, FieldsOf DEF Differs
<1>4. /\ Typed(d) /\ Plumbed(d) /\ Live(d) = Live(c) /\ Asking(d) = Asking(c) /\ Told(d) = Told(c)
      /\ Waiting(d) = Waiting(c) /\ Returning(d) = Returning(c) /\ d.channel = c.channel
      /\ d.running = c.running /\ d.operations = c.operations /\ d.waits = c.waits
  <2>1. {"launching"} \in SUBSET Scalars /\ \A field \in {"launching"} \ Loose : d[field] \in Types[field]
    BY <1>2, FieldsOf, TypesOf DEF Scalars
  <2>2. c.sent \in Shutdowns => c.sent \in d.dispatched
    BY <1>1, <1>3 DEF Plumbed, QueueSound
  <2> QED BY <1>2, <1>3, <2>1, <2>2, Changed
<1>5. /\ w \in {"launch", "fresh"} /\ t \in {"launch", "fresh"} /\ w \in H
      /\ c.launching \notin {"none", "validating", "failed"}
  BY DEF LaunchToken
<1>6. /\ c.health = "none" /\ {"launch", "fresh"} \cap Live(c) = {}
      /\ c.launching # "activation" => w = "launch"
      /\ c.launching = "activation" => w = "fresh"
  BY <1>1, <1>5 DEF LaunchSound, LaunchToken
<1>7. {t} \cap Live(d) = {} /\ G = (H \ {w}) \cup {t} /\ {"launch", "fresh"} \cap (H \ {w}) = {}
  BY <1>4, <1>5, <1>6
<1>8. step # "activation" => t = "launch"
  OBVIOUS
<1>9. step = "activation" => t = "fresh"
  OBVIOUS
<1> HIDE DEF t, H, G
<1>10. LaunchSound(d, G) /\ CircuitSound(d)
  <2>1. "launch" \notin Waiting(d) /\ "launch" \notin Asking(d) \cup Told(d)
    BY <1>4, <1>6 DEF Live
  <2>2. LaunchSound(d, G)
    BY <1>1, <1>2, <1>3, <1>4, <1>5, <1>6, <1>7, <1>8, <1>9, <2>1 DEF LaunchSound
  <2>3. CircuitSound(d)
    BY <1>1, <1>2, <1>3, <1>5 DEF CircuitSound
  <2> QED BY <2>2, <2>3
<1>11. HealthSound(d, G) /\ ReconcilerSound(d, G) /\ StopSound(d, G)
  <2>1. HealthSound(d, G) /\ ReconcilerSound(d, G)
    BY <1>1, <1>3, <1>4, <1>5, <1>7 DEF HealthSound, ReconcilerSound
  <2>2. StopSound(d, G)
    BY <1>1, <1>2, <1>3, <1>4, <1>5, <1>7 DEF StopSound
  <2> QED BY <2>1, <2>2
<1>12. ResetSound(d, G)
  <2>1. \A r \in Resetters : r \in G <=> r \in H
    BY <1>5, <1>7, Distinct DEF Operations
  <2> QED BY <1>1, <1>2, <1>3, <1>5, <2>1 DEF ResetSound, ResetFits
<1>13. Base(d, {t})
  BY <1>4, <1>7, <1>10, <1>11, <1>12 DEF Base, G
<1>14. Held(c) => Held(d)
  BY <1>2, <1>3, <1>4, <1>5 DEF Held
<1> QED BY <1>2, <1>13, <1>14 DEF d, t

\* The launch asks for its next step.
LEMMA LaunchAsksSound ==
  ASSUME NEW c, NEW w, Base(c, {w}), LaunchToken(c, w), NEW step \in {"snapshot", "off"}
  PROVE  Base(LaunchAsks(c, step), {}) /\ (Held(c) => Held(LaunchAsks(c, step)))
<1> DEFINE d == [c EXCEPT !.launching = step]
<1>1. Base(d, {"launch"}) /\ (Held(c) => Held(d)) /\ d.launching = step
  <2>1. (IF step = "activation" THEN "fresh" ELSE "launch") = "launch" /\ step \in {"snapshot", "off", "activation"}
    OBVIOUS
  <2> QED BY <2>1, LaunchStepSound
<1> HIDE DEF d
<1>2. "launch" \in Requesters \cap {"launch"} /\ "launch" \notin Shutdowns /\ "launch" \notin Resetters
  BY Distinct DEF Requesters, Shutdowns
<1>3. Base(Request(d, "launch"), {"launch"} \ {"launch"}) /\ (Held(d) => Held(Request(d, "launch")))
  BY <1>1, <1>2, RequestSound
<1>4. {"launch"} \ {"launch"} = {}
  OBVIOUS
<1> QED BY <1>1, <1>3, <1>4 DEF LaunchAsks, d

\* One more waits for stderr.
LEMMA WaitsAppended ==
  ASSUME NEW s \in Seq(Waits), Unique(s), NEW wait \in Waits, wait.who \notin Names(s)
  PROVE  /\ Append(s, wait) \in Seq(Waits) /\ Unique(Append(s, wait))
         /\ Names(Append(s, wait)) = Names(s) \cup {wait.who}
<1> DEFINE t == Append(s, wait)
           n == Len(s)
<1>1. /\ t \in Seq(Waits) /\ DOMAIN s = 1 .. n /\ n \in Nat /\ DOMAIN t = 1 .. n + 1
      /\ \A i \in 1 .. n + 1 : t[i] = IF i = n + 1 THEN wait ELSE s[i]
  OBVIOUS
<1> HIDE DEF t, n
<1>2. \A i \in 1 .. n : i \in DOMAIN t /\ t[i] = s[i] /\ s[i].who # wait.who
  BY <1>1 DEF Names
<1>3. n + 1 \in DOMAIN t /\ t[n + 1] = wait
  BY <1>1
<1>4. \A i \in DOMAIN t : i \in 1 .. n \/ i = n + 1
  BY <1>1
<1>5. Unique(t)
  <2> SUFFICES ASSUME NEW i \in DOMAIN t, NEW j \in DOMAIN t, t[i].who = t[j].who PROVE i = j
    BY DEF Unique
  <2>1. CASE i = n + 1
    BY <1>2, <1>3, <1>4, <2>1
  <2>2. CASE j = n + 1
    BY <1>2, <1>3, <1>4, <2>2
  <2>3. CASE i \in 1 .. n /\ j \in 1 .. n
    BY <1>1, <1>2, <2>3 DEF Unique
  <2> QED BY <1>4, <2>1, <2>2, <2>3
<1>6. Names(t) = Names(s) \cup {wait.who}
  <2>1. \A i \in DOMAIN t : t[i].who \in Names(s) \cup {wait.who}
    BY <1>1, <1>2, <1>3, <1>4 DEF Names
  <2>2. \A i \in DOMAIN s : s[i].who \in Names(t)
    BY <1>1, <1>2 DEF Names
  <2>3. wait.who \in Names(t)
    BY <1>3 DEF Names
  <2> QED BY <2>1, <2>2, <2>3 DEF Names
<1> QED BY <1>1, <1>5, <1>6 DEF t

\* A launch that failed waits for stderr.
LEMMA LaunchFailed ==
  ASSUME NEW c, NEW w, Base(c, {w}), LaunchToken(c, w), c.child, NEW why \in Classes
  PROVE  LET d == [c EXCEPT !.launching = "failed", !.waits = Append(@, [who |-> "launch", why |-> why])]
         IN  Base(d, {}) /\ (Held(c) => Held(d))
<1> DEFINE wait == [who |-> "launch", why |-> why]
           d == [c EXCEPT !.launching = "failed", !.waits = Append(@, wait)]
           H == Live(c) \cup {w}
           G == Live(d) \cup {}
<1>1. /\ LaunchSound(c, H) /\ HealthSound(c, H) /\ ReconcilerSound(c, H) /\ StopSound(c, H)
      /\ ResetSound(c, H) /\ CircuitSound(c) /\ w \notin Live(c) /\ Typed(c) /\ Plumbed(c)
  BY DEF Base
<1>2. Differs(c, d, {"launching", "waits"}) /\ d.launching = "failed" /\ d.waits = Append(c.waits, wait)
  BY <1>1, FieldsOf DEF Typed, IsClient, Differs
<1>5. /\ w \in {"launch", "fresh"} /\ w \in H
      /\ c.launching \notin {"none", "validating", "failed"}
  BY DEF LaunchToken
<1>6. /\ c.health = "none" /\ {"launch", "fresh"} \cap Live(c) = {}
      /\ c.launching # "activation" => w = "launch"
      /\ c.launching = "activation" => w = "fresh"
  BY <1>1, <1>5 DEF LaunchSound, LaunchToken
<1>7. wait \in Waits /\ wait.who = "launch"
  BY DEF Waits
<1> HIDE DEF d, wait
<1>3. /\ d.desired = c.desired /\ d.started = c.started /\ d.child = c.child /\ d.timer = c.timer
      /\ d.health = c.health /\ d.terminating = c.terminating
      /\ d.termination = c.termination /\ d.stop = c.stop /\ d.unclean = c.unclean
      /\ d.crashLoop = c.crashLoop /\ d.probe = c.probe /\ d.readiness = c.readiness
      /\ d.dispatched = c.dispatched /\ d.reset = c.reset /\ d.running = c.running /\ d.operations = c.operations
  BY <1>2, FieldsOf DEF Differs
<1>4. WaitsSound(d) /\ Waiting(d) = Waiting(c) \cup {"launch"}
  <2>1. c.waits \in Seq(Waits) /\ Unique(c.waits) /\ wait.who \notin Names(c.waits)
    BY <1>1, <1>6, <1>7 DEF Plumbed, WaitsSound, Live, Waiting
  <2>2. /\ Append(c.waits, wait) \in Seq(Waits) /\ Unique(Append(c.waits, wait))
        /\ Names(Append(c.waits, wait)) = Names(c.waits) \cup {wait.who}
    BY <1>7, <2>1, WaitsAppended
  <2> QED BY <1>2, <1>7, <2>2 DEF WaitsSound, Waiting
<1>8. Op(d) = Op(c) /\ Ops(d) = Ops(c) /\ OperationsSound(d)
  BY <1>1, <1>3 DEF Op, Ops, Plumbed, OperationsSound
<1>9. /\ Plumbed(d) /\ Asking(d) = Asking(c) /\ Told(d) = Told(c)
      /\ Live(d) = Asking(c) \cup Told(c) \cup Ops(d) \cup Waiting(d)
      /\ Returning(d) = Returning(c) /\ d.channel = c.channel /\ d.sent = c.sent /\ d.queue = c.queue
      /\ d.jobs = c.jobs
  <2>1. Differs(c, d, Scalars \cup {"running", "operations", "waits"})
    BY <1>2, FieldsOf DEF Differs, Scalars
  <2>2. c.sent \in Shutdowns => c.sent \in d.dispatched
    BY <1>1, <1>3 DEF Plumbed, QueueSound
  <2>3. Ops(d) \cap Told(c) = {} /\ Waiting(d) \cap (Told(c) \cup Asking(c)) = {}
    BY <1>1, <1>4, <1>6, <1>8 DEF Plumbed, Apart, Live
  <2>4. d.dispatched \subseteq c.dispatched /\ \A r \in Resetters \cap (Asking(c) \cup Told(c)) : d.reset[r] = c.reset[r]
    BY <1>3
  <2> QED BY <1>1, <1>4, <1>8, <2>1, <2>2, <2>3, <2>4, Kept
<1>10. Live(d) = Live(c) \cup {"launch"} /\ G = (H \ {w}) \cup {"launch"}
  <2>1. Live(d) = Live(c) \cup {"launch"}
    BY <1>4, <1>8, <1>9 DEF Live
  <2> QED BY <1>1, <2>1
<1>11. "fresh" \notin H \ {w} /\ "launch" \notin Asking(d) \cup Told(d)
  BY <1>6, <1>9, <1>5 DEF Live
<1>12. Typed(d)
  <2>1. \A field \in {"launching", "waits"} \ Loose : d[field] \in Types[field]
    BY <1>2, TypesOf DEF Loose
  <2> QED BY <1>1, <1>2, <2>1, TypedKept
<1>17. d.waits # <<>> => d.child
  BY <1>3
<1> HIDE DEF H, G
<1>13. LaunchSound(d, G) /\ HealthSound(d, G) /\ ReconcilerSound(d, G) /\ CircuitSound(d)
  <2>1. LaunchSound(d, G)
    BY <1>1, <1>2, <1>3, <1>5, <1>6, <1>10, <1>11, <1>17 DEF LaunchSound
  <2>2. HealthSound(d, G) /\ ReconcilerSound(d, G)
    BY <1>1, <1>3, <1>5, <1>10 DEF HealthSound, ReconcilerSound
  <2>3. CircuitSound(d)
    BY <1>1, <1>2, <1>3 DEF CircuitSound
  <2> QED BY <2>1, <2>2, <2>3
<1>14. StopSound(d, G)
  BY <1>1, <1>2, <1>3, <1>5, <1>9, <1>10 DEF StopSound
<1>15. ResetSound(d, G)
  <2>1. \A r \in Resetters : r \in G <=> r \in H
    BY <1>5, <1>10, Distinct DEF Operations
  <2> QED BY <1>1, <1>2, <1>3, <1>5, <2>1 DEF ResetSound, ResetFits
<1>16. Base(d, {}) /\ (Held(c) => Held(d))
  <2>1. Base(d, {})
    BY <1>9, <1>12, <1>13, <1>14, <1>15 DEF Base, G
  <2> QED BY <1>2, <1>3, <1>5, <1>9, <2>1 DEF Held
<1> QED BY <1>16 DEF d, wait

\* Everything that a launch changes when it ends, however it ended.
LaunchEnd == {"launching", "seen", "readiness", "timer", "failures", "crashLoop", "probe"}

\* The resetters at a stage, once each.
LEMMA ResettersInProperties ==
  ASSUME NEW c, NEW stage
  PROVE  LET s == ResettersIn(c, stage)
         IN  /\ s \in Seq(Resetters) /\ s \in Seq(Whos) /\ IsInjective(s)
             /\ ToSet(s) = {r \in Resetters : c.reset[r] = stage}
<1> DEFINE S == {r \in Resetters : c.reset[r] = stage}
           s == SetToSeq(S)
<1>1. IsFiniteSet(S)
  BY ResettersAssumption, FS_Subset
<1>2. s \in Seq(S) /\ IsInjective(s) /\ ToSet(s) = S
  BY <1>1, SetToSeqProperties
<1> HIDE DEF s
<1>3. s \in Seq(Resetters) /\ s \in Seq(Whos)
  BY <1>2 DEF Whos, Requesters
<1> QED BY <1>2, <1>3 DEF ResettersIn, s

\* Whoever waits for the start goes on.
LEMMA LaunchOver ==
  ASSUME NEW c, NEW e, NEW X, Base(c, X), Differs(c, e, LaunchEnd),
         e.launching = "none", \A field \in LaunchEnd : e[field] \in Types[field],
         X \subseteq {"launch", "fresh"}, "launch" \notin Live(c), "fresh" \in X <=> c.launching = "activation",
         c.launching # "none", c.launching = "validating" => Told(c) = {},
         CircuitSound(e), c.stop \in {"asked", "exit", "killed"} => e.timer = "none"
  PROVE  LET d == SettleAll(e, ResettersIn(e, "starting"), "launched")
         IN  Base(d, {}) /\ (Held(e) => Held(d))
<1> DEFINE S == {r \in Resetters : e.reset[r] = "starting"}
           d == SettleAll(e, ResettersIn(e, "starting"), "launched")
           H == Live(c) \cup X
           G == Live(e) \cup S
<1>1. /\ LaunchSound(c, H) /\ HealthSound(c, H) /\ ReconcilerSound(c, H) /\ StopSound(c, H)
      /\ ResetSound(c, H) /\ CircuitSound(c) /\ X \cap Live(c) = {} /\ Typed(c) /\ Plumbed(c)
  BY DEF Base
<1>2. /\ e.desired = c.desired /\ e.started = c.started /\ e.child = c.child
      /\ e.health = c.health /\ e.terminating = c.terminating
      /\ e.termination = c.termination /\ e.stop = c.stop /\ e.unclean = c.unclean
      /\ e.dispatched = c.dispatched /\ e.reset = c.reset
  BY FieldsOf DEF Differs, LaunchEnd
<1>3. /\ Typed(e) /\ Plumbed(e) /\ Live(e) = Live(c) /\ Asking(e) = Asking(c) /\ Told(e) = Told(c)
      /\ Waiting(e) = Waiting(c) /\ Returning(e) = Returning(c) /\ e.channel = c.channel
      /\ e.running = c.running /\ e.operations = c.operations /\ e.waits = c.waits
  <2>1. LaunchEnd \in SUBSET Scalars /\ \A field \in LaunchEnd \ Loose : e[field] \in Types[field]
    BY FieldsOf DEF Scalars, LaunchEnd
  <2>2. c.sent \in Shutdowns => c.sent \in e.dispatched
    BY <1>1, <1>2 DEF Plumbed, QueueSound
  <2> QED BY <1>2, <2>1, <2>2, Changed
<1>4. \A r \in S : r \in Resetters /\ r \notin Live(c)
  <2> SUFFICES ASSUME NEW r \in S, r \in Live(c) PROVE FALSE
    OBVIOUS
  <2>1. r \in Resetters /\ c.reset[r] = "starting"
    BY <1>2
  <2>2. c.launching = "validating"
    BY <1>1, <2>1 DEF ResetSound, ResetFits
  <2>3. r \notin Told(c)
    BY <2>2
  <2>4. r \notin Asking(c) /\ r \notin Ops(c) /\ r \notin Waiting(c)
    BY <1>1, <2>1, Kinds, Distinct DEF Plumbed, QueueSound
  <2> QED BY <2>3, <2>4 DEF Live
<1>5. /\ S \cap Live(e) = {} /\ G = (H \ X) \cup S /\ "launch" \notin G /\ "fresh" \notin S
      /\ ("fresh" \in G <=> "fresh" \in Live(c))
  <2>1. S \cap Live(e) = {} /\ G = (H \ X) \cup S
    BY <1>1, <1>3, <1>4
  <2>2. "launch" \notin S /\ "fresh" \notin S
    BY <1>4, Distinct DEF Operations
  <2> QED BY <1>3, <2>1, <2>2
<1>6. /\ "fresh" \in Live(c) <=> c.health = "fresh"
  <2>1. CASE c.launching = "activation"
    BY <1>1, <2>1 DEF LaunchSound
  <2>2. CASE c.launching # "activation"
    BY <1>1, <2>2 DEF LaunchSound
  <2> QED BY <2>1, <2>2
<1>7. \A w \in {"health", "session", "configure", "reconciler", "intent", "rollback", "stopper", "stop", "termination"} :
        w \in G <=> w \in H
  <2>1. \A w \in {"health", "session", "configure", "reconciler", "intent", "rollback", "stopper", "stop", "termination"} :
        w \notin S /\ w \notin X
    BY <1>4, Distinct DEF Operations, Shutdowns
  <2> QED BY <1>5, <2>1
<1>8. \A r \in Resetters : (r \in S => r \in G) /\ (r \notin S => (r \in G <=> r \in H)) /\ (r \in S <=> c.reset[r] = "starting")
  <2>1. \A r \in Resetters : r \notin X
    BY Distinct DEF Operations
  <2> QED BY <1>2, <1>5, <2>1
<1>9. H \subseteq {"stopper", "stop", "termination"} \cup Resetters
        => G \subseteq {"stopper", "stop", "termination"} \cup Resetters
  BY <1>4, <1>5
<1>20. "launch" \notin Asking(c) \cup Told(c) \cup Waiting(c)
  BY DEF Live
<1> HIDE DEF G, H
<1>10. LaunchSound(e, G) /\ HealthSound(e, G) /\ ReconcilerSound(e, G)
  <2>1. LaunchSound(e, G)
    BY <1>1, <1>2, <1>3, <1>5, <1>6, <1>20 DEF LaunchSound
  <2>2. HealthSound(e, G) /\ ReconcilerSound(e, G)
    BY <1>1, <1>2, <1>3, <1>7 DEF HealthSound, ReconcilerSound
  <2> QED BY <2>1, <2>2
<1>11. StopSound(e, G)
  BY <1>1, <1>2, <1>3, <1>7, <1>9 DEF StopSound
<1>12. ResetSound(e, G)
  <2> SUFFICES ASSUME NEW r \in Resetters
               PROVE  /\ ResetFits(e, G, r)
                      /\ e.reset[r] = "stopping" =>
                           IF r \in G THEN e.stop = "none" \/ (e.stop = "begun" /\ ~e.desired) ELSE e.stop # "none"
    BY DEF ResetSound
  <2> QED BY <1>1, <1>2, <1>8 DEF ResetSound, ResetFits
<1>13. Base(e, S)
  BY <1>3, <1>5, <1>10, <1>11, <1>12 DEF Base, G
<1> DEFINE s == ResettersIn(e, "starting")
<1>14. s \in Seq(Whos) /\ IsInjective(s) /\ ToSet(s) = S
  BY ResettersInProperties
<1>15. /\ "stopper" \notin S /\ "launch" \notin S /\ "launched" \in Hows
       /\ \A r \in Resetters \cap S : e.reset[r] # "stopping"
  BY <1>4, Distinct, HowsOf
<1> HIDE DEF s, S
<1>16. Moves(e, SettleAll(e, s, "launched"), S, S \ ToSet(s))
  BY <1>13, <1>14, <1>15, BaseReady, SettleAllMoves
<1>17. Moves(e, SettleAll(e, s, "launched"), S, {})
  <2>1. S \ ToSet(s) = {}
    BY <1>14
  <2> QED BY <1>16, <2>1
<1> QED BY <1>13, <1>17, MovesSound DEF s

\* The launch is over, and the resets that waited for it go on.
LEMMA EndLaunchSound ==
  ASSUME NEW c, NEW X, Base(c, X), X \subseteq {"launch", "fresh"}, "launch" \notin Live(c),
         "fresh" \in X <=> c.launching = "activation", c.launching # "none",
         c.launching = "validating" => Told(c) = {}
  PROVE  /\ Base(EndLaunch(c), {})
         /\ Held(c) /\ c.launching # "validating" => Held(EndLaunch(c))
         /\ /\ c.launching = "validating"
            /\ c.crashLoop => c.timer = "window"
            /\ c.desired => c.timer # "none" \/ c.readiness \in {"stable", "shutdown"}
            => Held(EndLaunch(c))
<1> DEFINE e == [c EXCEPT !.launching = "none", !.seen = "owner"]
<1>1. Typed(c) /\ StopSound(c, Live(c) \cup X) /\ CircuitSound(c) /\ LaunchSound(c, Live(c) \cup X)
  BY DEF Base
<1>2. Differs(c, e, {"launching", "seen"}) /\ e.launching = "none" /\ e.seen = "owner"
  BY <1>1, FieldsOf DEF Typed, IsClient, Differs
<1> HIDE DEF e
<1>3. /\ e.desired = c.desired /\ e.child = c.child /\ e.stop = c.stop /\ e.unclean = c.unclean
      /\ e.crashLoop = c.crashLoop /\ e.probe = c.probe /\ e.readiness = c.readiness /\ e.timer = c.timer
      /\ e.failures = c.failures /\ e.jobs = c.jobs /\ e.reset = c.reset
  BY <1>2, FieldsOf DEF Differs
<1>4. CircuitSound(e)
  BY <1>1, <1>2, <1>3 DEF CircuitSound
<1>5. \A field \in LaunchEnd : e[field] \in Types[field]
  <2>1. /\ c["readiness"] \in Types["readiness"] /\ c["timer"] \in Types["timer"]
        /\ c["failures"] \in Types["failures"] /\ c["crashLoop"] \in Types["crashLoop"]
        /\ c["probe"] \in Types["probe"]
    BY <1>1, TypesOf, FieldsOf DEF Typed, Loose
  <2>2. e["launching"] \in Types["launching"] /\ e["seen"] \in Types["seen"]
    BY <1>2, TypesOf DEF Snapshots
  <2>3. /\ e["readiness"] = c["readiness"] /\ e["timer"] = c["timer"] /\ e["failures"] = c["failures"]
        /\ e["crashLoop"] = c["crashLoop"] /\ e["probe"] = c["probe"]
    BY <1>2, FieldsOf DEF Differs
  <2> QED BY <2>1, <2>2, <2>3 DEF LaunchEnd
<1>6. Differs(c, e, LaunchEnd) /\ (c.stop \in {"asked", "exit", "killed"} => e.timer = "none")
  BY <1>1, <1>2, <1>3 DEF Differs, LaunchEnd, StopSound
<1>7. Base(EndLaunch(c), {}) /\ (Held(e) => Held(EndLaunch(c)))
  <2>1. LET d == SettleAll(e, ResettersIn(e, "starting"), "launched") IN Base(d, {}) /\ (Held(e) => Held(d))
    BY <1>2, <1>4, <1>5, <1>6, LaunchOver
  <2>2. ResettersIn(e, "starting") = ResettersIn(c, "starting")
    BY <1>3 DEF ResettersIn
  <2>3. EndLaunch(c) = SettleAll(e, ResettersIn(c, "starting"), "launched")
    BY DEF EndLaunch, e
  <2> QED BY <2>1, <2>2, <2>3
<1>8. Returning(e) = Returning(c)
  BY <1>3 DEF Returning
<1>9. Held(c) /\ c.launching # "validating" => Held(e)
  BY <1>2, <1>3, <1>8 DEF Held
<1>10. /\ c.launching = "validating"
       /\ c.crashLoop => c.timer = "window"
       /\ c.desired => c.timer # "none" \/ c.readiness \in {"stable", "shutdown"}
       => Held(e)
  BY <1>1, <1>2, <1>3, <1>8 DEF Held, LaunchSound
<1> QED BY <1>7, <1>9, <1>10

\* The classes of a failure are readinesses, and answers.
LEMMA ClassesAre == Classes \subseteq Readiness \ {"stopped"} /\ Classes \subseteq Hows /\ "ready" \notin Classes
BY DEF Classes, Readiness, Hows, Snapshots

\* TerminateCurrent keeps a client sound, and where its launch and its stop
\* are.
LEMMA TerminateCurrentSound ==
  ASSUME NEW c, NEW X, Base(c, X), NEW why \in Classes
  PROVE  LET d == TerminateCurrent(c, why)
         IN  /\ Base(d, X) /\ (Held(c) => Held(d))
             /\ d.launching = c.launching /\ d.health = c.health /\ d.child = c.child
             /\ d.desired = c.desired /\ d.stop = c.stop
<1>1. CASE ~c.child \/ c.terminating
  BY <1>1 DEF TerminateCurrent
<1>2. CASE c.child /\ ~c.terminating
  <2> DEFINE m == [c EXCEPT !.terminating = TRUE, !.planned = IF @ = "none" THEN why ELSE @,
                            !.termination = "asked", !.dispatched = @ \ {"termination"}]
             Y == X \cup {"termination"}
             H == Live(c) \cup X
             G == Live(m) \cup Y
  <2>1. /\ LaunchSound(c, H) /\ HealthSound(c, H) /\ ReconcilerSound(c, H) /\ StopSound(c, H)
        /\ ResetSound(c, H) /\ CircuitSound(c) /\ X \cap Live(c) = {} /\ Typed(c) /\ Plumbed(c)
        /\ c.planned \in Classes \cup {"none", "shutdown"}
    BY TypedFields DEF Base
  <2>2. "termination" \notin H
    BY <1>2, <2>1 DEF StopSound
  <2>3. /\ Differs(c, m, {"terminating", "planned", "termination", "dispatched"})
        /\ m.terminating \in BOOLEAN /\ m.terminating /\ m.termination = "asked"
        /\ m.planned \in Classes \cup {"none", "shutdown"}
        /\ m.dispatched = c.dispatched \ {"termination"}
    BY <2>1, FieldsOf, ZenonT(40) DEF Typed, IsClient, Differs
  <2> HIDE DEF m
  <2>4. /\ m.desired = c.desired /\ m.started = c.started /\ m.child = c.child /\ m.timer = c.timer
        /\ m.health = c.health /\ m.stop = c.stop /\ m.unclean = c.unclean /\ m.launching = c.launching
        /\ m.crashLoop = c.crashLoop /\ m.probe = c.probe /\ m.readiness = c.readiness
        /\ m.reset = c.reset
    BY <2>3, FieldsOf DEF Differs
  <2>5. /\ Typed(m) /\ Plumbed(m) /\ Live(m) = Live(c) /\ Asking(m) = Asking(c) /\ Told(m) = Told(c)
        /\ Waiting(m) = Waiting(c) /\ Returning(m) = Returning(c) /\ m.channel = c.channel
        /\ m.running = c.running /\ m.operations = c.operations /\ m.waits = c.waits
    <3>1. /\ {"terminating", "planned", "termination", "dispatched"} \in SUBSET Scalars
          /\ \A field \in {"terminating", "planned", "termination", "dispatched"} \ Loose : m[field] \in Types[field]
      <4>1. /\ m["terminating"] \in Types["terminating"] /\ m["planned"] \in Types["planned"]
            /\ m["termination"] \in Types["termination"]
        BY <2>3, TypesOf, ZenonT(40)
      <4>2. {"terminating", "planned", "termination", "dispatched"} \in SUBSET Scalars /\ "dispatched" \in Loose
        BY FieldsOf DEF Scalars, Loose
      <4> QED BY <4>1, <4>2
    <3>2. c.sent \in Shutdowns => c.sent \in m.dispatched
      <4>1. c.sent # "termination"
        BY <2>2 DEF Live, Asking
      <4> QED BY <2>1, <2>3, <4>1 DEF Plumbed, QueueSound
    <3>3. m.dispatched \subseteq c.dispatched
      BY <2>3
    <3> QED BY <2>3, <2>4, <3>1, <3>2, <3>3, Changed
  <2>6. Y \cap Live(m) = {} /\ G = H \cup {"termination"}
    BY <2>1, <2>2, <2>5
  <2>7. "termination" \notin {"launch", "fresh", "health", "session", "configure", "reconciler", "intent", "rollback",
                               "stopper", "stop"} \cup Resetters
    BY Distinct DEF Shutdowns
  <2>8. c.child /\ m.child
    BY <1>2, <2>4
  <2> HIDE DEF G, H, Y
  <2>9. LaunchSound(m, G) /\ HealthSound(m, G) /\ ReconcilerSound(m, G) /\ CircuitSound(m)
    <3>1. LaunchSound(m, G)
      BY <2>1, <2>4, <2>5, <2>6 DEF LaunchSound
    <3>2. HealthSound(m, G) /\ ReconcilerSound(m, G)
      BY <2>1, <2>4, <2>5, <2>6 DEF HealthSound, ReconcilerSound
    <3>3. CircuitSound(m)
      BY <2>1, <2>4 DEF CircuitSound
    <3> QED BY <3>1, <3>2, <3>3
  <2>10. StopSound(m, G)
    BY <2>1, <2>3, <2>4, <2>5, <2>6, <2>8 DEF StopSound
  <2>11. ResetSound(m, G)
    <3>1. \A r \in Resetters : r \in G <=> r \in H
      BY <2>6, <2>7
    <3> QED BY <2>1, <2>4, <3>1 DEF ResetSound, ResetFits
  <2>12. Base(m, Y) /\ (Held(c) => Held(m))
    <3>1. Base(m, Y)
      BY <2>5, <2>6, <2>9, <2>10, <2>11 DEF Base, G
    <3> QED BY <2>4, <2>5, <3>1 DEF Held
  <2> DEFINE f == Forget(m)
             p == Publish(f, why)
             b == BeginDraining(p)
             d == RequestShutdown(b, "termination")
  <2>13. Base(f, Y) /\ (Held(m) => Held(f)) /\ Quieter(m, f) /\ f.child
    <3>1. Quieter(m, f)
      BY <2>5, QuietOperations
    <3> QED BY <2>8, <2>12, <3>1, QuieterSound, QuieterFields
  <2>20. Typed(f)
    BY <2>13 DEF Quieter
  <2> HIDE DEF f
  <2>14. Base(p, Y) /\ (Held(f) => Held(p)) /\ Differs(f, p, {"readiness"}) /\ p.readiness = why
    <3>1. why \in Readiness \ {"stopped"}
      BY ClassesAre
    <3> QED BY <2>13, <3>1, PublishSound
  <2> HIDE DEF p
  <2>15. Moves(p, b, Y, Y) /\ b.channel # "open"
    BY <2>14, BaseReady, BeginDrainingMoves
  <2>16. Base(b, Y) /\ (Held(p) => Held(b))
    BY <2>14, <2>15, MovesSound
  <2> HIDE DEF b
  <2>17. Moves(b, d, Y, X)
    <3>1. Y \ {"termination"} = X /\ "termination" \in Shutdowns \cap Y
      BY <2>2 DEF Y, H, Shutdowns
    <3>2. Moves(b, d, Y, Y \ {"termination"})
      BY <2>15, <2>16, <3>1, BaseReady, RequestShutdownMoves
    <3> QED BY <3>1, <3>2
  <2>18. Base(d, X) /\ (Held(b) => Held(d))
    BY <2>16, <2>17, MovesSound
  <2> HIDE DEF d
  <2>19. d.launching = c.launching /\ d.health = c.health /\ d.child = c.child /\ d.desired = c.desired /\ d.stop = c.stop
    <3>1. f.launching = c.launching /\ f.health = c.health /\ f.child = c.child /\ f.desired = c.desired /\ f.stop = c.stop
      BY <2>4, <2>13, QuieterFields
    <3>2. p.launching = c.launching /\ p.health = c.health /\ p.child = c.child /\ p.desired = c.desired /\ p.stop = c.stop
      BY <2>14, <3>1, FieldsOf DEF Differs
    <3>3. b.launching = c.launching /\ b.health = c.health /\ b.child = c.child /\ b.desired = c.desired /\ b.stop = c.stop
      BY <2>15, <3>2, FieldsOf DEF Moves, Differs, Wires
    <3> QED BY <2>17, <3>3, FieldsOf DEF Moves, Differs, Wires
  <2>21. TerminateCurrent(c, why) = d
    BY <1>2 DEF TerminateCurrent, m, f, p, b, d
  <2> QED BY <2>12, <2>13, <2>14, <2>16, <2>18, <2>19, <2>21
<1> QED BY <1>1, <1>2

\* What explains a failure is a class.
LEMMA ExplainedIs ==
  ASSUME NEW c, Typed(c), NEW why \in Classes
  PROVE  Explained(c, why) \in Classes
BY TypedFields DEF Explained

\* HandleFault keeps a client sound.
LEMMA HandleFaultSound ==
  ASSUME NEW c, NEW X, Base(c, X), "fault" \notin X, NEW why \in Classes
  PROVE  Base(HandleFault(c, why), X) /\ (Held(c) => Held(HandleFault(c, why)))
<1> DEFINE wait == [who |-> "fault", why |-> why]
           d == [c EXCEPT !.waits = Append(@, wait)]
           H == Live(c) \cup X
           G == Live(d) \cup X
<1>1. /\ LaunchSound(c, H) /\ HealthSound(c, H) /\ ReconcilerSound(c, H) /\ StopSound(c, H)
      /\ ResetSound(c, H) /\ CircuitSound(c) /\ X \cap Live(c) = {} /\ Typed(c) /\ Plumbed(c)
  BY DEF Base
<1>2. CASE c.child /\ c.launching # "none" /\ c.stop = "none" /\ ~\E i \in DOMAIN c.waits : c.waits[i].who = "fault"
  <2>1. Differs(c, d, {"waits"}) /\ d.waits = Append(c.waits, wait)
    BY <1>1, FieldsOf DEF Typed, IsClient, Differs
  <2>2. wait \in Waits /\ wait.who = "fault"
    BY DEF Waits
  <2> HIDE DEF d, wait
  <2>3. /\ d.desired = c.desired /\ d.started = c.started /\ d.child = c.child /\ d.timer = c.timer
        /\ d.health = c.health /\ d.terminating = c.terminating /\ d.launching = c.launching
        /\ d.termination = c.termination /\ d.stop = c.stop /\ d.unclean = c.unclean
        /\ d.crashLoop = c.crashLoop /\ d.probe = c.probe /\ d.readiness = c.readiness
        /\ d.dispatched = c.dispatched /\ d.reset = c.reset /\ d.running = c.running /\ d.operations = c.operations
    BY <2>1, FieldsOf DEF Differs
  <2>4. WaitsSound(d) /\ Waiting(d) = Waiting(c) \cup {"fault"}
    <3>1. c.waits \in Seq(Waits) /\ Unique(c.waits) /\ wait.who \notin Names(c.waits)
      BY <1>1, <1>2, <2>2 DEF Plumbed, WaitsSound, Names
    <3>2. /\ Append(c.waits, wait) \in Seq(Waits) /\ Unique(Append(c.waits, wait))
          /\ Names(Append(c.waits, wait)) = Names(c.waits) \cup {wait.who}
      BY <2>2, <3>1, WaitsAppended
    <3> QED BY <2>1, <2>2, <3>2 DEF WaitsSound, Waiting
  <2>5. Op(d) = Op(c) /\ Ops(d) = Ops(c) /\ OperationsSound(d)
    BY <1>1, <2>3 DEF Op, Ops, Plumbed, OperationsSound
  <2>6. "fault" \notin Asking(c) \cup Told(c)
    BY <1>1, Kinds, Distinct DEF Whos
  <2>7. /\ Plumbed(d) /\ Asking(d) = Asking(c) /\ Told(d) = Told(c)
        /\ Live(d) = Asking(c) \cup Told(c) \cup Ops(d) \cup Waiting(d)
        /\ Returning(d) = Returning(c) /\ d.channel = c.channel /\ d.sent = c.sent /\ d.queue = c.queue
        /\ d.jobs = c.jobs
    <3>1. Differs(c, d, Scalars \cup {"running", "operations", "waits"})
      BY <2>1 DEF Differs
    <3>2. c.sent \in Shutdowns => c.sent \in d.dispatched
      BY <1>1, <2>3 DEF Plumbed, QueueSound
    <3>3. Ops(d) \cap Told(c) = {} /\ Waiting(d) \cap (Told(c) \cup Asking(c)) = {}
      BY <1>1, <2>4, <2>5, <2>6 DEF Plumbed, Apart
    <3>4. d.dispatched \subseteq c.dispatched /\ \A r \in Resetters \cap (Asking(c) \cup Told(c)) : d.reset[r] = c.reset[r]
      BY <2>3
    <3> QED BY <1>1, <2>4, <2>5, <3>1, <3>2, <3>3, <3>4, Kept
  <2>8. Live(d) = Live(c) \cup {"fault"} /\ G = H \cup {"fault"} /\ X \cap Live(d) = {}
    <3>1. Live(d) = Live(c) \cup {"fault"}
      BY <2>4, <2>5, <2>7 DEF Live
    <3> QED BY <1>1, <3>1
  <2>9. Typed(d)
    BY <1>1, <2>1, TypedKept DEF Loose
  <2>10. d.waits # <<>> => d.child
    BY <1>2, <2>3
  <2>15. c.child
    BY <1>2
  <2> HIDE DEF H, G
  <2>11. LaunchSound(d, G) /\ HealthSound(d, G) /\ ReconcilerSound(d, G) /\ CircuitSound(d)
    <3>1. LaunchSound(d, G)
      BY <1>1, <2>3, <2>4, <2>7, <2>8, <2>10 DEF LaunchSound
    <3>2. HealthSound(d, G) /\ ReconcilerSound(d, G)
      BY <1>1, <2>3, <2>8 DEF HealthSound, ReconcilerSound
    <3>3. CircuitSound(d)
      BY <1>1, <2>3 DEF CircuitSound
    <3> QED BY <3>1, <3>2, <3>3
  <2>12. StopSound(d, G)
    BY <1>1, <2>3, <2>7, <2>8, <2>15 DEF StopSound
  <2>13. ResetSound(d, G)
    <3>1. \A r \in Resetters : r \in G <=> r \in H
      BY <2>8, Distinct
    <3> QED BY <1>1, <2>3, <3>1 DEF ResetSound, ResetFits
  <2>14. Base(d, X) /\ (Held(c) => Held(d))
    <3>1. Base(d, X)
      BY <2>7, <2>8, <2>9, <2>11, <2>12, <2>13 DEF Base, G
    <3> QED BY <2>3, <2>7, <3>1 DEF Held
  <2> QED BY <1>2, <2>14 DEF HandleFault, d, wait
<1>3. CASE c.child /\ c.stop = "none" /\ c.launching = "none"
  <2>1. HandleFault(c, why) = TerminateCurrent(c, Explained(c, why))
    BY <1>3 DEF HandleFault
  <2> QED BY <1>1, <2>1, ExplainedIs, TerminateCurrentSound
<1>4. CASE c.child /\ c.stop # "none" /\ why = "stable"
  <2> DEFINE e == [c EXCEPT !.stopFault = TRUE]
             p == Publish(e, why)
  <2>1. Quieter(c, e)
    <3>1. Differs(c, e, {"stopFault"}) /\ e.stopFault \in BOOLEAN
      BY <1>1, FieldsOf DEF Typed, IsClient, Differs
    <3> HIDE DEF e
    <3> QED BY <1>1, <3>1, QuieterBy, TypesOf DEF Quiet
  <2> HIDE DEF e
  <2>2. Base(e, X) /\ (Held(c) => Held(e)) /\ e.child
    BY <1>4, <2>1, QuieterSound, QuieterFields
  <2>3. Base(p, X) /\ (Held(e) => Held(p))
    <3>1. why \in Readiness \ {"stopped"}
      BY ClassesAre
    <3> QED BY <2>2, <3>1, PublishSound
  <2> HIDE DEF p
  <2>4. Base(BeginDraining(p), X) /\ (Held(p) => Held(BeginDraining(p)))
    BY <2>3, BeginDrainingSound
  <2>5. HandleFault(c, why) = BeginDraining(p)
    BY <1>4 DEF HandleFault, p, e
  <2> QED BY <2>2, <2>3, <2>4, <2>5
<1>5. HandleFault(c, why) = c \/ (c.child /\ c.stop = "none" /\ c.launching = "none")
      \/ (c.child /\ c.launching # "none" /\ c.stop = "none" /\ ~\E i \in DOMAIN c.waits : c.waits[i].who = "fault")
      \/ (c.child /\ c.stop # "none" /\ why = "stable")
  BY DEF HandleFault
<1> QED BY <1>2, <1>3, <1>4, <1>5

\* CloseCircuit keeps a client sound.
LEMMA CloseCircuitSound ==
  ASSUME NEW c, NEW X, Base(c, X)
  PROVE  LET d == CloseCircuit(c)
         IN  /\ Base(d, X) /\ (Held(c) => Held(d)) /\ d.launching = c.launching /\ d.child = c.child
             /\ Differs(c, d, {"failures", "crashLoop", "probe"}) /\ ~d.crashLoop /\ ~d.probe
<1> DEFINE d == CloseCircuit(c)
           H == Live(c) \cup X
<1>1. /\ LaunchSound(c, H) /\ HealthSound(c, H) /\ ReconcilerSound(c, H) /\ StopSound(c, H)
      /\ ResetSound(c, H) /\ CircuitSound(c) /\ X \cap Live(c) = {} /\ Typed(c) /\ Plumbed(c)
  BY DEF Base
<1>2. /\ Differs(c, d, {"failures", "crashLoop", "probe"}) /\ ~d.crashLoop /\ ~d.probe
      /\ d.failures = 0 /\ d.crashLoop \in BOOLEAN /\ d.probe \in BOOLEAN
  BY <1>1, FieldsOf, ZenonT(40) DEF Typed, IsClient, Differs, CloseCircuit
<1> HIDE DEF d
<1>3. /\ d.desired = c.desired /\ d.started = c.started /\ d.child = c.child /\ d.timer = c.timer
      /\ d.health = c.health /\ d.terminating = c.terminating /\ d.launching = c.launching
      /\ d.termination = c.termination /\ d.stop = c.stop /\ d.unclean = c.unclean
      /\ d.readiness = c.readiness /\ d.dispatched = c.dispatched /\ d.reset = c.reset
  BY <1>2, FieldsOf DEF Differs
<1>4. /\ Typed(d) /\ Plumbed(d) /\ Live(d) = Live(c) /\ Asking(d) = Asking(c) /\ Told(d) = Told(c)
      /\ Waiting(d) = Waiting(c) /\ Returning(d) = Returning(c) /\ d.channel = c.channel
      /\ d.running = c.running /\ d.operations = c.operations /\ d.waits = c.waits
  <2>1. {"failures", "crashLoop", "probe"} \in SUBSET Scalars
    BY FieldsOf DEF Scalars
  <2>2. 0 \in 0 .. FailureLimit - 1
    BY FailureLimitAssumption
  <2>3. /\ d["failures"] \in Types["failures"] /\ d["crashLoop"] \in Types["crashLoop"]
        /\ d["probe"] \in Types["probe"]
    BY <1>2, <2>2, TypesOf
  <2>4. c.sent \in Shutdowns => c.sent \in d.dispatched
    BY <1>1, <1>3 DEF Plumbed, QueueSound
  <2>5. \A field \in {"failures", "crashLoop", "probe"} \ Loose : d[field] \in Types[field]
    BY <2>3
  <2> QED BY <1>2, <1>3, <2>1, <2>4, <2>5, Changed
<1> HIDE DEF H
<1>5. /\ LaunchSound(d, H) /\ HealthSound(d, H) /\ ReconcilerSound(d, H) /\ StopSound(d, H)
      /\ ResetSound(d, H) /\ CircuitSound(d)
  <2>1. LaunchSound(d, H) /\ HealthSound(d, H) /\ ReconcilerSound(d, H)
    BY <1>1, <1>3, <1>4 DEF LaunchSound, HealthSound, ReconcilerSound
  <2>2. StopSound(d, H) /\ ResetSound(d, H)
    BY <1>1, <1>3, <1>4 DEF StopSound, ResetSound, ResetFits
  <2>3. CircuitSound(d)
    BY <1>1, <1>2, <1>3 DEF CircuitSound
  <2> QED BY <2>1, <2>2, <2>3
<1>6. Base(d, X)
  BY <1>1, <1>4, <1>5 DEF Base, H
<1>7. Held(c) => Held(d)
  BY <1>2, <1>3, <1>4 DEF Held
<1> QED BY <1>2, <1>3, <1>6, <1>7 DEF d

\* What holds while the launch is in hand.
LEMMA TokenFacts ==
  ASSUME NEW c, NEW w, Base(c, {w}), LaunchToken(c, w)
  PROVE  /\ {"launch", "fresh"} \cap Live(c) = {} /\ c.health = "none" /\ {w} \subseteq {"launch", "fresh"}
         /\ "fresh" \in {w} <=> c.launching = "activation"
         /\ c.launching \notin {"none", "validating", "failed"}
<1>1. LaunchSound(c, Live(c) \cup {w}) /\ w \notin Live(c)
  BY DEF Base
<1> QED BY <1>1 DEF LaunchSound, LaunchToken

\* The launch fails.
LEMMA LaunchFailsSound ==
  ASSUME NEW c, NEW w, Base(c, {w}), LaunchToken(c, w), NEW why \in Classes
  PROVE  Base(LaunchFails(c, why), {}) /\ (Held(c) => Held(LaunchFails(c, why)))
<1>1. CASE c.child
  BY <1>1, LaunchFailed DEF LaunchFails
<1>2. CASE ~c.child
  <2>1. Base(EndLaunch(c), {}) /\ (Held(c) => Held(EndLaunch(c)))
    BY TokenFacts, EndLaunchSound
  <2> QED BY <1>2, <2>1 DEF LaunchFails
<1> QED BY <1>1, <1>2

\* The launch has its shortcuts.
LEMMA LaunchReconciledSound ==
  ASSUME NEW c, NEW w, Base(c, {w}), LaunchToken(c, w)
  PROVE  Base(LaunchReconciled(c), {}) /\ (Held(c) => Held(LaunchReconciled(c)))
<1> DEFINE d == IF c.probe THEN CloseCircuit(c) ELSE c
           p == Publish(d, c.seen)
<1>1. Base(d, {w}) /\ (Held(c) => Held(d)) /\ d.launching = c.launching /\ d.child = c.child
  BY CloseCircuitSound
<1>2. CASE IsActiveChild(c)
  <2>1. c.seen \in Readiness \ {"stopped"} /\ d.child
    <3>1. c.seen \in Snapshots
      BY TypedFields DEF Base
    <3> QED BY <1>1, <1>2, <3>1 DEF Readiness, IsActiveChild, Snapshots
  <2> HIDE DEF d
  <2>2. Base(p, {w}) /\ (Held(d) => Held(p)) /\ p.launching = c.launching
    <3>1. Base(p, {w}) /\ (Held(d) => Held(p)) /\ Differs(d, p, {"readiness"})
      BY <1>1, <2>1, PublishSound
    <3> HIDE DEF p
    <3>2. p.launching = d.launching
      BY <3>1, FieldsOf DEF Differs
    <3> QED BY <1>1, <3>1, <3>2
  <2> HIDE DEF p
  <2>3. LaunchToken(p, w)
    BY <2>2 DEF LaunchToken
  <2>4. Base(EndLaunch(p), {}) /\ (Held(p) => Held(EndLaunch(p)))
    BY <2>2, <2>3, TokenFacts, EndLaunchSound
  <2>5. LaunchReconciled(c) = EndLaunch(p)
    BY <1>2 DEF LaunchReconciled, p, d
  <2> QED BY <1>1, <2>2, <2>4, <2>5
<1>3. CASE ~IsActiveChild(c)
  <2>1. Base(EndLaunch(c), {}) /\ (Held(c) => Held(EndLaunch(c)))
    BY TokenFacts, EndLaunchSound
  <2>2. LaunchReconciled(c) = EndLaunch(c)
    BY <1>3 DEF LaunchReconciled
  <2> QED BY <2>1, <2>2
<1> QED BY <1>2, <1>3

\* Whatever the launch is told, it goes on or ends.
LEMMA LaunchContinuesSound ==
  ASSUME NEW c, NEW w, Base(c, {w}), LaunchToken(c, w), NEW how \in Hows
  PROVE  Base(LaunchContinues(c, how), {}) /\ (Held(c) => Held(LaunchContinues(c, how)))
<1>0. Typed(c)
  BY DEF Base
<1>1. ASSUME NEW d, Quieter(c, d)
      PROVE  Base(d, {w}) /\ (Held(c) => Held(d)) /\ LaunchToken(d, w)
  BY <1>1, QuieterSound, QuieterFields DEF LaunchToken
<1>2. CASE how = "ok" /\ c.launching = "initialize"
  <2> DEFINE d == SetBlocked(c, TRUE)
  <2>1. Base(d, {w}) /\ (Held(c) => Held(d)) /\ LaunchToken(d, w)
    BY <1>0, <1>1, SetBlockedQuieter
  <2> HIDE DEF d
  <2>2. Base(LaunchAsks(d, "snapshot"), {}) /\ (Held(d) => Held(LaunchAsks(d, "snapshot")))
    BY <2>1, LaunchAsksSound
  <2>3. Base(EndLaunch(c), {}) /\ (Held(c) => Held(EndLaunch(c)))
    BY TokenFacts, EndLaunchSound
  <2>4. LaunchContinues(c, how) \in {LaunchAsks(d, "snapshot"), EndLaunch(c)}
    BY <1>2 DEF LaunchContinues, d, Snapshots
  <2> QED BY <2>1, <2>2, <2>3, <2>4
<1>3. CASE how \in Snapshots
  <2> DEFINE d == [c EXCEPT !.seen = how]
  <2>1. Quieter(c, d)
    <3>1. Differs(c, d, {"seen"}) /\ d.seen = how
      BY <1>0, FieldsOf DEF Typed, IsClient, Differs
    <3> HIDE DEF d
    <3> QED BY <1>0, <1>3, <3>1, QuieterBy, TypesOf DEF Quiet
  <2> HIDE DEF d
  <2>2. Base(d, {w}) /\ (Held(c) => Held(d)) /\ LaunchToken(d, w)
    BY <1>1, <2>1
  <2>3. Base(LaunchAsks(d, "off"), {}) /\ (Held(d) => Held(LaunchAsks(d, "off")))
    BY <2>2, LaunchAsksSound
  <2>4. LaunchContinues(c, how) = LaunchAsks(d, "off")
    BY <1>3 DEF LaunchContinues, d, Snapshots
  <2> QED BY <2>2, <2>3, <2>4
<1>4. CASE how = "ok" /\ c.launching = "off"
  <2> DEFINE d == IF c.seen = "ready" THEN SetBlocked(c, FALSE) ELSE c
             e == [d EXCEPT !.launching = "activation"]
  <2>1. Quieter(c, d)
    <3>1. Quieter(c, c)
      BY <1>0 DEF Quieter, Typed, Differs
    <3> QED BY <1>0, <3>1, SetBlockedQuieter
  <2> HIDE DEF d
  <2>2. Base(d, {w}) /\ (Held(c) => Held(d)) /\ LaunchToken(d, w)
    BY <1>1, <2>1
  <2>3. Base(e, {"fresh"}) /\ (Held(d) => Held(e))
    <3>1. (IF "activation" = "activation" THEN "fresh" ELSE "launch") = "fresh"
          /\ "activation" \in {"snapshot", "off", "activation"}
      OBVIOUS
    <3> QED BY <2>2, <3>1, LaunchStepSound
  <2> HIDE DEF e
  <2>4. Base(Enqueue(e, "fresh"), {"fresh"} \ {"fresh"}) /\ (Held(e) => Held(Enqueue(e, "fresh")))
    <3>1. "fresh" \in {"fresh"} \cap Operations
      BY DEF Operations
    <3> QED BY <2>3, <3>1, EnqueueSound
  <2>5. {"fresh"} \ {"fresh"} = {}
    OBVIOUS
  <2>6. LaunchContinues(c, how) = Enqueue(e, "fresh")
    BY <1>4 DEF LaunchContinues, d, e, Snapshots
  <2> QED BY <2>2, <2>3, <2>4, <2>5, <2>6
<1>5. CASE how = "ok" /\ c.launching = "activation"
  <2>1. LaunchContinues(c, how) = LaunchReconciled(c)
    BY <1>5 DEF LaunchContinues, Snapshots
  <2> QED BY <2>1, LaunchReconciledSound
<1>6. CASE how \notin Snapshots /\ ~(how = "ok" /\ c.launching \in {"initialize", "off", "activation"})
  <2>1. LaunchContinues(c, how) = LaunchFails(c, Classified(how))
    BY <1>6 DEF LaunchContinues
  <2>2. Classified(how) \in Classes
    BY DEF Classified, Classes
  <2> QED BY <2>1, <2>2, LaunchFailsSound
<1> QED BY <1>2, <1>3, <1>4, <1>5, <1>6

\* stderr has drained: the first that waits for it goes on.
LEMMA StderrDrainedSound ==
  ASSUME NEW c, Base(c, {}), c.waits # <<>>
  PROVE  Base(StderrDrained(c), {}) /\ (Held(c) => Held(StderrDrained(c)))
<1> DEFINE first == Head(c.waits)
           w == first.who
           over == [c EXCEPT !.waits = Tail(@)]
           H == Live(c) \cup {}
           G == Live(over) \cup {w}
<1>1. /\ LaunchSound(c, H) /\ HealthSound(c, H) /\ ReconcilerSound(c, H) /\ StopSound(c, H)
      /\ ResetSound(c, H) /\ CircuitSound(c) /\ Typed(c) /\ Plumbed(c)
  BY DEF Base
<1>2. Differs(c, over, {"waits"}) /\ over.waits = Tail(c.waits)
  BY <1>1, FieldsOf DEF Typed, IsClient, Differs
<1>3. /\ first \in Waits /\ Tail(c.waits) \in Seq(Waits) /\ Unique(Tail(c.waits))
      /\ Names(c.waits) = Names(Tail(c.waits)) \cup {w} /\ w \notin Names(Tail(c.waits))
  <2> DEFINE s == c.waits
             t == Tail(s)
  <2>1. s \in Seq(Waits) /\ Unique(s) /\ s # <<>>
    BY <1>1 DEF Plumbed, WaitsSound
  <2>2. /\ Len(s) \in Nat \ {0} /\ DOMAIN s = 1..Len(s) /\ first = s[1] /\ s[1] \in Waits /\ t \in Seq(Waits)
        /\ DOMAIN t = 1..Len(s)-1 /\ \A i \in 1..Len(s)-1 : t[i] = s[i+1] /\ i+1 \in 1..Len(s)
        /\ \A i \in 1..Len(s) : i = 1 \/ (i-1 \in 1..Len(s)-1 /\ t[i-1] = s[i])
    BY <2>1
  <2> HIDE DEF s, t, first
  <2>3. 1 \in 1..Len(s) /\ \A i \in 1..Len(s)-1 : i+1 # 1
    BY <2>2
  <2>4. \A i, j \in 1..Len(s)-1 : i+1 = j+1 => i = j
    OBVIOUS
  <2>7. Unique(t)
    <3> SUFFICES ASSUME NEW i \in 1..Len(s)-1, NEW j \in 1..Len(s)-1, t[i].who = t[j].who PROVE i = j
      BY <2>2 DEF Unique
    <3>1. i+1 \in DOMAIN s /\ j+1 \in DOMAIN s /\ s[i+1].who = s[j+1].who
      BY <2>2
    <3>2. i+1 = j+1
      BY <2>1, <3>1 DEF Unique
    <3> QED BY <2>4, <3>2
  <2>8. \A i \in 1..Len(s)-1 : t[i].who # s[1].who
    BY <2>1, <2>2, <2>3 DEF Unique
  <2>5. Unique(t) /\ w \notin Names(t)
    BY <2>2, <2>7, <2>8 DEF Names, w
  <2>6. Names(s) = Names(t) \cup {w}
    <3>1. \A i \in 1..Len(s) : s[i].who \in Names(t) \cup {w}
      BY <2>2 DEF Names
    <3>2. \A i \in DOMAIN t : t[i].who \in Names(s)
      BY <2>2 DEF Names
    <3>3. w \in Names(s)
      BY <2>2, <2>3 DEF Names, w
    <3>4. \A n \in Names(t) : n \in Names(s)
      BY <3>2 DEF Names
    <3>5. \A n \in Names(s) : n \in Names(t) \cup {w}
      BY <2>2, <3>1 DEF Names
    <3> QED BY <3>3, <3>4, <3>5
  <2> QED BY <2>2, <2>5, <2>6 DEF s, t
<1>4. w \in {"launch", "fault"} /\ first.why \in Classes
  BY <1>3 DEF Waits
<1> HIDE DEF over, first, w
<1>5. /\ over.desired = c.desired /\ over.started = c.started /\ over.child = c.child /\ over.timer = c.timer
      /\ over.health = c.health /\ over.terminating = c.terminating /\ over.launching = c.launching
      /\ over.termination = c.termination /\ over.stop = c.stop /\ over.unclean = c.unclean
      /\ over.crashLoop = c.crashLoop /\ over.probe = c.probe /\ over.readiness = c.readiness
      /\ over.dispatched = c.dispatched /\ over.reset = c.reset /\ over.running = c.running
      /\ over.operations = c.operations
  BY <1>2, FieldsOf DEF Differs
<1>6. WaitsSound(over) /\ Waiting(c) = Waiting(over) \cup {w} /\ w \notin Waiting(over)
  BY <1>2, <1>3 DEF WaitsSound, Waiting
<1>7. Op(over) = Op(c) /\ Ops(over) = Ops(c) /\ OperationsSound(over)
  BY <1>1, <1>5 DEF Op, Ops, Plumbed, OperationsSound
<1>8. /\ Plumbed(over) /\ Asking(over) = Asking(c) /\ Told(over) = Told(c)
      /\ Live(over) = Asking(c) \cup Told(c) \cup Ops(over) \cup Waiting(over)
      /\ Returning(over) = Returning(c) /\ over.channel = c.channel /\ over.sent = c.sent /\ over.queue = c.queue
      /\ over.jobs = c.jobs
  <2>1. Differs(c, over, Scalars \cup {"running", "operations", "waits"})
    BY <1>2 DEF Differs
  <2>2. c.sent \in Shutdowns => c.sent \in over.dispatched
    BY <1>1, <1>5 DEF Plumbed, QueueSound
  <2>3. Ops(over) \cap Told(c) = {} /\ Waiting(over) \cap (Told(c) \cup Asking(c)) = {}
    BY <1>1, <1>6, <1>7 DEF Plumbed, Apart
  <2>4. over.dispatched \subseteq c.dispatched
        /\ \A r \in Resetters \cap (Asking(c) \cup Told(c)) : over.reset[r] = c.reset[r]
    BY <1>5
  <2> QED BY <1>1, <1>6, <1>7, <2>1, <2>2, <2>3, <2>4, Kept
<1>9. Live(c) = Live(over) \cup {w} /\ w \notin Live(over) /\ G = H
  <2>1. w \notin Asking(c) \cup Told(c) \cup Ops(c)
    BY <1>1, <1>4, <1>6, Kinds, Distinct DEF Plumbed, Apart
  <2> QED BY <1>6, <1>7, <1>8, <2>1 DEF Live
<1>10. c.child
  BY <1>1 DEF LaunchSound
<1>11. Base(over, {w}) /\ (Held(c) => Held(over))
  <2>1. Typed(over)
    BY <1>1, <1>2, TypedKept DEF Loose
  <2>2. Waiting(over) \subseteq Waiting(c) /\ over.child
    BY <1>5, <1>6, <1>10
  <2> HIDE DEF H, G
  <2>3. LaunchSound(over, H)
    BY <1>1, <1>5, <1>8, <2>2 DEF LaunchSound
  <2>4. HealthSound(over, H) /\ ReconcilerSound(over, H) /\ CircuitSound(over)
    BY <1>1, <1>5 DEF HealthSound, ReconcilerSound, CircuitSound
  <2>5. StopSound(over, H) /\ ResetSound(over, H)
    BY <1>1, <1>5, <1>8 DEF StopSound, ResetSound, ResetFits
  <2>6. Base(over, {w})
    BY <1>8, <1>9, <2>1, <2>3, <2>4, <2>5 DEF Base, G
  <2> QED BY <1>5, <1>8, <2>6 DEF Held
<1>16. w = "launch" => c.launching = "failed"
  BY <1>1, <1>6 DEF LaunchSound
<1> DEFINE ended == TerminateCurrent(over, Explained(c, first.why))
<1>12. Base(ended, {w}) /\ (Held(over) => Held(ended)) /\ ended.launching = c.launching
  <2>1. Explained(c, first.why) \in Classes
    BY <1>1, <1>4, ExplainedIs
  <2> QED BY <1>5, <1>11, <2>1, TerminateCurrentSound
<1> HIDE DEF ended
<1>13. /\ w = "fault" => StderrDrained(c) = ended
       /\ w # "fault" => StderrDrained(c) \in {EndLaunch(ended), EndLaunch(over)}
  BY DEF StderrDrained, w, first, over, ended
<1>14. CASE w = "fault"
  <2>1. Base(ended, {})
    <3>1. {"fault"} \cap ({"launch", "fresh", "health", "session", "configure", "reconciler", "stopper", "stop"}
                            \cup Resetters) = {}
      BY Distinct
    <3>2. ReconcilerSound(ended, Live(ended) \cup {w}) /\ StopSound(ended, Live(ended) \cup {w})
      BY <1>12 DEF Base
    <3>3. ~("intent" \in Live(ended) \cup {} /\ "rollback" \in Live(ended) \cup {})
      BY <3>2 DEF ReconcilerSound
    <3> QED BY <1>12, <1>14, <3>1, <3>3, Retoken
  <2> QED BY <1>11, <1>12, <1>13, <1>14, <2>1
<1>15. CASE w = "launch"
  <2>1. ASSUME NEW d, Base(d, {w}), d.launching = c.launching
        PROVE  Base(EndLaunch(d), {}) /\ (Held(d) => Held(EndLaunch(d)))
    <3>1. d.launching = "failed" /\ {w} \subseteq {"launch", "fresh"} /\ "launch" \notin Live(d)
      BY <1>15, <1>16, <2>1 DEF Base
    <3>2. "fresh" \in {w} <=> d.launching = "activation"
      BY <1>15, <3>1
    <3> QED BY <2>1, <3>1, <3>2, EndLaunchSound
  <2>2. Base(EndLaunch(ended), {}) /\ (Held(ended) => Held(EndLaunch(ended)))
    BY <1>12, <2>1
  <2>3. Base(EndLaunch(over), {}) /\ (Held(over) => Held(EndLaunch(over)))
    BY <1>5, <1>11, <2>1
  <2>4. StderrDrained(c) \in {EndLaunch(ended), EndLaunch(over)}
    BY <1>13, <1>15, Distinct
  <2> QED BY <1>11, <1>12, <2>2, <2>3, <2>4
<1> QED BY <1>4, <1>14, <1>15

-----------------------------------------------------------------------------
(* Starting and failing                                                    *)

\* A client that validates its helper has nothing more to promise.
LEMMA HeldLaunching ==
  ASSUME NEW c, NEW X, Base(c, X), c.launching = "validating", c.desired
  PROVE  Held(c)
BY DEF Base, LaunchSound, Held

\* Everything that a launch changes when it begins.
LaunchBegins == {"readiness", "launching", "probe", "unclean", "started", "desired", "timer"}

\* A launch begins, of a client that has no helper.
LEMMA Launched ==
  ASSUME NEW c, NEW e, NEW X, Base(c, X),
         Differs(c, e, LaunchBegins), \A field \in LaunchBegins : e[field] \in Types[field],
         e.launching = "validating", e.desired, e.readiness = "starting", e.probe <=> c.probe \/ c.crashLoop,
         c.launching = "none", ~c.child, c.stop = "none"
  PROVE  Base(e, X) /\ Held(e)
<1> DEFINE H == Live(c) \cup X
<1>1. /\ LaunchSound(c, H) /\ HealthSound(c, H) /\ ReconcilerSound(c, H) /\ StopSound(c, H)
      /\ ResetSound(c, H) /\ CircuitSound(c) /\ X \cap Live(c) = {} /\ Typed(c) /\ Plumbed(c)
  BY DEF Base
<1>2. /\ e.child = c.child /\ e.health = c.health /\ e.terminating = c.terminating
      /\ e.termination = c.termination /\ e.stop = c.stop /\ e.crashLoop = c.crashLoop
      /\ e.dispatched = c.dispatched /\ e.reset = c.reset
  BY FieldsOf DEF Differs, LaunchBegins
<1>3. /\ Typed(e) /\ Plumbed(e) /\ Live(e) = Live(c) /\ Asking(e) = Asking(c) /\ Told(e) = Told(c)
      /\ Waiting(e) = Waiting(c) /\ Returning(e) = Returning(c) /\ e.channel = c.channel
      /\ e.running = c.running /\ e.operations = c.operations /\ e.waits = c.waits
  <2>1. LaunchBegins \in SUBSET Scalars /\ \A field \in LaunchBegins \ Loose : e[field] \in Types[field]
    BY FieldsOf DEF Scalars, LaunchBegins
  <2>2. c.sent \in Shutdowns => c.sent \in e.dispatched
    BY <1>1, <1>2 DEF Plumbed, QueueSound
  <2> QED BY <1>2, <2>1, <2>2, Changed
<1>4. "launch" \notin H /\ Waiting(c) \subseteq H /\ Asking(c) \subseteq H /\ Told(c) \subseteq H
  BY <1>1 DEF LaunchSound, Live
<1> HIDE DEF H
<1>5. LaunchSound(e, H) /\ HealthSound(e, H) /\ ReconcilerSound(e, H)
  <2>1. LaunchSound(e, H)
    BY <1>1, <1>2, <1>3, <1>4 DEF LaunchSound
  <2> QED BY <1>1, <1>2, <1>3, <2>1 DEF HealthSound, ReconcilerSound
<1>6. StopSound(e, H)
  BY <1>1, <1>2, <1>3 DEF StopSound
<1>7. ResetSound(e, H)
  BY <1>1, <1>2 DEF ResetSound, ResetFits
<1>8. CircuitSound(e)
  BY <1>1, <1>2 DEF CircuitSound
<1>9. Base(e, X)
  BY <1>1, <1>3, <1>5, <1>6, <1>7, <1>8 DEF Base, H
<1> QED BY <1>9, HeldLaunching

\* So it does by Launch.
LEMMA LaunchSoundly ==
  ASSUME NEW c, NEW X, Base(c, X), c.launching = "none", ~c.child, c.stop = "none", c.desired
  PROVE  Base(Launch(c), X) /\ Held(Launch(c)) /\ Launch(c).launching = "validating"
         /\ Differs(c, Launch(c), {"readiness", "launching", "probe", "unclean"})
<1> DEFINE e == Launch(c)
<1>1. Typed(c) /\ c.probe \in BOOLEAN /\ c.crashLoop \in BOOLEAN
  BY TypedFields DEF Base
<1>2. /\ Differs(c, e, {"readiness", "launching", "probe", "unclean"}) /\ e.readiness = "starting"
      /\ e.launching = "validating" /\ e.probe \in BOOLEAN /\ e.unclean \in BOOLEAN
      /\ e.probe <=> c.probe \/ c.crashLoop
  BY <1>1, FieldsOf, ZenonT(40) DEF Typed, IsClient, Differs, Launch, Publish
<1> HIDE DEF e
<1>3. e.started = c.started /\ e.desired = c.desired /\ e.timer = c.timer
  BY <1>2, FieldsOf DEF Differs
<1>4. \A field \in LaunchBegins : e[field] \in Types[field]
  <2>1. c["started"] \in Types["started"] /\ c["desired"] \in Types["desired"] /\ c["timer"] \in Types["timer"]
    BY <1>1, TypesOf, FieldsOf DEF Typed, Loose
  <2>2. e["readiness"] \in Types["readiness"]
    BY <1>2, TypesOf DEF Readiness
  <2>3. e["launching"] \in Types["launching"]
    BY <1>2, TypesOf
  <2>4. e["probe"] \in Types["probe"] /\ e["unclean"] \in Types["unclean"]
    BY <1>2, TypesOf
  <2> QED BY <1>3, <2>1, <2>2, <2>3, <2>4 DEF LaunchBegins
<1>5. Differs(c, e, LaunchBegins)
  BY <1>2 DEF Differs, LaunchBegins
<1>6. Base(e, X) /\ Held(e)
  <2>1. e.desired
    BY <1>3
  <2> QED BY <1>2, <1>4, <1>5, <2>1, Launched
<1> QED BY <1>2, <1>6 DEF e

\* The fields of the circuit and of the timer.
Circuit == {"readiness", "failures", "crashLoop", "probe", "timer"}

\* What RecordFailure makes of the circuit and of the timer.
LEMMA Recorded ==
  ASSUME NEW c, Typed(c), c.crashLoop => c.probe, NEW why \in Classes \cup {"shutdown"}, NEW kept \in Nat
  PROVE  LET d == RecordFailure(c, why, kept)
         IN  /\ Differs(c, d, Circuit) /\ \A field \in Circuit : d[field] \in Types[field]
             /\ d.readiness \notin {"stopped", "ready"} /\ ~d.probe
             /\ d.crashLoop => d.timer = "window"
             /\ d.timer # "none" \/ d.readiness \in {"stable", "shutdown"}
<1> DEFINE d == RecordFailure(c, why, kept)
<1>1. c.crashLoop \in BOOLEAN /\ c.probe \in BOOLEAN /\ FailureLimit \in Nat \ {0}
  BY TypedFields, FailureLimitAssumption
<1>2. /\ Classes \cup {"shutdown", "crash-loop"} \subseteq Readiness
      /\ {"stopped", "ready"} \cap (Classes \cup {"shutdown", "crash-loop"}) = {}
  BY DEF Readiness, Classes, Snapshots
<1>3. why \in {"transition", "transient", "stable", "shutdown"}
  BY DEF Classes
<1>4. ASSUME Differs(c, d, Circuit), d.readiness \in Classes \cup {"shutdown", "crash-loop"},
             d.crashLoop \in BOOLEAN, d.probe \in BOOLEAN, ~d.probe,
             d.crashLoop => d.timer = "window", d.timer # "none" \/ d.readiness \in {"stable", "shutdown"},
             d.timer \in {"none", "delay", "window"}, d.failures \in 0 .. FailureLimit - 1
      PROVE  /\ Differs(c, d, Circuit) /\ \A field \in Circuit : d[field] \in Types[field]
             /\ d.readiness \notin {"stopped", "ready"} /\ ~d.probe
             /\ d.crashLoop => d.timer = "window"
             /\ d.timer # "none" \/ d.readiness \in {"stable", "shutdown"}
  <2> HIDE DEF d
  <2>1. /\ d["readiness"] \in Types["readiness"] /\ d["failures"] \in Types["failures"]
        /\ d["crashLoop"] \in Types["crashLoop"] /\ d["probe"] \in Types["probe"] /\ d["timer"] \in Types["timer"]
    BY <1>2, <1>4, TypesOf
  <2> QED BY <1>2, <1>4, <2>1 DEF Circuit
<1>5. CASE why = "transition" \/ why \in {"stable", "shutdown"}
  <2> DEFINE t == IF why = "transition" THEN "delay" ELSE "none"
  <2>1. d = [Publish(CloseCircuit(c), why) EXCEPT !.timer = t]
    BY <1>5 DEF RecordFailure
  <2>2. /\ Differs(c, d, Circuit) /\ d.readiness = why /\ d.crashLoop \in BOOLEAN /\ d.probe \in BOOLEAN
        /\ ~d.crashLoop /\ ~d.probe /\ d.timer = t /\ d.failures = 0
    BY <2>1, FieldsOf, ZenonT(40) DEF Typed, IsClient, Differs, Circuit, Publish, CloseCircuit
  <2> HIDE DEF d
  <2>3. 0 \in 0 .. FailureLimit - 1
    BY <1>1
  <2>4. (d.timer # "none" \/ d.readiness \in {"stable", "shutdown"}) /\ d.timer \in {"none", "delay", "window"}
    BY <1>5, <2>2
  <2>5. d.readiness \in Classes \cup {"shutdown", "crash-loop"}
    BY <2>2
  <2> HIDE DEF t
  <2> QED BY <1>4, <2>2, <2>3, <2>4, <2>5 DEF d
<1>6. CASE why = "transient" /\ (c.probe \/ kept + 1 >= FailureLimit)
  <2>1. d = OpenCrashLoop(c)
    BY <1>6 DEF RecordFailure
  <2>2. /\ Differs(c, d, Circuit) /\ d.readiness = "crash-loop" /\ d.crashLoop \in BOOLEAN /\ d.probe \in BOOLEAN
        /\ ~d.probe /\ d.timer = "window" /\ d.failures = 0
    BY <2>1, FieldsOf, ZenonT(40) DEF Typed, IsClient, Differs, Circuit, Publish, OpenCrashLoop
  <2> HIDE DEF d
  <2>3. 0 \in 0 .. FailureLimit - 1
    BY <1>1
  <2>4. d.readiness \in Classes \cup {"shutdown", "crash-loop"} /\ d.timer \in {"none", "delay", "window"} /\ d.timer # "none"
    BY <2>2
  <2> QED BY <1>4, <2>2, <2>3, <2>4 DEF d
<1>7. CASE why = "transient" /\ ~(c.probe \/ kept + 1 >= FailureLimit)
  <2>1. d = [Publish(c, why) EXCEPT !.failures = kept + 1, !.timer = "delay"]
    BY <1>7 DEF RecordFailure
  <2>2. /\ Differs(c, d, Circuit) /\ d.readiness = why /\ d.crashLoop = c.crashLoop /\ d.probe = c.probe
        /\ d.timer = "delay" /\ d.failures = kept + 1
    BY <2>1, FieldsOf, ZenonT(40) DEF Typed, IsClient, Differs, Circuit, Publish
  <2> HIDE DEF d
  <2>3. kept + 1 \in 0 .. FailureLimit - 1
    BY <1>1, <1>7
  <2>4. ~c.probe /\ ~c.crashLoop
    BY <1>7
  <2>5. d.readiness \in Classes \cup {"shutdown", "crash-loop"} /\ d.timer \in {"none", "delay", "window"} /\ d.timer # "none"
    BY <2>2
  <2>6. d.crashLoop \in BOOLEAN /\ d.probe \in BOOLEAN /\ ~d.probe /\ ~d.crashLoop
    BY <1>1, <2>2, <2>4
  <2> QED BY <1>4, <2>2, <2>3, <2>5, <2>6 DEF d
<1> QED BY <1>3, <1>5, <1>6, <1>7

\* A failure of a helper that is gone schedules a restart, or is one that no
\* restart repairs.
LEMMA RecordFailureSound ==
  ASSUME NEW c, NEW X, Base(c, X), c.crashLoop => c.probe, NEW why \in Classes \cup {"shutdown"}, NEW kept \in Nat,
         ~c.child, c.desired, c.stop = "none", c.launching # "validating"
  PROVE  Base(RecordFailure(c, why, kept), X) /\ Held(RecordFailure(c, why, kept))
<1> DEFINE d == RecordFailure(c, why, kept)
           H == Live(c) \cup X
<1>1. /\ LaunchSound(c, H) /\ HealthSound(c, H) /\ ReconcilerSound(c, H) /\ StopSound(c, H)
      /\ ResetSound(c, H) /\ CircuitSound(c) /\ X \cap Live(c) = {} /\ Typed(c) /\ Plumbed(c)
  BY DEF Base
<1>2. /\ Differs(c, d, Circuit) /\ \A field \in Circuit : d[field] \in Types[field]
      /\ d.readiness \notin {"stopped", "ready"} /\ ~d.probe
      /\ d.crashLoop => d.timer = "window"
      /\ d.timer # "none" \/ d.readiness \in {"stable", "shutdown"}
  BY <1>1, Recorded
<1> HIDE DEF d
<1>3. /\ d.desired = c.desired /\ d.started = c.started /\ d.child = c.child
      /\ d.health = c.health /\ d.terminating = c.terminating /\ d.launching = c.launching
      /\ d.termination = c.termination /\ d.stop = c.stop /\ d.unclean = c.unclean
      /\ d.dispatched = c.dispatched /\ d.reset = c.reset
  BY <1>2, FieldsOf DEF Differs, Circuit
<1>4. /\ Typed(d) /\ Plumbed(d) /\ Live(d) = Live(c) /\ Asking(d) = Asking(c) /\ Told(d) = Told(c)
      /\ Waiting(d) = Waiting(c) /\ Returning(d) = Returning(c) /\ d.channel = c.channel
      /\ d.running = c.running /\ d.operations = c.operations /\ d.waits = c.waits
  <2>1. Circuit \in SUBSET Scalars /\ \A field \in Circuit \ Loose : d[field] \in Types[field]
    BY <1>2, FieldsOf DEF Scalars, Circuit
  <2>2. c.sent \in Shutdowns => c.sent \in d.dispatched
    BY <1>1, <1>3 DEF Plumbed, QueueSound
  <2> QED BY <1>2, <1>3, <2>1, <2>2, Changed
<1> HIDE DEF H
<1>5. LaunchSound(d, H) /\ HealthSound(d, H) /\ ReconcilerSound(d, H)
  BY <1>1, <1>2, <1>3, <1>4 DEF LaunchSound, HealthSound, ReconcilerSound
<1>6. StopSound(d, H) /\ ResetSound(d, H)
  <2>1. StopSound(d, H)
    BY <1>1, <1>3, <1>4 DEF StopSound
  <2> QED BY <1>1, <1>3, <2>1 DEF ResetSound, ResetFits
<1>7. CircuitSound(d)
  BY <1>2, <1>3 DEF CircuitSound
<1>8. Base(d, X)
  BY <1>1, <1>4, <1>5, <1>6, <1>7 DEF Base, H
<1>9. Held(d)
  BY <1>2, <1>3 DEF Held
<1> QED BY <1>8, <1>9 DEF d

\* Where the helper is gone and nothing is in hand, nothing is under way but a
\* launch that validates or a stop that was asked for.
LEMMA IdleGone ==
  ASSUME NEW c, Base(c, {}), c.jobs = <<>>, ~c.child
  PROVE  /\ Live(c) = {} /\ c.sent = "none" /\ c.queue = <<>> /\ c.running = "none" /\ c.operations = <<>>
         /\ c.waits = <<>> /\ c.channel = "closed" /\ c.health = "none" /\ c.termination = "none"
         /\ c.launching \in {"none", "validating"} /\ c.stop \in {"none", "asked"}
         /\ c.stop = "asked" => c.launching = "none"
         /\ \A r \in Resetters : c.reset[r] # "off" /\ (c.reset[r] = "starting" => c.launching = "validating")
                                 /\ (c.reset[r] = "stopping" => c.stop = "asked")
<1> DEFINE H == Live(c) \cup {}
<1>1. /\ LaunchSound(c, H) /\ HealthSound(c, H) /\ ReconcilerSound(c, H) /\ StopSound(c, H)
      /\ ResetSound(c, H) /\ Typed(c) /\ Plumbed(c) /\ H = Live(c)
  BY DEF Base
<1>2. Told(c) = {}
  BY DEF Told, Names
<1>3. c.channel = "closed" /\ Asking(c) = {} /\ c.termination = "none"
  BY <1>1 DEF StopSound, Plumbed, QueueSound
<1>4. c.waits = <<>> /\ Waiting(c) = {}
  <2>1. c.waits = <<>>
    BY <1>1 DEF LaunchSound
  <2> QED BY <2>1 DEF Waiting, Names
<1>5. Ops(c) \subseteq Operations
  BY <1>1, Kinds
<1>6. "configure" \notin Live(c) /\ "reconciler" \notin Live(c)
  BY <1>2, <1>3, <1>4, <1>5, Distinct DEF Live, Operations
<1>7. c.running = "none" /\ c.operations = <<>>
  BY <1>1, <1>6 DEF ReconcilerSound
<1>8. Ops(c) = {}
  BY <1>7 DEF Ops, Op, ToSet
<1>9. Live(c) = {}
  BY <1>2, <1>3, <1>4, <1>8 DEF Live
<1>10. c.sent = "none" /\ c.queue = <<>>
  <2>1. c.sent = "none" /\ ToSet(c.queue) = {} /\ c.queue \in Seq(Requesters)
    BY <1>1, <1>3 DEF Asking, Plumbed, QueueSound
  <2>2. \A i \in DOMAIN c.queue : c.queue[i] \in ToSet(c.queue)
    BY DEF ToSet
  <2>3. DOMAIN c.queue = {}
    BY <2>1, <2>2
  <2>4. c.queue = <<>>
    <3>1. c.queue \in Seq(Requesters) /\ DOMAIN c.queue = 1 .. Len(c.queue) /\ Len(c.queue) \in Nat
      BY <2>1
    <3> DEFINE n == Len(c.queue)
    <3>3. n \in Nat /\ 1 .. n = {}
      BY <2>3, <3>1
    <3> HIDE DEF n
    <3>4. n = 0
      <4>1. n # 0 => 1 \in 1 .. n
        BY <3>3
      <4> QED BY <3>3, <4>1
    <3>2. Len(c.queue) = 0
      BY <3>4 DEF n
    <3> QED BY <3>1, <3>2, EmptySeq
  <2> QED BY <2>1, <2>4
<1> HIDE DEF H
<1>11. c.health = "none" /\ c.launching \in {"none", "validating"}
  BY <1>1, <1>9, TypedFields DEF LaunchSound, HealthSound
<1>12. c.stop \in {"none", "asked"} /\ (c.stop = "asked" => c.launching = "none")
  <2>1. c.stop \in {"none", "begun", "asked", "exit", "killed"}
    BY <1>1, TypedFields
  <2> QED BY <1>1, <1>9, <1>11, <2>1 DEF StopSound
<1>13. ASSUME NEW r \in Resetters
       PROVE  c.reset[r] # "off" /\ (c.reset[r] = "starting" => c.launching = "validating")
              /\ (c.reset[r] = "stopping" => c.stop = "asked")
  BY <1>1, <1>9, <1>11, <1>12 DEF ResetSound, ResetFits
<1> QED BY <1>3, <1>4, <1>7, <1>9, <1>10, <1>11, <1>12, <1>13

\* A helper that was validated is spawned.
LEMMA SpawnSound ==
  ASSUME NEW c, Base(c, {}), c.jobs = <<>>, c.launching = "validating", c.desired
  PROVE  Base(Spawn(c), {}) /\ Held(Spawn(c))
<1> DEFINE s == [c EXCEPT !.planned = "none", !.terminating = FALSE, !.child = TRUE, !.channel = "open",
                           !.authoritative = FALSE, !.said = "nothing", !.launching = "initialize"]
           F == {"planned", "terminating", "child", "channel", "authoritative", "said", "launching"}
<1>1. /\ LaunchSound(c, Live(c) \cup {}) /\ StopSound(c, Live(c) \cup {}) /\ CircuitSound(c) /\ Typed(c) /\ Plumbed(c)
  BY DEF Base
<1>2. ~c.child
  BY <1>1 DEF LaunchSound
<1>3. /\ Live(c) = {} /\ c.sent = "none" /\ c.queue = <<>> /\ c.running = "none" /\ c.operations = <<>>
      /\ c.waits = <<>> /\ c.health = "none" /\ c.termination = "none" /\ c.stop = "none"
      /\ \A r \in Resetters : c.reset[r] \notin {"off", "stopping"}
  BY <1>2, IdleGone
<1>4. /\ Differs(c, s, F) /\ s.planned = "none" /\ s.terminating \in BOOLEAN /\ s.child \in BOOLEAN /\ s.child
      /\ s.channel = "open" /\ s.authoritative \in BOOLEAN /\ s.said = "nothing" /\ s.launching = "initialize"
  BY <1>1, FieldsOf, ZenonT(40) DEF Typed, IsClient, Differs
<1> HIDE DEF s
<1>5. /\ s.desired = c.desired /\ s.started = c.started /\ s.timer = c.timer /\ s.health = c.health
      /\ s.termination = c.termination /\ s.stop = c.stop /\ s.unclean = c.unclean
      /\ s.crashLoop = c.crashLoop /\ s.probe = c.probe /\ s.readiness = c.readiness /\ s.waits = c.waits
      /\ s.dispatched = c.dispatched /\ s.reset = c.reset /\ s.running = c.running /\ s.operations = c.operations
      /\ s.sent = c.sent /\ s.queue = c.queue /\ s.jobs = c.jobs
  BY <1>4, FieldsOf, ZenonT(40) DEF Differs
<1>6. Typed(s)
  <2>1. /\ s["planned"] \in Types["planned"] /\ s["terminating"] \in Types["terminating"]
        /\ s["child"] \in Types["child"] /\ s["authoritative"] \in Types["authoritative"]
        /\ s["said"] \in Types["said"] /\ s["launching"] \in Types["launching"]
    BY <1>4, TypesOf, ZenonT(40)
  <2>2. \A field \in F \ Loose : s[field] \in Types[field]
    BY <2>1 DEF Loose
  <2> QED BY <1>1, <1>4, <2>2, TypedKept
<1>7. Asking(s) = {} /\ Told(s) = {} /\ Ops(s) = {} /\ Waiting(s) = {} /\ Op(s) = "none" /\ ToSet(s.queue) = {}
  BY <1>3, <1>5 DEF Asking, Told, Ops, Op, Waiting, Names, ToSet
<1>8. Plumbed(s)
  <2>1. JobsSound(s.jobs, s.reset) /\ WaitsSound(s)
    BY <1>1, <1>5 DEF Plumbed, WaitsSound
  <2>2. OperationsSound(s)
    <3>1. ToSet(s.operations) = {}
      BY <1>3, <1>5 DEF ToSet
    <3> QED BY <1>1, <1>5, <1>7, <3>1 DEF Plumbed, OperationsSound
  <2>3. s.dispatched \subseteq Shutdowns /\ s.queue \in Seq(Requesters) /\ IsInjective(s.queue) /\ "none" \notin Shutdowns
    BY <1>1, <1>5 DEF Plumbed, QueueSound, Shutdowns
  <2>4. QueueSound(s)
    BY <1>3, <1>4, <1>5, <1>7, <2>3 DEF QueueSound
  <2>5. Apart(s)
    BY <1>7 DEF Apart
  <2> QED BY <2>1, <2>2, <2>4, <2>5 DEF Plumbed
<1>9. Live(s) = {}
  BY <1>7 DEF Live
<1>10. LaunchSound(s, {"launch"}) /\ HealthSound(s, {"launch"}) /\ ReconcilerSound(s, {"launch"})
  BY <1>3, <1>4, <1>5, <1>7 DEF LaunchSound, HealthSound, ReconcilerSound
<1>11. StopSound(s, {"launch"})
  BY <1>1, <1>3, <1>4, <1>5 DEF StopSound
<1>12. ResetSound(s, {"launch"})
  <2>1. "launch" \notin Resetters
    BY Distinct
  <2> QED BY <1>3, <1>4, <1>5, <2>1 DEF ResetSound, ResetFits
<1>13. CircuitSound(s)
  BY <1>1, <1>5 DEF CircuitSound
<1>14. Base(s, {"launch"}) /\ Held(s)
  <2>1. Live(s) \cup {"launch"} = {"launch"} /\ {"launch"} \cap Live(s) = {}
    BY <1>9
  <2>2. Base(s, {"launch"})
    BY <1>6, <1>8, <1>10, <1>11, <1>12, <1>13, <2>1 DEF Base
  <2> QED BY <1>4, <1>5, <2>2 DEF Held
<1> DEFINE f == Forget(s)
<1>15. Base(f, {"launch"}) /\ Held(f) /\ f.launching = "initialize"
  <2>1. Quieter(s, f)
    BY <1>6, QuietOperations
  <2> QED BY <1>4, <1>14, <2>1, QuieterSound, QuieterFields
<1> HIDE DEF f
<1>16. Base(Request(f, "launch"), {"launch"} \ {"launch"}) /\ Held(Request(f, "launch"))
  <2>1. "launch" \in Requesters \cap {"launch"} /\ "launch" \notin Shutdowns /\ "launch" \notin Resetters
    BY Distinct DEF Requesters, Shutdowns
  <2> QED BY <1>15, <2>1, RequestSound
<1>17. {"launch"} \ {"launch"} = {}
  OBVIOUS
<1>18. Spawn(c) = Request(f, "launch")
  BY DEF Spawn, f, s
<1> QED BY <1>16, <1>17, <1>18

-----------------------------------------------------------------------------
(* The health                                                              *)

\* What a refresh of the health waits for.
HealthWho(step) ==
  CASE step \in {"snapshot", "off"} -> {"health"}
    [] step = "activation" -> {"session"}
    [] step = "fresh" -> {"fresh"}
    [] OTHER -> {}

\* What a refresh waits for, by where it is.
LEMMA HealthWhoIs ==
  /\ HealthWho("snapshot") = {"health"} /\ HealthWho("off") = {"health"}
  /\ HealthWho("activation") = {"session"} /\ HealthWho("fresh") = {"fresh"} /\ HealthWho("none") = {}
BY DEF HealthWho

\* The refresh is elsewhere, and waits for what that needs.
LEMMA HealthChanges ==
  ASSUME NEW c, NEW d, Base(c, HealthWho(c.health)), Differs(c, d, {"health", "seen"}),
         d.health \in {"none", "snapshot", "activation", "off", "fresh"}, d.seen \in Snapshots,
         d.health # "none" => c.health # "none" \/ (c.child /\ c.launching = "none")
  PROVE  Base(d, HealthWho(d.health)) /\ (Held(c) => Held(d))
         /\ d.child = c.child /\ d.launching = c.launching /\ d.desired = c.desired /\ d.stop = c.stop
<1> DEFINE X == HealthWho(c.health)
           Y == HealthWho(d.health)
           H == Live(c) \cup X
           G == Live(d) \cup Y
<1>1. /\ LaunchSound(c, H) /\ HealthSound(c, H) /\ ReconcilerSound(c, H) /\ StopSound(c, H)
      /\ ResetSound(c, H) /\ CircuitSound(c) /\ X \cap Live(c) = {} /\ Typed(c) /\ Plumbed(c)
      /\ c.health \in {"none", "snapshot", "activation", "off", "fresh"}
  BY TypedFields DEF Base
<1>2. /\ d.desired = c.desired /\ d.started = c.started /\ d.child = c.child /\ d.timer = c.timer
      /\ d.terminating = c.terminating /\ d.launching = c.launching
      /\ d.termination = c.termination /\ d.stop = c.stop /\ d.unclean = c.unclean
      /\ d.readiness = c.readiness /\ d.crashLoop = c.crashLoop /\ d.probe = c.probe
      /\ d.dispatched = c.dispatched /\ d.reset = c.reset
  BY FieldsOf DEF Differs
<1>3. /\ Typed(d) /\ Plumbed(d) /\ Live(d) = Live(c) /\ Asking(d) = Asking(c) /\ Told(d) = Told(c)
      /\ Waiting(d) = Waiting(c) /\ Returning(d) = Returning(c) /\ d.channel = c.channel
      /\ d.running = c.running /\ d.operations = c.operations /\ d.waits = c.waits
  <2>1. {"health", "seen"} \in SUBSET Scalars
    BY FieldsOf DEF Scalars
  <2>2. d["health"] \in Types["health"] /\ d["seen"] \in Types["seen"]
    BY TypesOf
  <2>3. c.sent \in Shutdowns => c.sent \in d.dispatched
    BY <1>1, <1>2 DEF Plumbed, QueueSound
  <2> QED BY <1>2, <2>1, <2>2, <2>3, Changed
<1>4. /\ \A w \in {"health", "session", "fresh"} : (w \in X \/ w \in Y) => w \notin Live(c)
      /\ X \subseteq {"health", "session", "fresh"} /\ Y \subseteq {"health", "session", "fresh"}
      /\ "health" \in Y <=> d.health \in {"snapshot", "off"}
      /\ "session" \in Y <=> d.health = "activation"
      /\ "fresh" \in Y <=> d.health = "fresh"
      /\ "health" \in X <=> c.health \in {"snapshot", "off"}
      /\ "session" \in X <=> c.health = "activation"
      /\ "fresh" \in X <=> c.health = "fresh"
  <2>1. /\ X \subseteq {"health", "session", "fresh"} /\ Y \subseteq {"health", "session", "fresh"}
        /\ "health" \in Y <=> d.health \in {"snapshot", "off"}
        /\ "session" \in Y <=> d.health = "activation"
        /\ "fresh" \in Y <=> d.health = "fresh"
        /\ "health" \in X <=> c.health \in {"snapshot", "off"}
        /\ "session" \in X <=> c.health = "activation"
        /\ "fresh" \in X <=> c.health = "fresh"
    <3>1. ASSUME NEW step \in {"none", "snapshot", "activation", "off", "fresh"}
          PROVE  /\ HealthWho(step) \subseteq {"health", "session", "fresh"}
                 /\ "health" \in HealthWho(step) <=> step \in {"snapshot", "off"}
                 /\ "session" \in HealthWho(step) <=> step = "activation"
                 /\ "fresh" \in HealthWho(step) <=> step = "fresh"
      BY HealthWhoIs
    <3> QED BY <1>1, <3>1
  <2> HIDE DEF X, Y
  <2>2. d.health # "none" => c.launching # "activation"
    BY <1>1 DEF LaunchSound
  <2>3. /\ "health" \in Live(c) \cup X <=> c.health \in {"snapshot", "off"}
        /\ "session" \in Live(c) \cup X <=> c.health = "activation"
        /\ c.launching # "activation" => ("fresh" \in Live(c) \cup X <=> c.health = "fresh")
    BY <1>1 DEF HealthSound, LaunchSound
  <2>4. X \cap Live(c) = {}
    BY <1>1
  <2>5. "health" \notin Live(c) /\ "session" \notin Live(c)
    BY <2>1, <2>3, <2>4
  <2>6. c.launching # "activation" => "fresh" \notin Live(c)
    BY <2>1, <2>3, <2>4
  <2>7. "fresh" \in X => "fresh" \notin Live(c)
    BY <2>4
  <2>8. "fresh" \in Y => c.launching # "activation"
    BY <2>1, <2>2
  <2> QED BY <2>1, <2>5, <2>6, <2>7, <2>8
<1> HIDE DEF X, Y
<1>5. Y \cap Live(d) = {} /\ G = (H \ X) \cup Y
  BY <1>1, <1>3, <1>4
<1>6. \A w \in G \cup H : w \notin {"health", "session", "fresh"} => (w \in G <=> w \in H)
  BY <1>4, <1>5
<1>7. /\ "health" \in G <=> d.health \in {"snapshot", "off"}
      /\ "session" \in G <=> d.health = "activation"
      /\ "fresh" \in G <=> "fresh" \in Live(c) \/ d.health = "fresh"
      /\ "fresh" \in H <=> "fresh" \in Live(c) \/ c.health = "fresh"
      /\ c.health = "fresh" => "fresh" \notin Live(c)
  <2>1. "health" \notin Live(c) /\ "session" \notin Live(c)
    BY <1>1, <1>4 DEF HealthSound
  <2> QED BY <1>3, <1>4, <2>1
<1>8. Y = {} \/ ~(~c.child /\ (c.stop \in {"exit", "killed"} \/ "stop" \in c.dispatched))
  <2>1. Y # {} => c.health # "none" \/ c.child
    BY <1>4
  <2> QED BY <1>1, <2>1 DEF StopSound
<1>9. Y = {} => G \subseteq H
  BY <1>3
<1> HIDE DEF G, H
<1>10. LaunchSound(d, G)
  BY <1>1, <1>2, <1>3, <1>6, <1>7 DEF LaunchSound
<1>11. HealthSound(d, G) /\ ReconcilerSound(d, G) /\ CircuitSound(d)
  <2>1. HealthSound(d, G)
    BY <1>7 DEF HealthSound
  <2> QED BY <1>1, <1>2, <1>3, <1>6, <2>1 DEF ReconcilerSound, CircuitSound
<1>12. StopSound(d, G)
  <2>1. \A w \in {"stopper", "stop", "termination"} : w \in G <=> w \in H
    BY <1>6
  <2>2. ~d.child /\ (d.stop \in {"exit", "killed"} \/ "stop" \in d.dispatched) =>
          d.launching = "none" /\ d.health = "none" /\ G \subseteq {"stopper", "stop", "termination"} \cup Resetters
    <3>1. ASSUME Y = {} PROVE d.health = "none"
      BY <1>4, <3>1
    <3> QED BY <1>1, <1>2, <1>8, <1>9, <3>1 DEF StopSound
  <2> QED BY <1>1, <1>2, <1>3, <2>1, <2>2 DEF StopSound
<1>13. ResetSound(d, G)
  <2>1. \A r \in Resetters : r \in G <=> r \in H
    BY <1>6, Distinct DEF Operations
  <2> QED BY <1>1, <1>2, <2>1 DEF ResetSound, ResetFits
<1>14. Base(d, Y)
  BY <1>3, <1>5, <1>10, <1>11, <1>12, <1>13 DEF Base, G
<1>15. Held(c) => Held(d)
  BY <1>2, <1>3 DEF Held
<1> QED BY <1>2, <1>14, <1>15 DEF Y

\* Sound as before, with the health where it was.
Stays(c, d) ==
  /\ Base(d, HealthWho(d.health)) /\ (Held(c) => Held(d))
  /\ d.health = c.health /\ d.child = c.child /\ d.launching = c.launching

\* One after another.
LEMMA StaysChain ==
  ASSUME NEW c, NEW d, NEW e, Stays(c, d), Stays(d, e)
  PROVE  Stays(c, e)
BY DEF Stays

\* Nothing happens.
LEMMA StaysSame ==
  ASSUME NEW c, Base(c, HealthWho(c.health))
  PROVE  Stays(c, c)
BY DEF Stays

\* Quiet fields change.
LEMMA StaysQuieter ==
  ASSUME NEW c, NEW d, Base(c, HealthWho(c.health)), Quieter(c, d)
  PROVE  Stays(c, d)
BY QuieterSound, QuieterFields DEF Stays

\* The helper is terminated.
LEMMA StaysTerminate ==
  ASSUME NEW c, Base(c, HealthWho(c.health)), NEW why \in Classes
  PROVE  Stays(c, TerminateCurrent(c, why))
<1>1. LET d == TerminateCurrent(c, why)
      IN  /\ Base(d, HealthWho(c.health)) /\ (Held(c) => Held(d))
          /\ d.launching = c.launching /\ d.health = c.health /\ d.child = c.child
  BY TerminateCurrentSound
<1> QED BY <1>1 DEF Stays

\* The readiness is published, of a helper that runs.
LEMMA StaysPublish ==
  ASSUME NEW c, Base(c, HealthWho(c.health)), NEW w \in Classes \cup Snapshots \cup {"starting"}, c.child
  PROVE  Stays(c, Publish(c, w))
<1> DEFINE d == Publish(c, w)
<1>1. w \in Readiness \ {"stopped"}
  BY DEF Readiness, Classes, Snapshots
<1>2. Base(d, HealthWho(c.health)) /\ Differs(c, d, {"readiness"}) /\ (Held(c) => Held(d))
  BY <1>1, PublishSound
<1> HIDE DEF d
<1>3. d.health = c.health /\ d.child = c.child /\ d.launching = c.launching
  BY <1>2, FieldsOf DEF Differs
<1> QED BY <1>2, <1>3 DEF Stays, d

\* The refresh is over.
LEMMA HealthOverSound ==
  ASSUME NEW c, Base(c, HealthWho(c.health))
  PROVE  LET d == HealthOver(c)
         IN  /\ Base(d, {}) /\ Base(d, HealthWho(d.health)) /\ (Held(c) => Held(d))
             /\ d.child = c.child /\ d.health = "none"
<1> DEFINE d == HealthOver(c)
<1>1. Differs(c, d, {"health", "seen"}) /\ d.health = "none" /\ d.seen = "owner"
  BY FieldsOf DEF Base, Typed, IsClient, Differs, HealthOver
<1> HIDE DEF d
<1>2. d.seen \in Snapshots
  BY <1>1 DEF Snapshots
<1>3. Base(d, HealthWho(d.health)) /\ (Held(c) => Held(d)) /\ d.child = c.child
  BY <1>1, <1>2, HealthChanges
<1>4. HealthWho(d.health) = {}
  BY <1>1, HealthWhoIs
<1> QED BY <1>1, <1>3, <1>4 DEF d

\* Something happens, and the refresh is over.
LEMMA HealthOverStays ==
  ASSUME NEW c, NEW d, Stays(c, d)
  PROVE  Base(HealthOver(d), {}) /\ (Held(c) => Held(HealthOver(d)))
BY HealthOverSound DEF Stays

\* The refresh is over, and something else happens that leaves the health.
LEMMA OverStays ==
  ASSUME NEW c, NEW d, Base(c, HealthWho(c.health)), Stays(HealthOver(c), d)
  PROVE  Base(d, {}) /\ (Held(c) => Held(d))
<1>1. d.health = "none" /\ Base(d, HealthWho(d.health)) /\ (Held(c) => Held(d))
  BY HealthOverSound DEF Stays
<1> QED BY <1>1, HealthWhoIs

\* A refresh that failed.
LEMMA HealthFailsSound ==
  ASSUME NEW c, Base(c, HealthWho(c.health)), NEW how
  PROVE  Base(HealthFails(c, how), {}) /\ (Held(c) => Held(HealthFails(c, how)))
<1> DEFINE d == HealthOver(c)
<1>1. Base(d, {}) /\ Base(d, HealthWho(d.health)) /\ (Held(c) => Held(d)) /\ d.child = c.child
  BY HealthOverSound
<1>2. Classified(how) \in Classes
  BY DEF Classified, Classes
<1>3. CASE ~IsActiveChild(c) \/ c.stop # "none"
  BY <1>1, <1>3 DEF HealthFails
<1>4. CASE IsActiveChild(c) /\ c.stop = "none" /\ how = "transition"
  <2>1. Stays(d, Publish(d, how))
    BY <1>1, <1>4, StaysPublish DEF IsActiveChild, Classes
  <2>2. HealthFails(c, how) = Publish(d, how)
    BY <1>4 DEF HealthFails
  <2> QED BY <2>1, <2>2, OverStays
<1>5. CASE IsActiveChild(c) /\ c.stop = "none" /\ how # "transition"
  <2>1. Stays(d, TerminateCurrent(d, Classified(how)))
    BY <1>1, <1>2, StaysTerminate
  <2>2. HealthFails(c, how) = TerminateCurrent(d, Classified(how))
    BY <1>5 DEF HealthFails
  <2> QED BY <2>1, <2>2, OverStays
<1> QED BY <1>3, <1>4, <1>5

\* A refresh that failed behind its snapshot.
LEMMA HealthRecyclesSound ==
  ASSUME NEW c, Base(c, HealthWho(c.health)), NEW how
  PROVE  Base(HealthRecycles(c, how), {}) /\ (Held(c) => Held(HealthRecycles(c, how)))
<1>1. Stays(c, TerminateCurrent(c, "transient"))
  BY StaysTerminate DEF Classes
<1>2. /\ Base(HealthFails(TerminateCurrent(c, "transient"), how), {})
      /\ Held(c) => Held(HealthFails(TerminateCurrent(c, "transient"), how))
  BY <1>1, HealthFailsSound DEF Stays
<1> QED BY <1>2, HealthOverSound DEF HealthRecycles

\* The refresh goes on with an operation of the reconciler.
LEMMA HealthEnqueues ==
  ASSUME NEW c, NEW d, Stays(c, d), c.health # "none", NEW step, NEW operation,
         (step = "activation" /\ operation = "session") \/ (step = "fresh" /\ operation = "fresh")
  PROVE  LET e == Enqueue([d EXCEPT !.health = step], operation)
         IN  Base(e, {}) /\ (Held(c) => Held(e))
<1> DEFINE e == [d EXCEPT !.health = step]
<1>1. Typed(d) /\ d.seen \in Snapshots /\ Base(d, HealthWho(d.health)) /\ (Held(c) => Held(d)) /\ d.health # "none"
  BY TypedFields DEF Stays, Base
<1>2. Differs(d, e, {"health", "seen"}) /\ e.health = step /\ e.seen = d.seen
  BY <1>1, FieldsOf DEF Typed, IsClient, Differs
<1> HIDE DEF e
<1>3. Base(e, HealthWho(e.health)) /\ (Held(d) => Held(e))
  BY <1>1, <1>2, HealthChanges
<1>4. HealthWho(e.health) = {operation} /\ operation \in {operation} \cap Operations /\ {operation} \ {operation} = {}
  BY <1>2, HealthWhoIs DEF Operations
<1>5. Base(Enqueue(e, operation), {operation} \ {operation}) /\ (Held(e) => Held(Enqueue(e, operation)))
  BY <1>3, <1>4, EnqueueSound
<1> QED BY <1>1, <1>3, <1>4, <1>5 DEF e

\* The refresh asks for something else.
LEMMA HealthAsks ==
  ASSUME NEW c, NEW d, Stays(c, d), c.health # "none" \/ (c.child /\ c.launching = "none"),
         NEW step \in {"snapshot", "off"}
  PROVE  LET e == Request([d EXCEPT !.health = step], "health")
         IN  Base(e, {}) /\ (Held(c) => Held(e))
<1> DEFINE e == [d EXCEPT !.health = step]
<1>1. /\ Typed(d) /\ d.seen \in Snapshots /\ Base(d, HealthWho(d.health)) /\ (Held(c) => Held(d))
      /\ d.health # "none" \/ (d.child /\ d.launching = "none")
  BY TypedFields DEF Stays, Base
<1>2. Differs(d, e, {"health", "seen"}) /\ e.health = step /\ e.seen = d.seen
  BY <1>1, FieldsOf DEF Typed, IsClient, Differs
<1> HIDE DEF e
<1>3. Base(e, HealthWho(e.health)) /\ (Held(d) => Held(e))
  BY <1>1, <1>2, HealthChanges
<1>4. HealthWho(e.health) = {"health"} /\ {"health"} \ {"health"} = {}
  BY <1>2, HealthWhoIs
<1>5. "health" \in Requesters \cap {"health"} /\ "health" \notin Shutdowns /\ "health" \notin Resetters
  BY Distinct DEF Requesters, Shutdowns
<1>6. Base(Request(e, "health"), {"health"} \ {"health"}) /\ (Held(e) => Held(Request(e, "health")))
  BY <1>3, <1>4, <1>5, RequestSound
<1> QED BY <1>1, <1>3, <1>4, <1>6 DEF e

\* What the health notes of an owner leaves the rest.
LEMMA HealthNotes ==
  ASSUME NEW c, Base(c, HealthWho(c.health)), NEW e,
         Differs(c, e, {"missing", "authoritative", "seen"}), e.missing \in BOOLEAN,
         e.authoritative \in BOOLEAN, e.seen \in Snapshots
  PROVE  Stays(c, e) /\ Typed(e)
<1>1. e["missing"] \in Types["missing"] /\ e["authoritative"] \in Types["authoritative"] /\ e["seen"] \in Types["seen"]
  BY TypesOf
<1>2. Typed(c)
  BY DEF Base
<1>3. Quieter(c, e)
  BY <1>1, <1>2, QuieterBy DEF Quiet
<1> QED BY <1>3, StaysQuieter DEF Quieter

\* A snapshot of the owner that is known.
LEMMA HealthSameSound ==
  ASSUME NEW c, Base(c, HealthWho(c.health)), c.health # "none", c.child, NEW seen \in Snapshots
  PROVE  Base(HealthSame(c, seen), {}) /\ (Held(c) => Held(HealthSame(c, seen)))
<1> DEFINE e == [c EXCEPT !.missing = FALSE, !.authoritative = TRUE, !.seen = seen]
           known == SetBlocked(e, seen # "ready")
           lost == [known EXCEPT !.authoritative = FALSE]
           p == Publish(lost, seen)
<1>0. Typed(c)
  BY DEF Base
<1>1. Stays(c, e) /\ Typed(e)
  <2>1. /\ Differs(c, e, {"missing", "authoritative", "seen"}) /\ e.missing \in BOOLEAN
        /\ e.authoritative \in BOOLEAN /\ e.seen = seen
    BY <1>0, FieldsOf DEF Typed, IsClient, Differs
  <2> HIDE DEF e
  <2> QED BY <2>1, HealthNotes
<1> HIDE DEF e
<1>2. Stays(c, known) /\ Typed(known)
  <2>1. (seen # "ready") \in BOOLEAN
    OBVIOUS
  <2>2. Quieter(e, known)
    BY <1>1, <2>1, SetBlockedQuieter
  <2>3. Stays(e, known)
    BY <1>1, <2>2, StaysQuieter DEF Stays
  <2> QED BY <1>1, <2>2, <2>3, StaysChain DEF Quieter
<1> HIDE DEF known
<1>3. CASE seen = "owner"
  <2>1. Stays(c, lost)
    <3>1. Differs(known, lost, {"authoritative"}) /\ lost.authoritative \in BOOLEAN
      BY <1>2, FieldsOf DEF Typed, IsClient, Differs
    <3> HIDE DEF lost
    <3>2. Quieter(known, lost)
      BY <1>2, <3>1, QuieterBy, TypesOf DEF Quiet
    <3>3. Stays(known, lost)
      BY <1>2, <3>2, StaysQuieter DEF Stays
    <3> QED BY <1>2, <3>3, StaysChain
  <2> HIDE DEF lost
  <2>2. Stays(lost, p)
    BY <2>1, StaysPublish DEF Stays
  <2>3. Stays(c, p)
    BY <2>1, <2>2, StaysChain
  <2> HIDE DEF p
  <2>4. HealthSame(c, seen) = HealthOver(p)
    BY <1>3 DEF HealthSame, p, lost, known, e
  <2> QED BY <2>3, <2>4, HealthOverStays
<1>4. CASE seen # "owner"
  <2>1. HealthSame(c, seen) = Enqueue([known EXCEPT !.health = "activation"], "session")
    BY <1>4 DEF HealthSame, known, e
  <2>2. LET f == Enqueue([known EXCEPT !.health = "activation"], "session")
        IN  Base(f, {}) /\ (Held(c) => Held(f))
    BY <1>2, HealthEnqueues
  <2> QED BY <2>1, <2>2
<1> QED BY <1>3, <1>4

\* A snapshot of another owner.
LEMMA AdoptOwnerSound ==
  ASSUME NEW c, Base(c, HealthWho(c.health)), c.health # "none", c.child, NEW seen \in Snapshots
  PROVE  Base(AdoptOwner(c, seen), {}) /\ (Held(c) => Held(AdoptOwner(c, seen)))
<1> DEFINE e == [c EXCEPT !.missing = FALSE, !.authoritative = FALSE, !.seen = seen]
           p == Publish(e, "starting")
           fresh == Forget(p)
           known == SetBlocked(fresh, seen # "ready")
<1>0. Typed(c)
  BY DEF Base
<1>1. Stays(c, e) /\ Typed(e)
  <2>1. /\ Differs(c, e, {"missing", "authoritative", "seen"}) /\ e.missing \in BOOLEAN
        /\ e.authoritative \in BOOLEAN /\ e.seen = seen
    BY <1>0, FieldsOf DEF Typed, IsClient, Differs
  <2> HIDE DEF e
  <2> QED BY <2>1, HealthNotes
<1> HIDE DEF e
<1>2. Stays(c, p)
  <2>1. Stays(e, p)
    BY <1>1, StaysPublish DEF Stays
  <2> QED BY <1>1, <2>1, StaysChain
<1>3. Typed(p)
  BY <1>2 DEF Stays, Base
<1> HIDE DEF p
<1>4. Stays(c, fresh) /\ Typed(fresh)
  <2>1. Quieter(p, fresh)
    BY <1>3, QuietOperations
  <2>2. Stays(p, fresh)
    BY <1>2, <2>1, StaysQuieter DEF Stays
  <2> QED BY <1>2, <2>1, <2>2, StaysChain DEF Quieter
<1> HIDE DEF fresh
<1>5. Stays(c, known)
  <2>1. (seen # "ready") \in BOOLEAN
    OBVIOUS
  <2>2. Quieter(fresh, known)
    BY <1>4, <2>1, SetBlockedQuieter
  <2>3. Stays(fresh, known)
    BY <1>4, <2>2, StaysQuieter DEF Stays
  <2> QED BY <1>4, <2>3, StaysChain
<1> HIDE DEF known
<1>6. AdoptOwner(c, seen) = Request([known EXCEPT !.health = "off"], "health")
  BY DEF AdoptOwner, known, fresh, p, e
<1> QED BY <1>5, <1>6, HealthAsks

\* Owners that are gone, that deny, or that are other ones.
LEMMA OwnersSound ==
  ASSUME NEW c, Base(c, HealthWho(c.health)), c.child
  PROVE  /\ Base(OwnerMissing(c), {}) /\ (Held(c) => Held(OwnerMissing(c)))
         /\ Base(OwnerDenied(c), {}) /\ (Held(c) => Held(OwnerDenied(c)))
         /\ Base(OwnerReplaced(c), {}) /\ (Held(c) => Held(OwnerReplaced(c)))
<1>0. Typed(c) /\ c.missing \in BOOLEAN /\ c.authoritative \in BOOLEAN /\ c.seen \in Snapshots
  BY TypedFields DEF Base
<1>1. ASSUME NEW e, Stays(c, e), NEW w \in Classes
      PROVE  Stays(c, Publish(Forget(e), w)) /\ Stays(c, TerminateCurrent(e, w))
  <2>1. Typed(e)
    BY <1>1 DEF Stays, Base
  <2>2. Stays(e, Forget(e))
    BY <1>1, <2>1, QuietOperations, StaysQuieter DEF Stays
  <2>3. Stays(Forget(e), Publish(Forget(e), w))
    BY <1>1, <2>2, StaysPublish DEF Stays
  <2>4. Stays(e, TerminateCurrent(e, w))
    BY <1>1, StaysTerminate DEF Stays
  <2> QED BY <1>1, <2>2, <2>3, <2>4, StaysChain
<1>2. "transient" \in Classes /\ "stable" \in Classes
  BY DEF Classes
<1>3. Base(OwnerMissing(c), {}) /\ (Held(c) => Held(OwnerMissing(c)))
  <2> DEFINE e == [c EXCEPT !.authoritative = FALSE, !.missing = ~@]
             lost == Publish(Forget(e), "transient")
  <2>1. Stays(c, e)
    <3>1. /\ Differs(c, e, {"missing", "authoritative", "seen"}) /\ e.missing \in BOOLEAN
          /\ e.authoritative \in BOOLEAN /\ e.seen = c.seen
      BY <1>0, FieldsOf DEF Typed, IsClient, Differs
    <3> HIDE DEF e
    <3> QED BY <1>0, <3>1, HealthNotes
  <2> HIDE DEF e
  <2>2. Stays(c, lost)
    BY <1>1, <1>2, <2>1
  <2> HIDE DEF lost
  <2>3. Stays(c, TerminateCurrent(lost, "transient"))
    BY <1>1, <1>2, <2>2
  <2>4. OwnerMissing(c) \in {HealthOver(TerminateCurrent(lost, "transient")), HealthOver(lost)}
    BY DEF OwnerMissing, lost, e
  <2> QED BY <2>2, <2>3, <2>4, HealthOverStays
<1>4. Base(OwnerDenied(c), {}) /\ (Held(c) => Held(OwnerDenied(c)))
  <2> DEFINE e == [c EXCEPT !.authoritative = FALSE]
             lost == Publish(Forget(e), "stable")
  <2>1. Stays(c, e)
    <3>1. /\ Differs(c, e, {"missing", "authoritative", "seen"}) /\ e.missing = c.missing
          /\ e.authoritative \in BOOLEAN /\ e.seen = c.seen
      BY <1>0, FieldsOf DEF Typed, IsClient, Differs
    <3> HIDE DEF e
    <3> QED BY <1>0, <3>1, HealthNotes
  <2> HIDE DEF e
  <2>2. Stays(c, lost)
    BY <1>1, <1>2, <2>1
  <2> HIDE DEF lost
  <2>3. Stays(c, TerminateCurrent(lost, "stable"))
    BY <1>1, <1>2, <2>2
  <2>4. OwnerDenied(c) = HealthOver(TerminateCurrent(lost, "stable"))
    BY DEF OwnerDenied, lost, e
  <2> QED BY <2>3, <2>4, HealthOverStays
<1>5. Base(OwnerReplaced(c), {}) /\ (Held(c) => Held(OwnerReplaced(c)))
  <2> DEFINE e == [c EXCEPT !.missing = FALSE]
  <2>1. Stays(c, e)
    <3>1. /\ Differs(c, e, {"missing", "authoritative", "seen"}) /\ e.missing \in BOOLEAN
          /\ e.authoritative = c.authoritative /\ e.seen = c.seen
      BY <1>0, FieldsOf DEF Typed, IsClient, Differs
    <3> HIDE DEF e
    <3> QED BY <1>0, <3>1, HealthNotes
  <2> HIDE DEF e
  <2>2. Stays(c, TerminateCurrent(e, "transient"))
    BY <1>1, <1>2, <2>1
  <2>3. OwnerReplaced(c) = HealthOver(TerminateCurrent(e, "transient"))
    BY DEF OwnerReplaced, e
  <2> QED BY <2>2, <2>3, HealthOverStays
<1> QED BY <1>3, <1>4, <1>5

\* A refresh that has its operation.
LEMMA HealthPublishesSound ==
  ASSUME NEW c, Base(c, HealthWho(c.health))
  PROVE  Base(HealthPublishes(c), {}) /\ (Held(c) => Held(HealthPublishes(c)))
<1> DEFINE p == Publish(c, c.seen)
           d == HealthOver(p)
<1>1. Base(HealthOver(c), {}) /\ (Held(c) => Held(HealthOver(c)))
  BY HealthOverSound
<1>2. CASE HealthSessionIsActive(c)
  <2>1. c.child /\ c.seen \in Snapshots
    BY <1>2, TypedFields DEF HealthSessionIsActive, IsActiveChild, Base
  <2>2. Stays(c, p)
    BY <2>1, StaysPublish
  <2> HIDE DEF p
  <2>3. /\ Base(d, {}) /\ Base(d, HealthWho(d.health)) /\ (Held(p) => Held(d))
    BY <2>2, HealthOverSound DEF Stays
  <2>4. Stays(d, TerminateCurrent(d, "transient"))
    BY <2>3, StaysTerminate DEF Classes
  <2>5. Base(TerminateCurrent(d, "transient"), {}) /\ (Held(p) => Held(TerminateCurrent(d, "transient")))
    BY <2>2, <2>4, OverStays DEF Stays
  <2>6. HealthPublishes(c) \in {TerminateCurrent(d, "transient"), d}
    BY <1>2 DEF HealthPublishes, d, p
  <2> HIDE DEF d
  <2> QED BY <2>2, <2>3, <2>5, <2>6 DEF Stays
<1>3. CASE ~HealthSessionIsActive(c)
  BY <1>1, <1>3 DEF HealthPublishes
<1> QED BY <1>2, <1>3

\* Whatever the refresh is told, it goes on or ends.
LEMMA HealthContinuesSound ==
  ASSUME NEW c, Base(c, HealthWho(c.health)), c.health # "none", NEW how, NEW changed \in BOOLEAN
  PROVE  Base(HealthContinues(c, how, changed), {}) /\ (Held(c) => Held(HealthContinues(c, how, changed)))
<1>1. CASE c.health = "snapshot" /\ how \in Snapshots \cup {"missing", "denied", "replaced"}
  <2>1. Base(HealthOver(c), {}) /\ (Held(c) => Held(HealthOver(c)))
    BY HealthOverSound
  <2>2. HealthContinues(c, how, changed) = HealthSnapshot(c, how, changed)
    BY <1>1 DEF HealthContinues
  <2>3. CASE ~HealthSessionIsActive(c)
    BY <2>1, <2>2, <2>3 DEF HealthSnapshot
  <2>4. CASE HealthSessionIsActive(c)
    <3>1. c.child
      BY <2>4 DEF HealthSessionIsActive, IsActiveChild
    <3>2. Snapshots \cap {"missing", "denied", "replaced"} = {}
      BY DEF Snapshots
    <3>3. CASE how = "missing"
      BY <2>2, <2>4, <3>1, <3>3, OwnersSound DEF HealthSnapshot
    <3>4. CASE how = "denied"
      BY <2>2, <2>4, <3>1, <3>4, OwnersSound DEF HealthSnapshot
    <3>5. CASE how = "replaced"
      BY <2>2, <2>4, <3>1, <3>5, OwnersSound DEF HealthSnapshot
    <3>6. CASE how \in Snapshots
      <4>1. HealthSnapshot(c, how, changed) \in {AdoptOwner(c, how), HealthSame(c, how)}
        BY <2>4, <3>2, <3>6 DEF HealthSnapshot
      <4> QED BY <1>1, <2>2, <3>1, <3>6, <4>1, AdoptOwnerSound, HealthSameSound
    <3> QED BY <1>1, <3>3, <3>4, <3>5, <3>6
  <2> QED BY <2>3, <2>4
<1>2. CASE c.health = "snapshot" /\ how \notin Snapshots \cup {"missing", "denied", "replaced"}
  BY <1>2, HealthFailsSound DEF HealthContinues
<1>3. CASE c.health # "snapshot" /\ how # "ok"
  BY <1>3, HealthRecyclesSound DEF HealthContinues
<1>4. CASE c.health = "off" /\ how = "ok"
  <2>1. Stays(c, c)
    BY StaysSame
  <2>2. HealthContinues(c, how, changed) = Enqueue([c EXCEPT !.health = "fresh"], "fresh")
    BY <1>4 DEF HealthContinues
  <2> QED BY <2>1, <2>2, HealthEnqueues
<1>5. CASE c.health \notin {"snapshot", "off"} /\ how = "ok"
  BY <1>5, HealthPublishesSound DEF HealthContinues
<1> QED BY <1>1, <1>2, <1>3, <1>4, <1>5

\* A refresh begins.
LEMMA RefreshHealthSound ==
  ASSUME NEW c, Base(c, {}), c.health = "none", c.child, c.launching = "none"
  PROVE  Base(RefreshHealth(c), {}) /\ (Held(c) => Held(RefreshHealth(c)))
<1> DEFINE d == [c EXCEPT !.authoritative = FALSE]
<1>1. Base(c, HealthWho(c.health)) /\ Typed(c) /\ c.missing \in BOOLEAN /\ c.seen \in Snapshots
  BY HealthWhoIs, TypedFields DEF Base
<1>2. Stays(c, d)
  <2>1. /\ Differs(c, d, {"missing", "authoritative", "seen"}) /\ d.missing = c.missing
        /\ d.authoritative \in BOOLEAN /\ d.seen = c.seen
    BY <1>1, FieldsOf DEF Typed, IsClient, Differs
  <2> HIDE DEF d
  <2> QED BY <1>1, <2>1, HealthNotes
<1>3. RefreshHealth(c) = Request([d EXCEPT !.health = "snapshot"], "health")
  <2>1. [c EXCEPT !.health = "snapshot", !.authoritative = FALSE] = [d EXCEPT !.health = "snapshot"]
    BY <1>1, FieldsOf DEF Typed, IsClient
  <2> QED BY <2>1 DEF RefreshHealth
<1> HIDE DEF d
<1> QED BY <1>2, <1>3, HealthAsks

-----------------------------------------------------------------------------
(* Stopping                                                                *)

\* A stop begins, of a client without one: what the soundness needs of it
\* before.
LEMMA StopBegins ==
  ASSUME NEW c, NEW X, Typed(c), Ready(c, X), c.stop = "none",
         LaunchSound(c, Live(c) \cup X), HealthSound(c, Live(c) \cup X), ReconcilerSound(c, Live(c) \cup X),
         StopSound(c, Live(c) \cup X), CircuitSound(c),
         \A r \in Resetters : ResetFits(c, Live(c) \cup X, r),
         \A r \in Resetters : c.reset[r] = "stopping" /\ r \in Live(c) \cup X => ~c.desired,
         c.desired => \E r \in Resetters : c.reset[r] = "stopping",
         ~c.child => c.launching \in {"none", "validating"}
  PROVE  Base(StopCurrentProcess(c), X) /\ Held(StopCurrentProcess(c))
<1> DEFINE q == [c EXCEPT !.stopFault = FALSE]
           b == BeginDraining(q)
           e == [b EXCEPT !.stop = "begun"]
           d == Settle(e, "stopper", "begin")
           H == Live(c) \cup X
           Y == X \cup {"stopper"}
           G == Live(e) \cup Y
<1>1. Quieter(c, q)
  <2>1. Differs(c, q, {"stopFault"}) /\ q.stopFault \in BOOLEAN
    BY FieldsOf DEF Typed, IsClient, Differs
  <2> HIDE DEF q
  <2> QED BY <2>1, QuieterBy, TypesOf DEF Quiet
<1> HIDE DEF q
<1>2. /\ q.desired = c.desired /\ q.started = c.started /\ q.child = c.child /\ q.launching = c.launching
      /\ q.health = c.health /\ q.terminating = c.terminating
      /\ q.termination = c.termination /\ q.stop = c.stop /\ q.unclean = c.unclean
      /\ q.timer = c.timer /\ q.crashLoop = c.crashLoop /\ q.probe = c.probe
      /\ q.readiness = c.readiness /\ q.dispatched = c.dispatched /\ q.reset = c.reset
      /\ q.channel = c.channel /\ q.sent = c.sent /\ q.queue = c.queue /\ q.jobs = c.jobs
      /\ q.running = c.running /\ q.operations = c.operations /\ q.waits = c.waits
  BY <1>1, QuieterFields
<1>3. Ready(q, X) /\ Live(q) = Live(c) /\ Asking(q) = Asking(c) /\ Waiting(q) = Waiting(c) /\ Typed(q)
  <2>1. Op(q) = Op(c) /\ Asking(q) = Asking(c) /\ Waiting(q) = Waiting(c) /\ Told(q) = Told(c)
    BY <1>2 DEF Op, Asking, Waiting, Told
  <2>2. Ops(q) = Ops(c)
    BY <1>2, <2>1 DEF Ops
  <2>3. Live(q) = Live(c)
    BY <2>1, <2>2 DEF Live
  <2>4. QueueSound(q) /\ OperationsSound(q) /\ WaitsSound(q) /\ Apart(q) /\ JobsSound(q.jobs, q.reset)
    BY <1>2, <2>1, <2>2 DEF Ready, Plumbed, QueueSound, OperationsSound, WaitsSound, Apart
  <2>5. Typed(q) /\ IsClient(q)
    BY <1>1 DEF Quieter, Typed
  <2> QED BY <2>1, <2>3, <2>4, <2>5 DEF Ready, Plumbed
<1>4. Moves(q, b, X, X) /\ b.channel # "open"
  <2>1. "launch" \in Asking(q) => q.launching # "failed"
    BY <1>2, <1>3 DEF LaunchSound
  <2> QED BY <1>3, <2>1, BeginDrainingMoves
<1> HIDE DEF b
<1>5. /\ Differs(q, b, Wires) /\ Ready(b, X) /\ Live(b) \cup X = H
      /\ c.channel = "closed" => b.channel = "closed"
      /\ "stop" \notin b.dispatched
  <2>1. "stop" \notin c.dispatched /\ "stop" \notin H
    BY DEF StopSound
  <2> QED BY <1>2, <1>3, <1>4, <2>1 DEF Moves
<1>6. /\ b.desired = c.desired /\ b.started = c.started /\ b.child = c.child /\ b.launching = c.launching
      /\ b.health = c.health /\ b.terminating = c.terminating
      /\ b.termination = c.termination /\ b.stop = c.stop /\ b.unclean = c.unclean
      /\ b.timer = c.timer /\ b.crashLoop = c.crashLoop /\ b.probe = c.probe
      /\ b.readiness = c.readiness /\ b.reset = c.reset
      /\ b.running = c.running /\ b.operations = c.operations /\ b.waits = c.waits
  BY <1>2, <1>5, FieldsOf DEF Differs, Wires
<1>7. Differs(b, e, {"stop"}) /\ e.stop = "begun"
  BY <1>5, FieldsOf DEF Ready, IsClient, Differs
<1> HIDE DEF e
<1>8. /\ e.desired = c.desired /\ e.started = c.started /\ e.child = c.child /\ e.launching = c.launching
      /\ e.health = c.health /\ e.terminating = c.terminating
      /\ e.termination = c.termination /\ e.unclean = c.unclean
      /\ e.timer = c.timer /\ e.crashLoop = c.crashLoop /\ e.probe = c.probe
      /\ e.readiness = c.readiness /\ e.reset = c.reset
      /\ e.running = c.running /\ e.operations = c.operations /\ e.waits = c.waits
      /\ e.channel = b.channel /\ e.sent = b.sent /\ e.queue = b.queue /\ e.jobs = b.jobs
      /\ e.dispatched = b.dispatched
  BY <1>6, <1>7, FieldsOf DEF Differs
<1>9. Typed(e)
  <2>1. Typed(b)
    BY <1>3, <1>5, TypedKept DEF Wires, Loose
  <2>2. e["stop"] \in Types["stop"]
    BY <1>7, TypesOf
  <2> QED BY <1>7, <2>1, <2>2, TypedKept
<1>10. Plumbed(e) /\ Live(e) = Live(b) /\ Asking(e) = Asking(b) /\ Told(e) = Told(b) /\ Waiting(e) = Waiting(c) /\ Plumbed(b)
       /\ X \cap Live(b) = {}
  <2>1. Op(e) = Op(b) /\ Asking(e) = Asking(b) /\ Waiting(e) = Waiting(b) /\ Waiting(b) = Waiting(c) /\ Told(e) = Told(b)
    BY <1>6, <1>8 DEF Op, Asking, Waiting, Told
  <2>2. Ops(e) = Ops(b)
    BY <1>6, <1>8, <2>1 DEF Ops
  <2>3. Live(e) = Live(b)
    BY <2>1, <2>2 DEF Live
  <2>4. QueueSound(e) /\ OperationsSound(e) /\ WaitsSound(e) /\ Apart(e) /\ JobsSound(e.jobs, e.reset)
    BY <1>5, <1>6, <1>8, <2>1, <2>2 DEF Ready, Plumbed, QueueSound, OperationsSound, WaitsSound, Apart
  <2> QED BY <1>5, <2>1, <2>3, <2>4 DEF Plumbed, Ready
<1>11. /\ "stopper" \notin H /\ "stop" \notin H /\ G = H \cup {"stopper"} /\ Y \cap Live(e) = {}
  <2>1. "stopper" \notin H /\ "stop" \notin H
    BY DEF StopSound
  <2> QED BY <1>5, <1>10, <2>1
<1>12. "launch" \in Asking(e) \cup Told(e) => c.launching # "failed"
  <2>1. Waiting(b) = Waiting(c) /\ "launch" \notin Ops(c) /\ Live(b) \cup X = H
    <3>1. Waiting(b) = Waiting(c)
      BY <1>6 DEF Waiting
    <3> QED BY <1>5, <3>1, Apiece, Kinds DEF Ready, Operations
  <2>2. "launch" \in Asking(b) \cup Told(b) => "launch" \notin Waiting(c) /\ "launch" \in Live(c) \cup X /\ "launch" \notin X
    BY <1>10, <2>1 DEF Plumbed, Apart, Live
  <2> QED BY <1>10, <2>1, <2>2 DEF Live, LaunchSound
<1>13. /\ LaunchSound(c, H) /\ HealthSound(c, H) /\ ReconcilerSound(c, H) /\ StopSound(c, H)
       /\ \A r \in Resetters : ResetFits(c, H, r)
       /\ \A r \in Resetters : c.reset[r] = "stopping" /\ r \in H => ~c.desired
  OBVIOUS
<1> HIDE DEF H, G
<1>14. LaunchSound(e, G) /\ HealthSound(e, G) /\ ReconcilerSound(e, G) /\ CircuitSound(e)
  <2>1. LaunchSound(e, G)
    BY <1>8, <1>10, <1>11, <1>12, <1>13 DEF LaunchSound
  <2>2. HealthSound(e, G) /\ ReconcilerSound(e, G)
    BY <1>8, <1>11, <1>13 DEF HealthSound, ReconcilerSound
  <2>3. CircuitSound(e)
    BY <1>8 DEF CircuitSound
  <2> QED BY <2>1, <2>2, <2>3
<1>15. StopSound(e, G)
  BY <1>4, <1>5, <1>7, <1>8, <1>11, <1>13 DEF StopSound
<1>16. ResetSound(e, G)
  <2>1. \A r \in Resetters : r \in G <=> r \in H
    BY <1>11, Distinct
  <2> QED BY <1>7, <1>8, <1>13, <2>1 DEF ResetSound, ResetFits
<1>17. Base(e, Y)
  BY <1>9, <1>10, <1>11, <1>14, <1>15, <1>16 DEF Base, G
<1>18. Base(d, X)
  <2>1. "stopper" \in Whos \cap Y /\ "stopper" \notin Resetters /\ "begin" \in Hows
    BY Distinct, HowsOf DEF Whos
  <2>2. Y \ {"stopper"} = X
    BY <1>11 DEF H
  <2> HIDE DEF Y
  <2>3. Base(d, Y \ {"stopper"})
    BY <1>17, <2>1, SettleSound
  <2> QED BY <2>2, <2>3
<1>19. d.stop = "begun"
  BY <1>7, <1>9, FieldsOf DEF Settle, Typed, IsClient
<1>20. StopCurrentProcess(c) = d
  BY DEF StopCurrentProcess, d, e, b, q
<1> HIDE DEF d
<1> QED BY <1>18, <1>19, <1>20 DEF Held

\* The application no longer wants a helper, and stops it.
LEMMA StopSoundly ==
  ASSUME NEW c, NEW X, Base(c, X), ~c.desired, ~c.child => c.launching \in {"none", "validating"}
  PROVE  Base(StopCurrentProcess(c), X) /\ (c.stop = "none" \/ Held(c) => Held(StopCurrentProcess(c)))
<1>1. CASE c.stop = "none"
  <2>1. Ready(c, X) /\ \A r \in Resetters : ResetFits(c, Live(c) \cup X, r)
    BY BaseReady DEF Base, ResetSound
  <2> QED BY <1>1, <2>1, StopBegins DEF Base
<1>2. CASE c.stop # "none"
  BY <1>2 DEF StopCurrentProcess
<1> QED BY <1>1, <1>2

\* Those who are told are among the continuations.
LEMMA ToldAll ==
  ASSUME NEW c, IsClient(c), c.jobs \in Seq(Jobs), NEW whos \in Seq(Whos), NEW how \in Hows, NEW r \in ToSet(whos)
  PROVE  LET d == SettleAll(c, whos, how)
         IN  \E i \in DOMAIN d.jobs : d.jobs[i].who = r /\ d.jobs[i].how = how
<1> DEFINE s == [i \in DOMAIN whos |-> [who |-> whos[i], how |-> how]]
           d == SettleAll(c, whos, how)
<1>1. PICK k \in DOMAIN whos : whos[k] = r
  BY DEF ToSet
<1>2. d.jobs = c.jobs \o s
  BY FieldsOf DEF SettleAll, IsClient
<1>3. /\ DOMAIN s = 1 .. Len(whos) /\ Len(whos) \in Nat /\ \A i \in DOMAIN s : s[i] \in Jobs
      /\ s[k] = [who |-> r, how |-> how] /\ k \in DOMAIN s
  BY <1>1 DEF Jobs
<1>4. s \in Seq(Jobs)
  BY <1>3, IsASeq
<1> HIDE DEF s, d
<1>5. k + Len(c.jobs) \in DOMAIN (c.jobs \o s) /\ (c.jobs \o s)[k + Len(c.jobs)] = s[k]
  BY <1>3, <1>4
<1>6. (c.jobs \o s)[k + Len(c.jobs)] = [who |-> r, how |-> how]
  BY <1>3, <1>5
<1>7. (c.jobs \o s)[k + Len(c.jobs)].who = r /\ (c.jobs \o s)[k + Len(c.jobs)].how = how
  BY <1>6
<1>8. \E i \in DOMAIN d.jobs : d.jobs[i].who = r /\ d.jobs[i].how = how
  BY <1>2, <1>5, <1>7
<1> QED BY <1>8 DEF d

\* A stop ends, and the resets that waited for it go on.
LEMMA EndStopSound ==
  ASSUME NEW c, NEW X, Base(c, X), X \subseteq {"stopper", "stop"}, {"stopper", "stop"} \cap Live(c) = {},
         c.stop # "none", \A r \in Resetters : c.reset[r] = "stopping" => r \notin Live(c),
         c.launching \in {"none", "validating", "failed"}, NEW clean \in BOOLEAN,
         clean => ~c.child /\ c.timer = "none" /\ c.launching \in {"none", "validating"}
  PROVE  Base(EndStop(c, clean), {}) /\ Held(EndStop(c, clean))
<1> DEFINE over == [c EXCEPT !.stop = "none", !.stopFault = FALSE, !.shutDown = FALSE, !.dispatched = @ \ {"stop"},
                             !.unclean = @ \/ ~clean]
           e == IF clean /\ ~c.desired THEN Publish(over, "stopped") ELSE over
           how == IF clean THEN "stopped" ELSE "unclean"
           s == ResettersIn(c, "stopping")
           d == SettleAll(e, s, how)
           S == {r \in Resetters : c.reset[r] = "stopping"}
           H == Live(c) \cup X
           G == Live(e) \cup S
           F == {"stop", "stopFault", "shutDown", "dispatched", "unclean", "readiness"}
<1>1. /\ LaunchSound(c, H) /\ HealthSound(c, H) /\ ReconcilerSound(c, H) /\ StopSound(c, H)
      /\ ResetSound(c, H) /\ CircuitSound(c) /\ X \cap Live(c) = {} /\ Typed(c) /\ Plumbed(c)
      /\ c.unclean \in BOOLEAN /\ c.desired \in BOOLEAN /\ c.readiness \in Readiness
  BY TypedFields DEF Base
<1>2. /\ Differs(c, over, F) /\ over.stop = "none" /\ over.stopFault \in BOOLEAN /\ over.shutDown \in BOOLEAN
      /\ over.dispatched = c.dispatched \ {"stop"} /\ over.unclean \in BOOLEAN /\ (over.unclean <=> c.unclean \/ ~clean)
      /\ over.readiness = c.readiness
  BY <1>1, FieldsOf, ZenonT(40) DEF Typed, IsClient, Differs
<1>3. over.desired = c.desired
  BY <1>2, FieldsOf DEF Differs
<1> HIDE DEF over
<1>4. /\ Differs(c, e, F) /\ e.stop = "none" /\ e.stopFault \in BOOLEAN /\ e.shutDown \in BOOLEAN
      /\ e.dispatched = c.dispatched \ {"stop"} /\ e.unclean \in BOOLEAN /\ (e.unclean <=> c.unclean \/ ~clean)
      /\ e.readiness \in Readiness /\ e.readiness \in {c.readiness, "stopped"}
      /\ clean /\ ~c.desired => e.readiness = "stopped"
      /\ ~(clean /\ ~c.desired) => e.readiness = c.readiness
  <2>1. CASE clean /\ ~c.desired
    <3>1. e = Publish(over, "stopped") /\ "stopped" \in Readiness
      BY <2>1 DEF Readiness
    <3>2. Differs(over, e, {"readiness"}) /\ e.readiness = "stopped"
      BY <1>2, <3>1, FieldsOf DEF Differs, IsClient, Publish
    <3> HIDE DEF e
    <3>3. /\ e.stop = over.stop /\ e.stopFault = over.stopFault /\ e.shutDown = over.shutDown
          /\ e.dispatched = over.dispatched /\ e.unclean = over.unclean
      BY <3>2, FieldsOf DEF Differs
    <3>4. Differs(c, e, F)
      BY <1>2, <3>2, FieldsOf DEF Differs
    <3> QED BY <1>2, <2>1, <3>1, <3>2, <3>3, <3>4
  <2>2. CASE ~(clean /\ ~c.desired)
    <3>1. e = over
      BY <2>2
    <3> HIDE DEF e, F
    <3> QED BY <1>1, <1>2, <2>2, <3>1
  <2> QED BY <2>1, <2>2
<1>20. EndStop(c, clean) = d
  BY <1>3 DEF EndStop, d, e, how, s, over
<1> HIDE DEF e
<1>5. /\ e.desired = c.desired /\ e.started = c.started /\ e.child = c.child /\ e.launching = c.launching
      /\ e.health = c.health /\ e.terminating = c.terminating
      /\ e.termination = c.termination /\ e.timer = c.timer /\ e.crashLoop = c.crashLoop /\ e.probe = c.probe
      /\ e.reset = c.reset
  BY <1>4, FieldsOf DEF Differs
<1>6. /\ Typed(e) /\ Plumbed(e) /\ Live(e) = Live(c) /\ Asking(e) = Asking(c) /\ Told(e) = Told(c)
      /\ Waiting(e) = Waiting(c) /\ Returning(e) = Returning(c) /\ e.channel = c.channel
      /\ e.running = c.running /\ e.operations = c.operations /\ e.waits = c.waits
  <2>1. F \in SUBSET Scalars
    BY FieldsOf DEF Scalars
  <2>2. /\ e["stop"] \in Types["stop"] /\ e["stopFault"] \in Types["stopFault"] /\ e["shutDown"] \in Types["shutDown"]
        /\ e["unclean"] \in Types["unclean"] /\ e["readiness"] \in Types["readiness"]
    BY <1>4, TypesOf
  <2>3. c.sent \in Shutdowns => c.sent \in e.dispatched
    <3>1. c.sent # "stop"
      BY DEF Live, Asking
    <3> QED BY <1>1, <1>4, <3>1 DEF Plumbed, QueueSound
  <2>4. e.dispatched \subseteq c.dispatched
    BY <1>4
  <2>5. \A field \in F \ Loose : e[field] \in Types[field]
    BY <2>2 DEF Loose
  <2> QED BY <1>4, <1>5, <2>1, <2>3, <2>4, <2>5, Changed
<1>7. S \cap Live(e) = {} /\ S \subseteq Resetters /\ G = (H \ X) \cup S /\ {"stopper", "stop"} \cap G = {}
  <2>1. S \cap Live(e) = {} /\ S \subseteq Resetters
    BY <1>6
  <2>2. {"stopper", "stop"} \cap S = {}
    BY Distinct DEF Shutdowns
  <2> QED BY <1>1, <1>6, <2>1, <2>2
<1>8. \A r \in Resetters : (r \in S <=> c.reset[r] = "stopping") /\ (r \in G <=> r \in S \/ r \in H)
  <2>1. \A r \in Resetters : r \notin X
    BY Distinct DEF Shutdowns
  <2> QED BY <1>7, <2>1
<1>9. \A w \in {"launch", "fresh", "health", "session", "configure", "reconciler", "intent", "rollback", "termination"} :
        w \in G <=> w \in H
  <2>1. \A w \in {"launch", "fresh", "health", "session", "configure", "reconciler", "intent", "rollback", "termination"} :
          w \notin S /\ w \notin X
    BY <1>7, Distinct DEF Shutdowns, Operations
  <2> QED BY <1>7, <2>1
<1>21. c.desired => S # {}
  BY <1>1 DEF StopSound
<1> HIDE DEF G, H
<1>10. LaunchSound(e, G) /\ HealthSound(e, G) /\ ReconcilerSound(e, G) /\ CircuitSound(e)
  <2>1. LaunchSound(e, G)
    BY <1>1, <1>4, <1>5, <1>6, <1>9 DEF LaunchSound
  <2>2. HealthSound(e, G) /\ ReconcilerSound(e, G)
    BY <1>1, <1>5, <1>6, <1>9 DEF HealthSound, ReconcilerSound
  <2>3. CircuitSound(e)
    BY <1>1, <1>4, <1>5 DEF CircuitSound
  <2> QED BY <2>1, <2>2, <2>3
<1>11. StopSound(e, G)
  BY <1>1, <1>4, <1>5, <1>6, <1>7, <1>9 DEF StopSound
<1>12. ResetSound(e, G)
  <2> SUFFICES ASSUME NEW r \in Resetters
               PROVE  /\ ResetFits(e, G, r)
                      /\ e.reset[r] = "stopping" =>
                           IF r \in G THEN e.stop = "none" \/ (e.stop = "begun" /\ ~e.desired) ELSE e.stop # "none"
    BY DEF ResetSound
  <2>1. r \in S <=> c.reset[r] = "stopping"
    BY <1>8
  <2>2. r \in G <=> r \in S \/ r \in H
    BY <1>8
  <2>3. ResetFits(c, H, r)
    BY <1>1 DEF ResetSound
  <2> HIDE DEF S
  <2> QED BY <1>4, <1>5, <2>1, <2>2, <2>3 DEF ResetFits
<1>13. Base(e, S)
  BY <1>6, <1>7, <1>10, <1>11, <1>12 DEF Base, G
<1>14. s \in Seq(Whos) /\ IsInjective(s) /\ ToSet(s) = S
  BY ResettersInProperties
<1>15. /\ "stopper" \notin S /\ "launch" \notin S /\ how \in Hows /\ "stopper" \notin Told(e)
  <2>1. "stopper" \notin Told(e)
    BY <1>7 DEF G, Live
  <2> QED BY <1>7, <2>1, Distinct, HowsOf
<1> HIDE DEF s, S, how
<1>16. Moves(e, SettleAll(e, s, how), S, S \ ToSet(s))
  BY <1>13, <1>14, <1>15, BaseReady, SettleAllMoves
<1>17. Moves(e, d, S, {})
  <2>1. S \ ToSet(s) = {}
    BY <1>14
  <2> QED BY <1>16, <2>1
<1>18. Base(d, {})
  BY <1>13, <1>17, MovesSound
<1>22. clean /\ c.desired => Returning(d)
  <2> SUFFICES ASSUME clean, c.desired PROVE Returning(d)
    OBVIOUS
  <2>1. PICK r \in S : r \in ToSet(s) /\ r \in Resetters /\ c.reset[r] = "stopping"
    BY <1>14, <1>21 DEF S
  <2>2. IsClient(e) /\ e.jobs \in Seq(Jobs) /\ how = "stopped"
    BY <1>6 DEF Typed, Plumbed, JobsSound, how
  <2>3. \E i \in DOMAIN d.jobs : d.jobs[i].who = r /\ d.jobs[i].how = how
    BY <1>14, <1>15, <2>1, <2>2, ToldAll
  <2>4. d.reset = c.reset
    BY <1>5, <1>17, FieldsOf DEF Moves, Differs, Wires
  <2> QED BY <2>1, <2>2, <2>3, <2>4 DEF Returning
<1>19. Held(d)
  <2>1. /\ d.desired = c.desired /\ d.child = c.child /\ d.launching = c.launching /\ d.unclean = e.unclean
        /\ d.readiness = e.readiness /\ d.crashLoop = c.crashLoop /\ d.stop = "none" /\ d.timer = c.timer
    BY <1>4, <1>5, <1>17, FieldsOf DEF Moves, Differs, Wires
  <2>2. c.crashLoop => c.desired
    BY <1>1 DEF CircuitSound
  <2>3. CASE ~clean
    BY <1>4, <2>1, <2>3 DEF Held
  <2>4. CASE clean /\ c.desired
    BY <1>22, <2>1, <2>4 DEF Held
  <2>5. CASE clean /\ ~c.desired
    BY <1>4, <2>1, <2>2, <2>5 DEF Held
  <2> QED BY <2>3, <2>4, <2>5
<1> QED BY <1>18, <1>19, <1>20

\* The timer is cleared; what Held says of it must come from elsewhere.
LEMMA TimerOffSound ==
  ASSUME NEW c, NEW X, Base(c, X)
  PROVE  LET d == [c EXCEPT !.timer = "none"]
         IN  /\ Base(d, X) /\ Differs(c, d, {"timer"}) /\ d.timer = "none" /\ Live(d) = Live(c)
             /\ d.reset = c.reset /\ d.jobs = c.jobs
<1> DEFINE d == [c EXCEPT !.timer = "none"]
           H == Live(c) \cup X
<1>1. /\ LaunchSound(c, H) /\ HealthSound(c, H) /\ ReconcilerSound(c, H) /\ StopSound(c, H)
      /\ ResetSound(c, H) /\ CircuitSound(c) /\ X \cap Live(c) = {} /\ Typed(c) /\ Plumbed(c)
  BY DEF Base
<1>2. Differs(c, d, {"timer"}) /\ d.timer = "none"
  BY <1>1, FieldsOf DEF Typed, IsClient, Differs
<1> HIDE DEF d
<1>3. /\ d.desired = c.desired /\ d.started = c.started /\ d.child = c.child /\ d.launching = c.launching
      /\ d.health = c.health /\ d.terminating = c.terminating /\ d.dispatched = c.dispatched /\ d.stop = c.stop
      /\ d.termination = c.termination /\ d.crashLoop = c.crashLoop /\ d.probe = c.probe
      /\ d.reset = c.reset /\ d.readiness = c.readiness
  BY <1>2, FieldsOf DEF Differs
<1>4. /\ Typed(d) /\ Plumbed(d) /\ Live(d) = Live(c) /\ Asking(d) = Asking(c) /\ Told(d) = Told(c)
      /\ Waiting(d) = Waiting(c) /\ d.channel = c.channel /\ d.jobs = c.jobs
      /\ d.running = c.running /\ d.operations = c.operations /\ d.waits = c.waits
  <2>1. {"timer"} \in SUBSET Scalars
    BY FieldsOf DEF Scalars
  <2>2. d["timer"] \in Types["timer"]
    BY <1>2, TypesOf
  <2>3. c.sent \in Shutdowns => c.sent \in d.dispatched
    BY <1>1, <1>3 DEF Plumbed, QueueSound
  <2>4. \A field \in {"timer"} \ Loose : d[field] \in Types[field]
    BY <2>2
  <2> QED BY <1>2, <1>3, <2>1, <2>3, <2>4, Changed
<1> HIDE DEF H
<1>5. LaunchSound(d, H) /\ HealthSound(d, H) /\ ReconcilerSound(d, H) /\ CircuitSound(d)
  <2>1. LaunchSound(d, H)
    BY <1>1, <1>3, <1>4 DEF LaunchSound
  <2>2. HealthSound(d, H) /\ ReconcilerSound(d, H)
    BY <1>1, <1>3, <1>4 DEF HealthSound, ReconcilerSound
  <2>3. CircuitSound(d)
    BY <1>1, <1>2, <1>3 DEF CircuitSound
  <2> QED BY <2>1, <2>2, <2>3
<1>6. StopSound(d, H)
  BY <1>1, <1>2, <1>3, <1>4 DEF StopSound
<1>7. ResetSound(d, H)
  BY <1>1, <1>3 DEF ResetSound, ResetFits
<1>8. Base(d, X)
  BY <1>1, <1>4, <1>5, <1>6, <1>7 DEF Base, H
<1> QED BY <1>2, <1>3, <1>4, <1>8 DEF d

\* What the steps of a stop change.
StopFields == {"stop", "timer", "planned", "terminating", "shutDown", "dispatched"}

\* A stop comes to its next step, of a helper that runs.
LEMMA StopSteps ==
  ASSUME NEW c, NEW e, NEW X, NEW Y, Base(c, X), c.stop # "none", c.child, {"stopper", "stop"} \cap Live(c) = {},
         \A r \in Resetters : c.reset[r] = "stopping" => r \notin Live(c),
         X \subseteq {"stopper", "stop"}, Y \subseteq {"stop"}, "stop" \in Y => e.stop = "asked",
         Differs(c, e, StopFields), e.stop \in {"asked", "exit", "killed"}, e.timer = "none",
         e.planned \in Classes \cup {"none", "shutdown"}, e.terminating \in BOOLEAN, e.shutDown \in BOOLEAN,
         c.terminating => e.terminating, e.dispatched \subseteq c.dispatched,
         c.sent \in Shutdowns => c.sent \in e.dispatched,
         e.stop = "asked" => "stop" \notin e.dispatched,
         e.stop = "asked" \/ Asking(c) \subseteq Shutdowns
  PROVE  Base(e, Y) /\ Held(e)
<1> DEFINE H == Live(c) \cup X
           G == Live(e) \cup Y
<1>1. /\ LaunchSound(c, H) /\ HealthSound(c, H) /\ ReconcilerSound(c, H) /\ StopSound(c, H)
      /\ ResetSound(c, H) /\ CircuitSound(c) /\ X \cap Live(c) = {} /\ Typed(c) /\ Plumbed(c)
  BY DEF Base
<1>2. /\ e.desired = c.desired /\ e.started = c.started /\ e.child = c.child /\ e.launching = c.launching
      /\ e.health = c.health /\ e.termination = c.termination /\ e.crashLoop = c.crashLoop /\ e.probe = c.probe
      /\ e.reset = c.reset /\ e.readiness = c.readiness
  BY FieldsOf DEF Differs, StopFields
<1>3. /\ Typed(e) /\ Plumbed(e) /\ Live(e) = Live(c) /\ Asking(e) = Asking(c) /\ Told(e) = Told(c)
      /\ Waiting(e) = Waiting(c) /\ e.channel = c.channel /\ e.jobs = c.jobs
      /\ e.running = c.running /\ e.operations = c.operations /\ e.waits = c.waits
  <2>1. StopFields \in SUBSET Scalars
    BY FieldsOf DEF Scalars, StopFields
  <2>2. /\ e["timer"] \in Types["timer"] /\ e["stop"] \in Types["stop"] /\ e["planned"] \in Types["planned"]
        /\ e["terminating"] \in Types["terminating"] /\ e["shutDown"] \in Types["shutDown"]
    BY TypesOf
  <2>4. \A field \in StopFields \ Loose : e[field] \in Types[field]
    BY <2>2 DEF StopFields, Loose
  <2> QED BY <1>2, <2>1, <2>4, Changed
<1>4. Y \cap Live(e) = {} /\ {"stopper"} \cap G = {} /\ ("stop" \in G => e.stop = "asked")
  BY <1>3
<1>5. \A w \in {"launch", "fresh", "health", "session", "configure", "reconciler", "intent", "rollback", "termination"} :
        w \in G <=> w \in H
  BY <1>3
<1>6. \A r \in Resetters : r \in G <=> r \in H
  <2>1. \A r \in Resetters : r \notin X \cup Y
    BY Distinct DEF Shutdowns
  <2> QED BY <1>3, <2>1
<1>7. \A r \in Resetters : c.reset[r] = "stopping" => r \notin G
  <2>1. \A r \in Resetters : r \notin Y
    BY Distinct DEF Shutdowns
  <2> QED BY <1>3, <2>1
<1> HIDE DEF G, H
<1>8. LaunchSound(e, G) /\ HealthSound(e, G) /\ ReconcilerSound(e, G) /\ CircuitSound(e)
  <2>1. LaunchSound(e, G)
    BY <1>1, <1>2, <1>3, <1>5 DEF LaunchSound
  <2>2. HealthSound(e, G) /\ ReconcilerSound(e, G)
    BY <1>1, <1>2, <1>3, <1>5 DEF HealthSound, ReconcilerSound
  <2>3. CircuitSound(e)
    BY <1>1, <1>2 DEF CircuitSound
  <2> QED BY <2>1, <2>2, <2>3
<1>9. StopSound(e, G)
  <2>1. "stop" \in e.dispatched => "stop" \in c.dispatched
    OBVIOUS
  <2>2. c.launching # "validating"
    BY <1>1 DEF LaunchSound
  <2> QED BY <1>1, <1>2, <1>3, <1>4, <1>5, <2>1, <2>2 DEF StopSound
<1>10. ResetSound(e, G)
  BY <1>1, <1>2, <1>6, <1>7 DEF ResetSound, ResetFits
<1>11. Base(e, Y)
  BY <1>3, <1>4, <1>8, <1>9, <1>10 DEF Base, G
<1> QED BY <1>11 DEF Held

\* The stop begins with what there is: no helper, one whose channel is closed,
\* or one that is asked.
LEMMA PerformStopSound ==
  ASSUME NEW c, Base(c, {"stopper"}), c.stop = "begun",
         \A r \in Resetters : c.reset[r] = "stopping" => r \notin Told(c)
  PROVE  Base(PerformStop(c), {}) /\ Held(PerformStop(c))
<1>1. /\ {"stopper", "stop"} \cap Live(c) = {} /\ (~c.child => c.launching \in {"none", "validating"})
      /\ c.channel # "open" /\ c.dispatched \subseteq Shutdowns /\ Typed(c)
      /\ c.channel = "closed" => Asking(c) = {}
  BY DEF Base, StopSound, Plumbed, QueueSound
<1>2. \A r \in Resetters : c.reset[r] = "stopping" => r \notin Live(c)
  <2>1. \A r \in Resetters : r \in Asking(c) => c.reset[r] = "off"
    BY DEF Base, Plumbed, QueueSound
  <2>2. \A r \in Resetters : r \notin Ops(c) \cup Waiting(c)
    BY Kinds, Distinct DEF Base
  <2> QED BY <2>1, <2>2 DEF Live
<1>3. CASE ~c.child
  <2> DEFINE d == [c EXCEPT !.timer = "none"]
  <2>1. /\ Base(d, {"stopper"}) /\ Differs(c, d, {"timer"}) /\ d.timer = "none" /\ Live(d) = Live(c)
        /\ d.reset = c.reset
    BY TimerOffSound
  <2>2. PerformStop(c) = EndStop(d, TRUE)
    BY <1>3 DEF PerformStop
  <2> HIDE DEF d
  <2>3. d.stop = c.stop /\ d.launching = c.launching /\ d.child = c.child
    BY <2>1, FieldsOf DEF Differs
  <2>4. /\ {"stopper"} \subseteq {"stopper", "stop"} /\ {"stopper", "stop"} \cap Live(d) = {}
        /\ d.stop # "none" /\ TRUE \in BOOLEAN /\ ~d.child /\ d.timer = "none"
        /\ d.launching \in {"none", "validating"} /\ d.launching \in {"none", "validating", "failed"}
        /\ \A r \in Resetters : d.reset[r] = "stopping" => r \notin Live(d)
    BY <1>1, <1>2, <1>3, <2>1, <2>3
  <2>5. Base(EndStop(d, TRUE), {}) /\ Held(EndStop(d, TRUE))
    BY <2>1, <2>4, EndStopSound
  <2> QED BY <2>2, <2>5
<1>4. CASE c.child
  <2> DEFINE next == IF c.channel = "closed" THEN "exit" ELSE "asked"
             Y == IF c.channel = "closed" THEN {} ELSE {"stop"}
             begun == [c EXCEPT !.timer = "none", !.planned = "shutdown", !.terminating = TRUE, !.shutDown = FALSE,
                                !.dispatched = @ \ {"stop"}]
             e == [begun EXCEPT !.stop = next]
  <2>1. /\ Differs(c, e, StopFields) /\ e.stop = next /\ e.timer = "none" /\ e.planned = "shutdown"
        /\ e.terminating = TRUE /\ e.shutDown = FALSE /\ e.dispatched = c.dispatched \ {"stop"}
    BY <1>1, FieldsOf, ZenonT(40) DEF Typed, IsClient, Differs, StopFields
  <2>2. e.channel = c.channel
    BY <2>1, FieldsOf DEF Differs, StopFields
  <2>3. PerformStop(c) = IF c.channel = "closed" THEN e ELSE RequestShutdown(e, "stop")
    BY <1>4 DEF PerformStop
  <2> HIDE DEF e
  <2>4. e.planned \in Classes \cup {"none", "shutdown"} /\ e.terminating \in BOOLEAN /\ e.shutDown \in BOOLEAN
    BY <2>1
  <2>5. c.sent \in Shutdowns => c.sent \in e.dispatched
    <3>1. c.sent # "stop"
      <4>1. "stop" \notin Asking(c)
        BY <1>1 DEF Live
      <4> QED BY <4>1 DEF Asking
    <3> QED BY <2>1, <3>1 DEF Base, Plumbed, QueueSound
  <2>6. Base(e, Y) /\ Held(e)
    <3>1. /\ c.stop # "none" /\ {"stopper"} \subseteq {"stopper", "stop"} /\ Y \subseteq {"stop"}
          /\ "stop" \in Y => e.stop = "asked"
      BY <2>1
    <3>2. e.stop \in {"asked", "exit", "killed"} /\ (c.terminating => e.terminating)
      BY <2>1
    <3>3. e.dispatched \subseteq c.dispatched /\ "stop" \notin e.dispatched
      BY <2>1
    <3>4. e.stop = "asked" \/ Asking(c) \subseteq Shutdowns
      BY <1>1, <2>1
    <3> HIDE DEF Y, next
    <3> QED BY <1>1, <1>2, <1>4, <2>1, <2>4, <2>5, <3>1, <3>2, <3>3, <3>4, StopSteps
  <2>7. CASE c.channel = "closed"
    BY <2>3, <2>6, <2>7
  <2>8. CASE c.channel # "closed"
    <3>1. "stop" \in Shutdowns \cap Y
      BY <2>8 DEF Shutdowns
    <3>2. Ready(e, Y)
      BY <2>6, BaseReady
    <3>3. Moves(e, RequestShutdown(e, "stop"), Y, Y \ {"stop"})
      BY <1>1, <2>2, <3>1, <3>2, RequestShutdownMoves
    <3>4. Y \ {"stop"} = {}
      BY <2>8
    <3> HIDE DEF Y
    <3> QED BY <2>3, <2>6, <2>8, <3>3, <3>4, MovesSound
  <2> QED BY <2>7, <2>8
<1> QED BY <1>3, <1>4 DEF Base, Typed

\* The shutdown is answered.
LEMMA StopAnsweredSound ==
  ASSUME NEW c, Base(c, {"stop"}), NEW how
  PROVE  Base(StopAnswered(c, how), {}) /\ (Held(c) => Held(StopAnswered(c, how)))
<1> DEFINE H == Live(c) \cup {"stop"}
<1>1. /\ c.stop = "asked" /\ c.timer = "none" /\ "stop" \notin Live(c)
      /\ ("stop" \in c.dispatched => Asking(c) \subseteq Shutdowns)
      /\ ("stop" \in c.dispatched /\ ~c.child => c.launching = "none")
      /\ "stopper" \notin Live(c)
  BY DEF Base, StopSound
<1>2. \A r \in Resetters : c.reset[r] = "stopping" => r \notin Live(c)
  BY <1>1 DEF Base, ResetSound
<1>3. CASE "stop" \notin c.dispatched
  <2>1. \A who \in {"launch", "fresh", "health", "session", "configure", "reconciler", "stopper"} \cup Resetters :
          who \notin {} /\ who \notin {"stop"}
    BY Distinct DEF Shutdowns
  <2>2. ~("intent" \in Live(c) \cup {} /\ "rollback" \in Live(c) \cup {})
    BY DEF Base, ReconcilerSound
  <2>3. Base(c, {})
    BY <1>3, <2>1, <2>2, Retoken
  <2> QED BY <1>3, <2>3 DEF StopAnswered
<1>4. CASE "stop" \in c.dispatched /\ ~c.child
  <2>1. /\ {"stop"} \subseteq {"stopper", "stop"} /\ {"stopper", "stop"} \cap Live(c) = {} /\ c.stop # "none"
        /\ c.launching \in {"none", "validating", "failed"} /\ FALSE \in BOOLEAN
    BY <1>1, <1>4
  <2>2. Base(EndStop(c, FALSE), {}) /\ Held(EndStop(c, FALSE))
    BY <1>2, <2>1, EndStopSound
  <2> QED BY <1>4, <2>2 DEF StopAnswered
<1>5. CASE "stop" \in c.dispatched /\ c.child
  <2> DEFINE e == [c EXCEPT !.stop = "exit", !.shutDown = how = "ok"]
  <2>1. /\ Typed(c) /\ c.terminating \in BOOLEAN /\ c.planned \in Classes \cup {"none", "shutdown"}
        /\ (c.sent \in Shutdowns => c.sent \in c.dispatched)
    BY TypedFields DEF Base, Plumbed, QueueSound
  <2>2. Differs(c, e, {"stop", "shutDown"}) /\ e.stop = "exit" /\ e.shutDown \in BOOLEAN
    BY <2>1, FieldsOf DEF Typed, IsClient, Differs
  <2>3. StopAnswered(c, how) = e
    BY <1>5 DEF StopAnswered
  <2> HIDE DEF e
  <2>4. /\ e.timer = c.timer /\ e.planned = c.planned /\ e.terminating = c.terminating
        /\ e.dispatched = c.dispatched
    BY <2>2, FieldsOf DEF Differs
  <2>5. Differs(c, e, StopFields)
    BY <2>2 DEF Differs, StopFields
  <2>6. /\ c.stop # "none" /\ {"stopper", "stop"} \cap Live(c) = {} /\ {"stop"} \subseteq {"stopper", "stop"}
        /\ {} \subseteq {"stop"} /\ "stop" \notin {}
    BY <1>1
  <2>7. /\ e.stop \in {"asked", "exit", "killed"} /\ e.timer = "none"
        /\ e.planned \in Classes \cup {"none", "shutdown"} /\ e.terminating \in BOOLEAN
        /\ (c.terminating => e.terminating) /\ e.dispatched \subseteq c.dispatched
        /\ (c.sent \in Shutdowns => c.sent \in e.dispatched) /\ e.stop # "asked" /\ Asking(c) \subseteq Shutdowns
    BY <1>1, <1>5, <2>1, <2>2, <2>4
  <2>8. Base(e, {}) /\ Held(e)
    BY <1>2, <1>5, <2>2, <2>5, <2>6, <2>7, StopSteps
  <2> QED BY <2>3, <2>8
<1> QED BY <1>3, <1>4, <1>5

\* The exit that a stop waits for.
LEMMA StopExitedSound ==
  ASSUME NEW c, Base(c, {"stopper"}), c.stop # "begun", NEW how
  PROVE  Base(StopExited(c, how), {}) /\ Held(StopExited(c, how))
<1>1. c.stop \in {"exit", "killed"} /\ ~c.child /\ "stop" \notin Live(c) /\ "stopper" \notin Live(c)
      /\ c.launching = "none" /\ c.timer = "none"
  BY DEF Base, StopSound
<1>2. \A r \in Resetters : c.reset[r] = "stopping" => r \notin Live(c)
  BY <1>1 DEF Base, ResetSound
<1> DEFINE clean == c.shutDown /\ how = "clean" /\ ~c.stopFault
<1>3. /\ {"stopper"} \subseteq {"stopper", "stop"} /\ {"stopper", "stop"} \cap Live(c) = {} /\ c.stop # "none"
      /\ c.launching \in {"none", "validating", "failed"} /\ c.launching \in {"none", "validating"}
  BY <1>1
<1>4. clean \in BOOLEAN
  BY TypedFields DEF Base
<1>5. StopExited(c, how) = EndStop(c, clean)
  BY DEF StopExited
<1> HIDE DEF clean
<1> QED BY <1>1, <1>2, <1>3, <1>4, <1>5, EndStopSound

\* A termination comes to another step, of a helper that runs.
LEMMA TerminationStep ==
  ASSUME NEW c, NEW X, Base(c, X), NEW v \in {"none", "asked", "exit", "killed"}, c.child \/ v = "none"
  PROVE  LET d == [c EXCEPT !.termination = v]
         IN  Base(d, X) /\ (Held(c) => Held(d))
<1> DEFINE d == [c EXCEPT !.termination = v]
           H == Live(c) \cup X
<1>1. /\ LaunchSound(c, H) /\ HealthSound(c, H) /\ ReconcilerSound(c, H) /\ StopSound(c, H)
      /\ ResetSound(c, H) /\ CircuitSound(c) /\ X \cap Live(c) = {} /\ Typed(c) /\ Plumbed(c)
  BY DEF Base
<1>2. Differs(c, d, {"termination"}) /\ d.termination = v
  BY <1>1, FieldsOf DEF Typed, IsClient, Differs
<1> HIDE DEF d
<1>3. /\ d.desired = c.desired /\ d.started = c.started /\ d.child = c.child /\ d.launching = c.launching
      /\ d.health = c.health /\ d.terminating = c.terminating /\ d.dispatched = c.dispatched /\ d.stop = c.stop
      /\ d.timer = c.timer /\ d.crashLoop = c.crashLoop /\ d.probe = c.probe
      /\ d.reset = c.reset /\ d.readiness = c.readiness /\ d.unclean = c.unclean
  BY <1>2, FieldsOf DEF Differs
<1>4. /\ Typed(d) /\ Plumbed(d) /\ Live(d) = Live(c) /\ Asking(d) = Asking(c) /\ Told(d) = Told(c)
      /\ Waiting(d) = Waiting(c) /\ d.channel = c.channel /\ d.jobs = c.jobs /\ Returning(d) = Returning(c)
      /\ d.running = c.running /\ d.operations = c.operations /\ d.waits = c.waits
  <2>1. {"termination"} \in SUBSET Scalars
    BY FieldsOf DEF Scalars
  <2>2. d["termination"] \in Types["termination"]
    BY <1>2, TypesOf
  <2>3. c.sent \in Shutdowns => c.sent \in d.dispatched
    BY <1>1, <1>3 DEF Plumbed, QueueSound
  <2>4. \A field \in {"termination"} \ Loose : d[field] \in Types[field]
    BY <2>2
  <2> QED BY <1>2, <1>3, <2>1, <2>3, <2>4, Changed
<1> HIDE DEF H
<1>5. LaunchSound(d, H) /\ HealthSound(d, H) /\ ReconcilerSound(d, H) /\ CircuitSound(d)
  <2>1. LaunchSound(d, H)
    BY <1>1, <1>3, <1>4 DEF LaunchSound
  <2>2. HealthSound(d, H) /\ ReconcilerSound(d, H)
    BY <1>1, <1>3, <1>4 DEF HealthSound, ReconcilerSound
  <2>3. CircuitSound(d)
    BY <1>1, <1>3 DEF CircuitSound
  <2> QED BY <2>1, <2>2, <2>3
<1>6. StopSound(d, H)
  BY <1>1, <1>2, <1>3, <1>4 DEF StopSound
<1>7. ResetSound(d, H)
  BY <1>1, <1>3 DEF ResetSound, ResetFits
<1>8. Base(d, X)
  BY <1>1, <1>4, <1>5, <1>6, <1>7 DEF Base, H
<1>9. Held(c) => Held(d)
  BY <1>3, <1>4 DEF Held
<1> QED BY <1>8, <1>9 DEF d

\* Nothing but the termination waits for its answer.
LEMMA TerminationForgotten ==
  ASSUME NEW c, Base(c, {"termination"})
  PROVE  Base(c, {})
<1>1. \A who \in {"launch", "fresh", "health", "session", "configure", "reconciler", "stopper"} \cup Resetters :
        who \notin {} /\ who \notin {"termination"}
  BY Distinct DEF Shutdowns
<1>2. ~("intent" \in Live(c) \cup {} /\ "rollback" \in Live(c) \cup {})
  BY DEF Base, ReconcilerSound
<1> QED BY <1>1, <1>2, Retoken

\* The termination is answered.
LEMMA TerminationAnsweredSound ==
  ASSUME NEW c, Base(c, {"termination"})
  PROVE  Base(TerminationAnswered(c), {}) /\ (Held(c) => Held(TerminationAnswered(c)))
<1>1. Base(c, {}) /\ (c.termination # "none" => c.child)
  BY TerminationForgotten DEF Base, StopSound
<1>2. CASE "termination" \notin c.dispatched \/ c.termination = "none"
  BY <1>1, <1>2 DEF TerminationAnswered
<1>3. CASE ~("termination" \notin c.dispatched \/ c.termination = "none")
  BY <1>1, <1>3, TerminationStep DEF TerminationAnswered
<1> QED BY <1>2, <1>3

\* Close keeps a client sound.
LEMMA CloseSound ==
  ASSUME NEW c, NEW X, Base(c, X)
  PROVE  LET d == Close(c)
         IN  /\ Base(d, X) /\ (Held(c) => Held(d)) /\ Differs(c, d, Wires) /\ d.channel = "closed" /\ Asking(d) = {}
             /\ Live(d) \cup X = Live(c) \cup X
<1>1. Moves(c, Close(c), X, X) /\ Close(c).channel = "closed" /\ Asking(Close(c)) = {}
  BY BaseReady, CloseMoves
<1> QED BY <1>1, MovesSound DEF Moves

-----------------------------------------------------------------------------
(* The times of a shutdown                                                 *)

\* Without microtasks nobody is told anything.
LEMMA IdleTold ==
  ASSUME NEW c, c.jobs = <<>>
  PROVE  Told(c) = {} /\ ~Returning(c)
BY DEF Told, Names, Returning

\* The request before the shutdown of a stop has its deadline.
LEMMA StopTimesOutSound ==
  ASSUME NEW c, Base(c, {}), c.jobs = <<>>, c.stop = "asked", "stop" \notin c.dispatched
  PROVE  LET w == Withdraw(c, "stop")
             d == IF ~c.child THEN EndStop(w, FALSE) ELSE [Forget(Close(w)) EXCEPT !.stop = "killed"]
         IN  Base(d, {}) /\ Held(d)
<1> DEFINE w == Withdraw(c, "stop")
           Y == {"stop"} \cap Asking(c)
<1>1. /\ Typed(c) /\ "stopper" \notin Live(c) /\ c.timer = "none" /\ "stop" # c.sent
      /\ \A r \in Resetters : c.reset[r] = "stopping" => r \notin Live(c)
  <2>1. "stop" # c.sent
    BY DEF Base, Plumbed, QueueSound, Shutdowns
  <2> QED BY <2>1 DEF Base, StopSound, ResetSound
<1>2. Moves(c, w, {}, Y) /\ Asking(w) = Asking(c) \ {"stop"}
  <2>1. Ready(c, {})
    BY BaseReady
  <2>2. {} \cup Y = Y
    OBVIOUS
  <2> HIDE DEF Y
  <2>3. Moves(c, w, {}, {} \cup ({"stop"} \cap Asking(c))) /\ Asking(w) = Asking(c) \ {"stop"}
    BY <1>1, <2>1, WithdrawMoves
  <2> QED BY <2>2, <2>3 DEF Y
<1>3. Base(w, Y) /\ Differs(c, w, Wires) /\ Live(w) \cup Y = Live(c)
  BY <1>2, MovesSound DEF Moves
<1>4. "stop" \in Live(c) => "stop" \in Asking(c)
  <2>1. "stop" \notin Ops(c) \cup Waiting(c)
    BY Kinds, Distinct DEF Base, Shutdowns, Requesters
  <2> QED BY <2>1, IdleTold DEF Live
<1>5. "stop" \notin Live(w) /\ Y \subseteq {"stop"}
  BY <1>3, <1>4 DEF Base
<1>6. {"stopper", "stop"} \cap Live(w) = {} /\ {"stopper", "stop"} \cap (Live(w) \cup Y) \subseteq Y
  BY <1>1, <1>3, <1>5
<1> HIDE DEF w, Y
<1>7. w.stop = "asked" /\ w.child = c.child /\ w.reset = c.reset /\ w.launching = c.launching /\ w.timer = "none"
  BY <1>1, <1>3, FieldsOf DEF Differs, Wires
<1>8. \A r \in Resetters : w.reset[r] = "stopping" => r \notin Live(w)
  BY <1>1, <1>3, <1>7
<1>9. CASE ~c.child
  <2>1. w.launching \in {"none", "validating", "failed"} /\ w.stop # "none" /\ Y \subseteq {"stopper", "stop"} /\ FALSE \in BOOLEAN
    BY <1>5, <1>7, <1>9, IdleGone
  <2>2. Base(EndStop(w, FALSE), {}) /\ Held(EndStop(w, FALSE))
    BY <1>3, <1>6, <1>8, <2>1, EndStopSound
  <2> QED BY <1>9, <2>2 DEF w
<1>10. CASE c.child
  <2> DEFINE k == Close(w)
             f == Forget(k)
             e == [f EXCEPT !.stop = "killed"]
  <2>1. Base(k, Y) /\ Differs(w, k, Wires) /\ Live(k) \cup Y = Live(w) \cup Y /\ Asking(k) = {}
    BY <1>3, CloseSound
  <2> HIDE DEF k
  <2>2. Base(f, Y) /\ Quieter(k, f)
    BY <2>1, QuietOperations, QuieterSound DEF Base
  <2> HIDE DEF f
  <2>3. Live(f) = Live(k) /\ Asking(f) = {}
    <3>1. /\ f.channel = k.channel /\ f.sent = k.sent /\ f.queue = k.queue /\ f.jobs = k.jobs
          /\ f.running = k.running /\ f.operations = k.operations /\ f.waits = k.waits
      BY <2>2, QuieterFields
    <3>2. Asking(f) = Asking(k) /\ Told(f) = Told(k) /\ Waiting(f) = Waiting(k) /\ Op(f) = Op(k)
      BY <3>1 DEF Asking, Told, Waiting, Op
    <3>3. Ops(f) = Ops(k)
      BY <3>1, <3>2 DEF Ops
    <3> QED BY <2>1, <3>2, <3>3 DEF Live
  <2>4. /\ f.stop = "asked" /\ f.child /\ f.reset = c.reset /\ f.timer = "none" /\ f.dispatched = k.dispatched
    <3>1. k.stop = "asked" /\ k.child /\ k.reset = c.reset /\ k.timer = "none"
      BY <1>7, <1>10, <2>1, FieldsOf DEF Differs, Wires
    <3> QED BY <2>2, <3>1, QuieterFields
  <2>5. Typed(f) /\ f.terminating \in BOOLEAN /\ f.planned \in Classes \cup {"none", "shutdown"} /\ f.shutDown \in BOOLEAN
    BY <2>2, TypedFields DEF Base
  <2>6. Differs(f, e, {"stop"}) /\ e.stop = "killed"
    BY <2>5, FieldsOf DEF Typed, IsClient, Differs
  <2> HIDE DEF e
  <2>7. /\ e.timer = f.timer /\ e.planned = f.planned /\ e.terminating = f.terminating
        /\ e.dispatched = f.dispatched /\ e.shutDown = f.shutDown
    BY <2>6, FieldsOf DEF Differs
  <2>8. /\ {"stopper", "stop"} \cap Live(f) = {} /\ \A r \in Resetters : f.reset[r] = "stopping" => r \notin Live(f)
    <3>1. Y \cap Live(f) = {} /\ Live(f) \cup Y = Live(c)
      BY <1>3, <2>1, <2>2, <2>3 DEF Base
    <3>2. "stop" \notin Live(f)
      BY <1>4, <3>1 DEF Y
    <3> QED BY <1>1, <2>4, <3>1, <3>2
  <2>9. /\ f.stop # "none" /\ Y \subseteq {"stopper", "stop"} /\ {} \subseteq {"stop"} /\ "stop" \notin {}
        /\ Differs(f, e, StopFields) /\ e.stop \in {"asked", "exit", "killed"} /\ e.stop # "asked"
    BY <1>5, <2>4, <2>6 DEF StopFields, Differs
  <2>10. /\ e.timer = "none" /\ e.planned \in Classes \cup {"none", "shutdown"} /\ e.terminating \in BOOLEAN
         /\ e.shutDown \in BOOLEAN /\ (f.terminating => e.terminating) /\ e.dispatched \subseteq f.dispatched
         /\ (f.sent \in Shutdowns => f.sent \in e.dispatched) /\ Asking(f) \subseteq Shutdowns
    BY <2>2, <2>3, <2>4, <2>5, <2>7 DEF Base, Plumbed, QueueSound
  <2>11. Base(e, {}) /\ Held(e)
    BY <2>2, <2>4, <2>8, <2>9, <2>10, StopSteps
  <2> QED BY <1>10, <2>11 DEF e, f, k, w
<1> QED BY <1>9, <1>10, <1>1, TypedFields

\* So has the one before the shutdown of a termination.
LEMMA TerminationTimesOutSound ==
  ASSUME NEW c, Base(c, {}), c.termination = "asked", "termination" \notin c.dispatched
  PROVE  LET d == [Close(Withdraw(c, "termination")) EXCEPT !.termination = "killed"]
         IN  Base(d, {}) /\ (Held(c) => Held(d))
<1> DEFINE w == Withdraw(c, "termination")
           k == Close(w)
           Y == {"termination"} \cap Asking(c)
<1>1. c.child /\ "termination" # c.sent
  <2>1. "termination" # c.sent
    BY DEF Base, Plumbed, QueueSound, Shutdowns
  <2> QED BY <2>1 DEF Base, StopSound
<1>2. Moves(c, w, {}, Y)
  <2>1. Ready(c, {})
    BY BaseReady
  <2>2. {} \cup Y = Y
    OBVIOUS
  <2> HIDE DEF Y
  <2>3. Moves(c, w, {}, {} \cup ({"termination"} \cap Asking(c)))
    BY <1>1, <2>1, WithdrawMoves
  <2> QED BY <2>2, <2>3 DEF Y
<1>3. Base(w, Y) /\ (Held(c) => Held(w)) /\ Differs(c, w, Wires)
  BY <1>2, MovesSound DEF Moves
<1> HIDE DEF w
<1>4. Base(k, Y) /\ (Held(c) => Held(k)) /\ Differs(w, k, Wires)
  BY <1>3, CloseSound
<1> HIDE DEF k
<1>5. k.child
  BY <1>1, <1>3, <1>4, FieldsOf DEF Differs, Wires
<1>6. Base(k, {})
  <2>1. Y = {} \/ Y = {"termination"}
    OBVIOUS
  <2> QED BY <1>4, <2>1, TerminationForgotten
<1>7. LET d == [k EXCEPT !.termination = "killed"] IN Base(d, {}) /\ (Held(k) => Held(d))
  BY <1>5, <1>6, TerminationStep
<1> QED BY <1>4, <1>7 DEF k, w

\* The helper that a stop waits for is killed.
LEMMA KilledSound ==
  ASSUME NEW c, Base(c, {}), c.jobs = <<>>, c.stop = "exit"
  PROVE  LET d == [Forget(Close(c)) EXCEPT !.stop = "killed"]
         IN  Base(d, {}) /\ Held(d)
<1> DEFINE k == Close(c)
           f == Forget(k)
           e == [f EXCEPT !.stop = "killed"]
<1>1. c.child /\ c.timer = "none"
  <2>1. c.child
    BY IdleGone
  <2> QED BY <2>1 DEF Base, StopSound
<1>2. /\ {"stopper", "stop"} \cap Live(c) = {} /\ \A r \in Resetters : c.reset[r] = "stopping" => r \notin Live(c)
  <2>1. "stop" \notin Live(c) /\ "stopper" \notin Live(c)
    BY <1>1 DEF Base, StopSound
  <2>2. \A r \in Resetters : c.reset[r] = "stopping" => r \notin Live(c)
    BY DEF Base, ResetSound
  <2> QED BY <2>1, <2>2
<1>3. Base(k, {}) /\ Differs(c, k, Wires) /\ Live(k) \cup {} = Live(c) \cup {} /\ Asking(k) = {}
  BY CloseSound
<1> HIDE DEF k
<1>4. Base(f, {}) /\ Quieter(k, f)
  BY <1>3, QuietOperations, QuieterSound DEF Base
<1> HIDE DEF f
<1>5. Live(f) = Live(c) /\ Asking(f) = {}
  <2>1. /\ f.channel = k.channel /\ f.sent = k.sent /\ f.queue = k.queue /\ f.jobs = k.jobs
        /\ f.running = k.running /\ f.operations = k.operations /\ f.waits = k.waits
    BY <1>4, QuieterFields
  <2>2. Asking(f) = Asking(k) /\ Told(f) = Told(k) /\ Waiting(f) = Waiting(k) /\ Op(f) = Op(k)
    BY <2>1 DEF Asking, Told, Waiting, Op
  <2>3. Ops(f) = Ops(k)
    BY <2>1, <2>2 DEF Ops
  <2> QED BY <1>3, <2>2, <2>3 DEF Live
<1>6. /\ f.stop = "exit" /\ f.child /\ f.reset = c.reset /\ f.timer = "none"
  <2>1. k.stop = "exit" /\ k.child /\ k.reset = c.reset /\ k.timer = "none"
    BY <1>1, <1>3, FieldsOf DEF Differs, Wires
  <2> QED BY <1>4, <2>1, QuieterFields
<1>7. Typed(f) /\ f.terminating \in BOOLEAN /\ f.planned \in Classes \cup {"none", "shutdown"} /\ f.shutDown \in BOOLEAN
  BY <1>4, TypedFields DEF Base
<1>8. Differs(f, e, {"stop"}) /\ e.stop = "killed"
  BY <1>7, FieldsOf DEF Typed, IsClient, Differs
<1> HIDE DEF e
<1>9. /\ e.timer = f.timer /\ e.planned = f.planned /\ e.terminating = f.terminating
      /\ e.dispatched = f.dispatched /\ e.shutDown = f.shutDown
  BY <1>8, FieldsOf DEF Differs
<1>10. /\ {"stopper", "stop"} \cap Live(f) = {} /\ \A r \in Resetters : f.reset[r] = "stopping" => r \notin Live(f)
  BY <1>2, <1>5, <1>6
<1>11. /\ f.stop # "none" /\ {} \subseteq {"stopper", "stop"} /\ {} \subseteq {"stop"} /\ "stop" \notin {}
       /\ Differs(f, e, StopFields) /\ e.stop \in {"asked", "exit", "killed"} /\ e.stop # "asked"
  BY <1>6, <1>8 DEF StopFields, Differs
<1>12. /\ e.timer = "none" /\ e.planned \in Classes \cup {"none", "shutdown"} /\ e.terminating \in BOOLEAN
       /\ e.shutDown \in BOOLEAN /\ (f.terminating => e.terminating) /\ e.dispatched \subseteq f.dispatched
       /\ (f.sent \in Shutdowns => f.sent \in e.dispatched) /\ Asking(f) \subseteq Shutdowns
  BY <1>4, <1>5, <1>6, <1>7, <1>9 DEF Base, Plumbed, QueueSound
<1>13. Base(e, {}) /\ Held(e)
  BY <1>4, <1>6, <1>10, <1>11, <1>12, StopSteps
<1> QED BY <1>13 DEF e, f, k

\* So is the one that a termination waits for.
LEMMA TerminationKilledSound ==
  ASSUME NEW c, Base(c, {}), c.termination = "exit"
  PROVE  LET d == [Close(c) EXCEPT !.termination = "killed"]
         IN  Base(d, {}) /\ (Held(c) => Held(d))
<1> DEFINE k == Close(c)
<1>1. c.child
  BY DEF Base, StopSound
<1>2. Base(k, {}) /\ (Held(c) => Held(k)) /\ Differs(c, k, Wires)
  BY CloseSound
<1> HIDE DEF k
<1>3. k.child
  BY <1>1, <1>2, FieldsOf DEF Differs, Wires
<1>4. LET d == [k EXCEPT !.termination = "killed"] IN Base(d, {}) /\ (Held(k) => Held(d))
  BY <1>2, <1>3, TerminationStep
<1> QED BY <1>2, <1>4 DEF k

\* The helper outlives its termination.
LEMMA TerminationStuckSound ==
  ASSUME NEW c, Base(c, {}), c.termination = "killed"
  PROVE  LET d == [Publish(c, "stuck") EXCEPT !.termination = "none"]
         IN  Base(d, {}) /\ (Held(c) => Held(d))
<1> DEFINE k == Publish(c, "stuck")
<1>1. c.child
  BY DEF Base, StopSound
<1>2. "stuck" \in Readiness \ {"stopped"}
  BY DEF Readiness
<1>3. Base(k, {}) /\ (Held(c) => Held(k))
  BY <1>1, <1>2, PublishSound
<1> HIDE DEF k
<1>4. LET d == [k EXCEPT !.termination = "none"] IN Base(d, {}) /\ (Held(k) => Held(d))
  BY <1>3, TerminationStep
<1> QED BY <1>3, <1>4 DEF k

\* Where only a shutdown is asked for, no launch waits for an answer, and no
\* refresh of the health goes on.
LEMMA ShutdownsOnly ==
  ASSUME NEW c, Base(c, {}), c.jobs = <<>>, Asking(c) \subseteq Shutdowns
  PROVE  Ops(c) = {} /\ c.health = "none" /\ c.launching \in {"none", "validating", "failed"}
<1> DEFINE H == Live(c) \cup {}
<1>1. H = Asking(c) \cup Ops(c) \cup Waiting(c)
  BY IdleTold DEF Live
<1>2. Ops(c) \subseteq Operations /\ Waiting(c) \subseteq {"launch", "fault"}
  BY Kinds DEF Base
<1>3. LaunchSound(c, H) /\ HealthSound(c, H) /\ ReconcilerSound(c, H) /\ Typed(c)
  BY DEF Base
<1>5. "configure" \notin H /\ "reconciler" \notin H
  BY <1>1, <1>2, Distinct DEF Shutdowns, Requesters
<1>12. "health" \notin H
  BY <1>1, <1>2, Distinct DEF Shutdowns, Operations
<1> HIDE DEF H
<1>6. c.running = "none" /\ c.operations = <<>>
  BY <1>3, <1>5 DEF ReconcilerSound
<1>7. Ops(c) = {}
  BY <1>6 DEF Ops, Op, ToSet
<1>8. "fresh" \notin H /\ "session" \notin H
  BY <1>1, <1>2, <1>7, Distinct DEF Shutdowns
<1>9. c.launching # "activation" /\ c.health # "fresh"
  BY <1>3, <1>8 DEF LaunchSound
<1>10. "launch" \in H => "launch" \in Waiting(c)
  BY <1>1, <1>7 DEF Shutdowns
<1>11. c.launching \notin {"initialize", "snapshot", "off"}
  BY <1>3, <1>10 DEF LaunchSound
<1>13. c.health = "none"
  BY <1>3, <1>8, <1>9, <1>12, TypedFields DEF HealthSound
<1> QED BY <1>3, <1>7, <1>9, <1>11, <1>13, TypedFields

\* The helper outlives its stop, which ends uncleanly.
LEMMA KillGivenUp ==
  ASSUME NEW c, Base(c, {}), c.jobs = <<>>, c.stop = "killed"
  PROVE  Base(EndStop(c, FALSE), {}) /\ Held(EndStop(c, FALSE))
<1>1. c.child
  BY IdleGone
<1>2. /\ {"stopper", "stop"} \cap Live(c) = {} /\ \A r \in Resetters : c.reset[r] = "stopping" => r \notin Live(c)
  <2>1. "stop" \notin Live(c) /\ "stopper" \notin Live(c)
    BY <1>1 DEF Base, StopSound
  <2>2. \A r \in Resetters : c.reset[r] = "stopping" => r \notin Live(c)
    BY DEF Base, ResetSound
  <2> QED BY <2>1, <2>2
<1>3. c.launching \in {"none", "validating", "failed"} /\ c.stop # "none" /\ FALSE \in BOOLEAN
      /\ {} \subseteq {"stopper", "stop"}
  BY ShutdownsOnly DEF Base, StopSound
<1> QED BY <1>2, <1>3, EndStopSound

-----------------------------------------------------------------------------
(* Resetting                                                               *)

\* What Held says of a client that no longer wants a helper.
Freed(c) ==
  c.stop = "none" /\ ~c.desired => c.launching \in {"none", "validating", "failed"} /\ (c.child => c.unclean)

\* The stages that a reset may come to, where its resetter is not among H.
StageFits(c, H, r, stage) ==
  /\ r \in H => stage # "none"
  /\ stage = "stopping" =>
       IF r \in H
       THEN /\ c.launching \in {"none", "validating", "failed"}
            /\ c.stop = "none" \/ (c.stop = "begun" /\ ~c.desired)
       ELSE c.stop # "none"
  /\ stage = "starting" => IF r \in H THEN c.launching \in {"none", "validating"} ELSE c.launching # "none"
  /\ stage = "off" => r \in H

\* A reset at another stage, and the rest as it was.
LEMMA ResetAtFields ==
  ASSUME NEW c, NEW X, Base(c, X), NEW r \in Resetters, r \notin Live(c),
         NEW stage \in {"none", "stopping", "starting", "off"}
  PROVE  LET d == ResetAt(c, r, stage)
         IN  /\ Typed(d) /\ Plumbed(d) /\ Live(d) = Live(c) /\ Asking(d) = Asking(c) /\ Told(d) = Told(c)
             /\ Waiting(d) = Waiting(c) /\ d.channel = c.channel /\ d.jobs = c.jobs /\ Returning(d) = Returning(c)
             /\ d.running = c.running /\ d.operations = c.operations /\ d.waits = c.waits
             /\ Differs(c, d, {"reset"}) /\ d.reset[r] = stage /\ \A q \in Resetters \ {r} : d.reset[q] = c.reset[q]
<1> DEFINE d == ResetAt(c, r, stage)
<1>1. Typed(c) /\ Plumbed(c) /\ c.reset \in [Resetters -> {"none", "stopping", "starting", "off"}]
  BY TypedFields DEF Base
<1>2. Differs(c, d, {"reset"}) /\ d.reset = [c.reset EXCEPT ![r] = stage]
  BY <1>1, FieldsOf DEF Typed, IsClient, Differs, ResetAt
<1>3. /\ d.reset[r] = stage /\ (\A q \in Resetters \ {r} : d.reset[q] = c.reset[q])
      /\ d.reset \in [Resetters -> {"none", "stopping", "starting", "off"}]
  BY <1>1, <1>2
<1> HIDE DEF d
<1>4. {"reset"} \in SUBSET Scalars /\ \A field \in {"reset"} \ Loose : d[field] \in Types[field]
  <2>1. d["reset"] \in Types["reset"]
    BY <1>3, TypesOf
  <2> QED BY <2>1, FieldsOf DEF Scalars
<1>5. d.dispatched = c.dispatched
  BY <1>2, FieldsOf DEF Differs
<1>6. c.sent \in Shutdowns => c.sent \in d.dispatched
  BY <1>1, <1>5 DEF Plumbed, QueueSound
<1>7. \A q \in Resetters \cap (Asking(c) \cup Told(c)) : d.reset[q] = c.reset[q]
  BY <1>3 DEF Live
<1>8. /\ Typed(d) /\ Plumbed(d) /\ Live(d) = Live(c) /\ Asking(d) = Asking(c) /\ Told(d) = Told(c)
      /\ Waiting(d) = Waiting(c) /\ d.channel = c.channel /\ d.jobs = c.jobs /\ Returning(d) = Returning(c)
      /\ d.running = c.running /\ d.operations = c.operations /\ d.waits = c.waits
  BY <1>2, <1>4, <1>5, <1>6, <1>7, Changed
<1> QED BY <1>2, <1>3, <1>8 DEF d

\* A reset at a stage that fits.
LEMMA ResetAtSound ==
  ASSUME NEW c, NEW X, NEW Y, Base(c, X), NEW r \in Resetters, r \notin Live(c), X \subseteq {r}, Y \subseteq {r},
         NEW stage \in {"none", "stopping", "starting", "off"}, StageFits(c, Live(c) \cup Y, r, stage),
         c.stop # "none" /\ c.desired /\ c.reset[r] = "stopping" => stage = "stopping"
  PROVE  LET d == ResetAt(c, r, stage) IN Base(d, Y) /\ (Held(c) => Held(d)) /\ (Freed(c) => Freed(d))
<1> DEFINE d == ResetAt(c, r, stage)
           H == Live(c) \cup X
           G == Live(d) \cup Y
<1>1. /\ LaunchSound(c, H) /\ HealthSound(c, H) /\ ReconcilerSound(c, H) /\ StopSound(c, H)
      /\ ResetSound(c, H) /\ CircuitSound(c) /\ X \cap Live(c) = {} /\ Typed(c) /\ Plumbed(c)
  BY DEF Base
<1>2. /\ Typed(d) /\ Plumbed(d) /\ Live(d) = Live(c) /\ Asking(d) = Asking(c) /\ Told(d) = Told(c)
      /\ Waiting(d) = Waiting(c) /\ d.channel = c.channel /\ d.jobs = c.jobs /\ Returning(d) = Returning(c)
      /\ d.running = c.running /\ d.operations = c.operations /\ d.waits = c.waits
      /\ Differs(c, d, {"reset"}) /\ d.reset[r] = stage /\ \A q \in Resetters \ {r} : d.reset[q] = c.reset[q]
  BY ResetAtFields
<1>3. StageFits(c, G, r, stage)
  BY <1>2
<1> HIDE DEF d
<1>4. /\ d.desired = c.desired /\ d.started = c.started /\ d.child = c.child /\ d.launching = c.launching
      /\ d.health = c.health /\ d.terminating = c.terminating /\ d.dispatched = c.dispatched /\ d.stop = c.stop
      /\ d.timer = c.timer /\ d.crashLoop = c.crashLoop /\ d.probe = c.probe /\ d.termination = c.termination
      /\ d.readiness = c.readiness /\ d.unclean = c.unclean
  BY <1>2, FieldsOf DEF Differs
<1>5. \A w \in {"launch", "fresh", "health", "session", "configure", "reconciler", "intent", "rollback",
                "stopper", "stop", "termination"} : w \in G <=> w \in H
  <2>1. \A w \in {"launch", "fresh", "health", "session", "configure", "reconciler", "intent", "rollback",
                  "stopper", "stop", "termination"} : w # r
    BY Distinct DEF Shutdowns, Operations
  <2> QED BY <1>2, <2>1
<1>6. \A q \in Resetters \ {r} : q \in G <=> q \in H
  BY <1>2
<1>7. /\ Y \cap Live(d) = {}
      /\ H \subseteq {"stopper", "stop", "termination"} \cup Resetters
           => G \subseteq {"stopper", "stop", "termination"} \cup Resetters
  BY <1>2
<1> HIDE DEF G, H
<1>8. LaunchSound(d, G) /\ HealthSound(d, G) /\ ReconcilerSound(d, G) /\ CircuitSound(d)
  <2>1. LaunchSound(d, G)
    BY <1>1, <1>2, <1>4, <1>5 DEF LaunchSound
  <2>2. HealthSound(d, G) /\ ReconcilerSound(d, G)
    BY <1>1, <1>2, <1>4, <1>5 DEF HealthSound, ReconcilerSound
  <2>3. CircuitSound(d)
    BY <1>1, <1>4 DEF CircuitSound
  <2> QED BY <2>1, <2>2, <2>3
<1>9. StopSound(d, G)
  <2>1. d.stop # "none" /\ d.desired => \E q \in Resetters : d.reset[q] = "stopping"
    <3> SUFFICES ASSUME d.stop # "none", d.desired PROVE \E q \in Resetters : d.reset[q] = "stopping"
      OBVIOUS
    <3>1. PICK q \in Resetters : c.reset[q] = "stopping"
      BY <1>1, <1>4 DEF StopSound
    <3>2. d.reset[q] = "stopping"
      BY <1>2, <1>4, <3>1
    <3> QED BY <3>2
  <2> QED BY <1>1, <1>2, <1>4, <1>5, <1>7, <2>1 DEF StopSound
<1>10. ResetSound(d, G)
  <2> SUFFICES ASSUME NEW q \in Resetters
               PROVE  /\ ResetFits(d, G, q)
                      /\ d.reset[q] = "stopping" =>
                           IF q \in G THEN d.stop = "none" \/ (d.stop = "begun" /\ ~d.desired) ELSE d.stop # "none"
    BY DEF ResetSound
  <2>1. CASE q = r
    BY <1>2, <1>3, <1>4, <2>1 DEF StageFits, ResetFits
  <2>2. CASE q # r
    BY <1>1, <1>2, <1>4, <1>6, <2>2 DEF ResetSound, ResetFits
  <2> QED BY <2>1, <2>2
<1>11. Base(d, Y)
  BY <1>2, <1>7, <1>8, <1>9, <1>10 DEF Base, G
<1>12. (Held(c) => Held(d)) /\ (Freed(c) => Freed(d))
  BY <1>2, <1>4 DEF Held, Freed
<1> QED BY <1>11, <1>12 DEF d

\* A reset is over.
LEMMA ResetEnds ==
  ASSUME NEW c, NEW r \in Resetters, Base(c, {r})
  PROVE  LET d == ResetAt(c, r, "none") IN Base(d, {}) /\ (Held(c) => Held(d)) /\ (Freed(c) => Freed(d))
<1>1. r \notin Live(c)
  BY DEF Base
<1>2. c.reset[r] = "stopping" => c.stop = "none" \/ ~c.desired
  BY DEF Base, ResetSound
<1>3. StageFits(c, Live(c) \cup {}, r, "none")
  BY <1>1 DEF StageFits
<1> QED BY <1>1, <1>2, <1>3, ResetAtSound

\* A helper that is gone has no launch that failed.
LEMMA GoneNotFailed ==
  ASSUME NEW c, NEW X, Base(c, X), "launch" \notin X, c.launching = "failed"
  PROVE  c.child
<1>1. "launch" \in Live(c) /\ "launch" \notin Asking(c) \cup Told(c)
  BY DEF Base, LaunchSound
<1>2. "launch" \notin Ops(c)
  BY Kinds, Distinct DEF Base
<1>3. "launch" \in Waiting(c)
  BY <1>1, <1>2 DEF Live
<1>4. c.waits # <<>>
  BY <1>3 DEF Waiting, Names
<1> QED BY <1>4 DEF Base, LaunchSound

\* A reset fails, and stops a helper that is no longer wanted.
LEMMA ResetFailsSound ==
  ASSUME NEW c, NEW r \in Resetters, Base(c, {r}), Freed(c), Held(c) \/ ~c.desired
  PROVE  Base(ResetFails(c, r), {}) /\ Held(ResetFails(c, r))
<1> DEFINE over == ResetAt(c, r, "none")
<1>1. Base(over, {}) /\ (Held(c) => Held(over)) /\ (Freed(c) => Freed(over))
  BY ResetEnds
<1>2. over.desired = c.desired /\ over.stop = c.stop
  <2>1. r \notin Live(c) /\ "none" \in {"none", "stopping", "starting", "off"}
    BY DEF Base
  <2>2. Differs(c, over, {"reset"})
    BY <2>1, ResetAtFields
  <2> HIDE DEF over
  <2> QED BY <2>2, FieldsOf DEF Differs
<1>3. ResetFails(c, r) = IF c.desired THEN over ELSE StopCurrentProcess(over)
  BY DEF ResetFails
<1> HIDE DEF over
<1>4. CASE c.desired
  BY <1>1, <1>3, <1>4
<1>5. CASE ~c.desired /\ c.stop = "none"
  <2>1. ~over.child => over.launching \in {"none", "validating"}
    <3>1. over.launching = "failed" => over.child
      BY <1>1, GoneNotFailed
    <3> QED BY <1>1, <1>2, <1>5, <3>1 DEF Freed
  <2>2. Base(StopCurrentProcess(over), {}) /\ Held(StopCurrentProcess(over))
    BY <1>1, <1>2, <1>5, <2>1, StopSoundly
  <2> QED BY <1>3, <1>5, <2>2
<1>6. CASE ~c.desired /\ c.stop # "none"
  <2>1. StopCurrentProcess(over) = over /\ Held(over)
    BY <1>2, <1>6 DEF StopCurrentProcess, Held
  <2> QED BY <1>1, <1>3, <1>6, <2>1
<1> QED BY <1>4, <1>5, <1>6

\* The helper of a reset has stopped, and is started again.
LEMMA ResetStoppedSound ==
  ASSUME NEW c, NEW r \in Resetters, Base(c, {r}), Freed(c), c.reset[r] = "stopping"
  PROVE  Base(ResetStopped(c, r), {}) /\ Held(ResetStopped(c, r))
<1>1. CASE ~c.desired \/ c.child
  <2>1. Held(c) \/ ~c.desired
    <3>1. c.child /\ c.desired => Held(c)
      BY DEF Held
    <3> QED BY <1>1, <3>1, TypedFields DEF Base
  <2>2. Base(ResetFails(c, r), {}) /\ Held(ResetFails(c, r))
    BY <2>1, ResetFailsSound
  <2> QED BY <1>1, <2>2 DEF ResetStopped
<1>2. CASE c.desired /\ ~c.child
  <2> DEFINE s == ResetAt(c, r, "starting")
             started == StartForIntent(s)
  <2>1. c.stop = "none" /\ c.launching \in {"none", "validating", "failed"} /\ r \notin Live(c)
    BY <1>2 DEF Base, ResetSound, ResetFits
  <2>2. c.launching \in {"none", "validating"}
    <3>1. "launch" # r
      BY Distinct
    <3> QED BY <1>2, <2>1, <3>1, GoneNotFailed
  <2>3. Differs(c, s, {"reset"}) /\ s.reset[r] = "starting"
    BY <2>1, ResetAtFields
  <2>4. StageFits(c, Live(c) \cup {r}, r, "starting")
    BY <2>2 DEF StageFits
  <2>5. Base(s, {r})
    BY <2>1, <2>4, ResetAtSound
  <2>6. c.launching # "none" => Base(s, {})
    <3>1. c.launching # "none" => StageFits(c, Live(c) \cup {}, r, "starting")
      BY <2>1 DEF StageFits
    <3> QED BY <2>1, <3>1, ResetAtSound
  <2>7. ResetStopped(c, r) = IF started.launching = "none" THEN Settle(started, r, "launched") ELSE started
    BY <1>2 DEF ResetStopped
  <2>8. started = IF s.launching = "none" /\ s.desired /\ ~s.child THEN Launch(s) ELSE s
    BY DEF StartForIntent
  <2> HIDE DEF started, s
  <2>9. s.launching = c.launching /\ s.desired /\ ~s.child /\ s.stop = "none" /\ s.reset = s.reset
    BY <1>2, <2>1, <2>3, FieldsOf DEF Differs
  <2>10. CASE c.launching = "none"
    <3>1. started = Launch(s)
      BY <2>8, <2>9, <2>10
    <3>2. /\ Base(started, {r}) /\ Held(started) /\ started.launching = "validating"
          /\ Differs(s, started, {"readiness", "launching", "probe", "unclean"})
      BY <2>5, <2>9, <2>10, <3>1, LaunchSoundly
    <3>3. started.reset = s.reset
      BY <3>2, FieldsOf DEF Differs
    <3>4. Base(started, {})
      <4>1. r \notin Live(started) /\ ResetAt(started, r, "starting") = started
        <5>1. Typed(started) /\ started.reset \in [Resetters -> {"none", "stopping", "starting", "off"}]
          BY <3>2, TypedFields DEF Base
        <5>2. started.reset = [started.reset EXCEPT ![r] = "starting"]
          BY <2>3, <3>3, <5>1
        <5>3. started = [started EXCEPT !.reset[r] = "starting"]
          BY <5>1, <5>2, FieldsOf DEF Typed, IsClient
        <5> QED BY <3>2, <5>3 DEF Base, ResetAt
      <4>2. StageFits(started, Live(started) \cup {}, r, "starting")
        BY <3>2, <4>1 DEF StageFits
      <4>3. started.reset[r] = "starting"
        BY <2>3, <3>3
      <4>4. LET d == ResetAt(started, r, "starting") IN Base(d, {})
        BY <3>2, <4>1, <4>2, <4>3, ResetAtSound
      <4> QED BY <4>1, <4>4
    <3> QED BY <2>7, <3>2, <3>4
  <2>11. CASE c.launching = "validating"
    <3>1. started = s
      BY <2>8, <2>9, <2>11
    <3>2. Held(s)
      BY <2>5, <2>9, <2>11, HeldLaunching
    <3> QED BY <2>6, <2>7, <2>9, <2>11, <3>1, <3>2
  <2> QED BY <2>2, <2>10, <2>11
<1> QED BY <1>1, <1>2, TypedFields DEF Base

\* The helper of a reset was started, and its capture is turned off.
LEMMA ResetLaunchedSound ==
  ASSUME NEW c, NEW r \in Resetters, Base(c, {r}), Freed(c), Held(c), c.reset[r] = "starting"
  PROVE  Base(ResetLaunched(c, r), {}) /\ Held(ResetLaunched(c, r))
<1>1. CASE ~c.desired \/ c.readiness # "ready" \/ ~OrdinaryRequestsAvailable(c)
  BY <1>1, ResetFailsSound DEF ResetLaunched
<1>2. CASE ~(~c.desired \/ c.readiness # "ready" \/ ~OrdinaryRequestsAvailable(c))
  <2> DEFINE d == ResetAt(c, r, "off")
  <2>1. r \notin Live(c) /\ StageFits(c, Live(c) \cup {r}, r, "off")
    BY DEF Base, StageFits
  <2>2. Base(d, {r}) /\ Held(d)
    BY <2>1, ResetAtSound
  <2>3. d.reset[r] = "off"
    BY <2>1, ResetAtFields
  <2>4. ResetLaunched(c, r) = Request(d, r)
    BY <1>2 DEF ResetLaunched
  <2> HIDE DEF d
  <2>5. r \in Requesters \cap {r} /\ r \notin Shutdowns /\ r # "launch"
    BY Distinct DEF Requesters
  <2>6. {r} \ {r} = {}
    OBVIOUS
  <2>7. Base(Request(d, r), {r} \ {r}) /\ Held(Request(d, r))
    BY <2>2, <2>3, <2>5, RequestSound
  <2> QED BY <2>4, <2>6, <2>7
<1> QED BY <1>1, <1>2

\* Whatever a reset is told, it goes on or ends.
LEMMA ResetContinuesSound ==
  ASSUME NEW c, NEW r \in Resetters, Base(c, {r}), Freed(c), NEW how,
         Held(c) \/ (c.reset[r] = "stopping" /\ how = "stopped")
  PROVE  Base(ResetContinues(c, r, how), {}) /\ Held(ResetContinues(c, r, how))
<1>1. CASE c.reset[r] = "stopping"
  BY <1>1, ResetStoppedSound, ResetFailsSound DEF ResetContinues
<1>2. CASE c.reset[r] = "starting"
  BY <1>2, ResetLaunchedSound DEF ResetContinues
<1>3. CASE c.reset[r] \notin {"stopping", "starting"}
  BY <1>3, ResetEnds, ResetFailsSound DEF ResetContinues
<1> QED BY <1>1, <1>2, <1>3

\* A reset begins.
LEMMA ResetBegins ==
  ASSUME NEW c, NEW r \in Resetters, Base(c, {}), c.jobs = <<>>, c.reset[r] = "none", c.desired
  PROVE  LET d == StopCurrentProcess(ResetAt(c, r, "stopping")) IN Base(d, {}) /\ Held(d)
<1> DEFINE s == ResetAt(c, r, "stopping")
           H == Live(c) \cup {}
<1>1. /\ LaunchSound(c, H) /\ HealthSound(c, H) /\ ReconcilerSound(c, H) /\ StopSound(c, H)
      /\ ResetSound(c, H) /\ CircuitSound(c) /\ Typed(c) /\ Plumbed(c)
  BY DEF Base
<1>2. r \notin Live(c)
  BY <1>1 DEF ResetSound, ResetFits
<1>3. /\ Typed(s) /\ Plumbed(s) /\ Live(s) = Live(c) /\ Asking(s) = Asking(c) /\ Told(s) = Told(c)
      /\ Waiting(s) = Waiting(c) /\ s.channel = c.channel /\ s.jobs = c.jobs /\ Returning(s) = Returning(c)
      /\ s.running = c.running /\ s.operations = c.operations /\ s.waits = c.waits
      /\ Differs(c, s, {"reset"}) /\ s.reset[r] = "stopping" /\ \A q \in Resetters \ {r} : s.reset[q] = c.reset[q]
  BY <1>2, ResetAtFields
<1>4. CASE c.stop # "none"
  <2>1. StageFits(c, Live(c) \cup {}, r, "stopping")
    BY <1>2, <1>4 DEF StageFits
  <2>2. Base(s, {})
    <3>1. {} \subseteq {r} /\ "stopping" \in {"none", "stopping", "starting", "off"}
      OBVIOUS
    <3>2. ASSUME NEW X, X \subseteq {r}, Base(c, X)
          PROVE  Base(ResetAt(c, r, "stopping"), {})
      BY <1>2, <2>1, <3>1, <3>2, ResetAtSound
    <3> QED BY <3>1, <3>2
  <2> HIDE DEF s
  <2>3. s.stop # "none"
    BY <1>3, <1>4, FieldsOf DEF Differs
  <2>4. StopCurrentProcess(s) = s /\ Held(s)
    BY <2>3 DEF StopCurrentProcess, Held
  <2> QED BY <2>2, <2>4 DEF s
<1>5. CASE c.stop = "none"
  <2>0. ~c.child => c.launching \in {"none", "validating"}
    BY IdleGone
  <2> HIDE DEF s
  <2>1. /\ s.desired = c.desired /\ s.started = c.started /\ s.child = c.child /\ s.launching = c.launching
        /\ s.health = c.health /\ s.terminating = c.terminating /\ s.dispatched = c.dispatched /\ s.stop = c.stop
        /\ s.timer = c.timer /\ s.crashLoop = c.crashLoop /\ s.probe = c.probe /\ s.termination = c.termination
        /\ s.readiness = c.readiness
    BY <1>3, FieldsOf DEF Differs
  <2>2. H = Live(s) \cup {}
    BY <1>3
  <2>3. \A q \in Resetters : q \in H => c.reset[q] = "off"
    <3>1. Told(c) = {}
      BY IdleTold
    <3>2. \A q \in Resetters : q \notin Ops(c) \cup Waiting(c)
      BY <1>1, Kinds, Distinct
    <3> QED BY <1>1, <3>1, <3>2 DEF Plumbed, QueueSound, Live
  <2> HIDE DEF H
  <2>4. LaunchSound(s, H) /\ HealthSound(s, H) /\ ReconcilerSound(s, H) /\ CircuitSound(s)
    <3>1. LaunchSound(s, H)
      BY <1>1, <1>3, <2>1 DEF LaunchSound
    <3>2. HealthSound(s, H) /\ ReconcilerSound(s, H)
      BY <1>1, <1>3, <2>1 DEF HealthSound, ReconcilerSound
    <3>3. CircuitSound(s)
      BY <1>1, <2>1 DEF CircuitSound
    <3> QED BY <3>1, <3>2, <3>3
  <2>5. StopSound(s, H)
    BY <1>1, <1>3, <1>5, <2>1 DEF StopSound
  <2>6. \A q \in Resetters : ResetFits(s, H, q)
    <3> SUFFICES ASSUME NEW q \in Resetters PROVE ResetFits(s, H, q)
      OBVIOUS
    <3>1. CASE q = r
      BY <1>2, <1>3, <2>2, <3>1 DEF ResetFits
    <3>2. CASE q # r
      BY <1>1, <1>3, <2>1, <3>2 DEF ResetSound, ResetFits
    <3> QED BY <3>1, <3>2
  <2>7. \A q \in Resetters : ~(s.reset[q] = "stopping" /\ q \in H)
    <3> SUFFICES ASSUME NEW q \in Resetters PROVE ~(s.reset[q] = "stopping" /\ q \in H)
      OBVIOUS
    <3>1. q = r => q \notin H
      BY <1>2, <1>3, <2>2
    <3>2. q # r /\ q \in H => s.reset[q] = "off"
      BY <1>3, <2>3
    <3> QED BY <3>1, <3>2
  <2>8. Ready(s, {}) /\ s.stop = "none" /\ \E q \in Resetters : s.reset[q] = "stopping"
    BY <1>3, <1>5, <2>1 DEF Ready, Typed
  <2>9. ~s.child => s.launching \in {"none", "validating"}
    BY <2>0, <2>1
  <2>10. Base(StopCurrentProcess(s), {}) /\ Held(StopCurrentProcess(s))
    BY <1>3, <2>2, <2>4, <2>5, <2>6, <2>7, <2>8, <2>9, StopBegins
  <2> QED BY <2>10 DEF s
<1> QED BY <1>4, <1>5

-----------------------------------------------------------------------------
(* A continuation                                                          *)

\* The client whose next microtask is taken out, with its name in hand.
LEMMA TailSound ==
  ASSUME NEW c, Sound(c, {}), c.jobs # <<>>
  PROVE  LET d == [c EXCEPT !.jobs = Tail(@)]
             job == Head(c.jobs)
         IN  /\ Base(d, {job.who}) /\ Freed(d) /\ job.who \in Whos /\ job.how \in Hows
             /\ job.who = "stopper" => \A r \in Resetters : d.reset[r] = "stopping" => r \notin Told(d)
             /\ job.who = "launch" => d.launching # "failed"
             /\ Held(d) \/ (job.who \in Resetters /\ d.reset[job.who] = "stopping" /\ job.how = "stopped")
<1> DEFINE d == [c EXCEPT !.jobs = Tail(@)]
           job == Head(c.jobs)
           H == Live(c) \cup {}
           G == Live(d) \cup {job.who}
<1>1. /\ LaunchSound(c, H) /\ HealthSound(c, H) /\ ReconcilerSound(c, H) /\ StopSound(c, H)
      /\ ResetSound(c, H) /\ CircuitSound(c) /\ Typed(c) /\ Plumbed(c) /\ Held(c)
  BY DEF Sound, Base
<1>2. Differs(c, d, {"jobs"}) /\ d.jobs = Tail(c.jobs)
  BY <1>1, FieldsOf DEF Typed, IsClient, Differs
<1> HIDE DEF d
<1>3. /\ d.desired = c.desired /\ d.started = c.started /\ d.child = c.child /\ d.launching = c.launching
      /\ d.health = c.health /\ d.terminating = c.terminating /\ d.dispatched = c.dispatched /\ d.stop = c.stop
      /\ d.timer = c.timer /\ d.crashLoop = c.crashLoop /\ d.probe = c.probe /\ d.termination = c.termination
      /\ d.readiness = c.readiness /\ d.unclean = c.unclean /\ d.reset = c.reset
      /\ d.channel = c.channel /\ d.sent = c.sent /\ d.queue = c.queue
      /\ d.running = c.running /\ d.operations = c.operations /\ d.waits = c.waits
  BY <1>2, FieldsOf DEF Differs
<1>4. /\ job \in Jobs /\ JobsSound(d.jobs, c.reset) /\ Told(c) = Told(d) \cup {job.who} /\ job.who \notin Told(d)
      /\ job.who = "stopper" => \A r \in Resetters \cap Told(d) : c.reset[r] # "stopping"
  BY <1>1, <1>2, JobsTail DEF Plumbed, Told
<1>5. job.who \in Whos /\ job.how \in Hows
  BY <1>4 DEF Jobs
<1>6. Typed(d)
  <2>1. \A field \in {"jobs"} \ Loose : d[field] \in Types[field]
    BY DEF Loose
  <2> QED BY <1>1, <1>2, <2>1, TypedKept
<1>7. Asking(d) = Asking(c) /\ Waiting(d) = Waiting(c) /\ Ops(d) = Ops(c) /\ Op(d) = Op(c)
  <2>1. Asking(d) = Asking(c) /\ Waiting(d) = Waiting(c) /\ Op(d) = Op(c)
    BY <1>3 DEF Asking, Waiting, Op
  <2> QED BY <1>3, <2>1 DEF Ops
<1>8. H = G /\ {job.who} \cap Live(d) = {}
  <2>1. job.who \notin Asking(c) \cup Ops(c) \cup Waiting(c)
    BY <1>1, <1>4 DEF Plumbed, Apart
  <2> HIDE DEF job
  <2> QED BY <1>4, <1>7, <2>1 DEF Live
<1>9. Plumbed(d)
  <2>1. JobsSound(d.jobs, d.reset)
    BY <1>3, <1>4
  <2>2. QueueSound(d) /\ OperationsSound(d) /\ WaitsSound(d)
    BY <1>1, <1>3, <1>7 DEF Plumbed, QueueSound, OperationsSound, WaitsSound
  <2>3. Apart(d)
    BY <1>1, <1>4, <1>7 DEF Plumbed, Apart
  <2> QED BY <2>1, <2>2, <2>3 DEF Plumbed
<1>10. "launch" \in Asking(d) \cup Told(d) => "launch" \in Asking(c) \cup Told(c)
  BY <1>4, <1>7
<1> HIDE DEF H
<1>11. LaunchSound(d, H) /\ HealthSound(d, H) /\ ReconcilerSound(d, H) /\ CircuitSound(d)
  <2>1. LaunchSound(d, H)
    BY <1>1, <1>3, <1>7, <1>10 DEF LaunchSound
  <2>2. HealthSound(d, H) /\ ReconcilerSound(d, H)
    BY <1>1, <1>3 DEF HealthSound, ReconcilerSound
  <2>3. CircuitSound(d)
    BY <1>1, <1>3 DEF CircuitSound
  <2> QED BY <2>1, <2>2, <2>3
<1>12. StopSound(d, H) /\ ResetSound(d, H)
  BY <1>1, <1>3, <1>7 DEF StopSound, ResetSound, ResetFits
<1>13. Base(d, {job.who})
  BY <1>6, <1>8, <1>9, <1>11, <1>12 DEF Base
<1>14. Freed(d)
  BY <1>1, <1>3 DEF Freed, Held
<1>15. job.who = "stopper" => \A r \in Resetters : d.reset[r] = "stopping" => r \notin Told(d)
  BY <1>3, <1>4
<1>16. job.who = "launch" => d.launching # "failed"
  BY <1>1, <1>3, <1>4 DEF LaunchSound
<1>17. Held(d) \/ (job.who \in Resetters /\ d.reset[job.who] = "stopping" /\ job.how = "stopped")
  <2>1. Returning(c) => Returning(d) \/ (job.who \in Resetters /\ c.reset[job.who] = "stopping" /\ job.how = "stopped")
    <3> SUFFICES ASSUME Returning(c)
                 PROVE  Returning(d) \/ (job.who \in Resetters /\ c.reset[job.who] = "stopping" /\ job.how = "stopped")
      OBVIOUS
    <3>1. PICK i \in DOMAIN c.jobs : /\ c.jobs[i].who \in Resetters /\ c.jobs[i].how = "stopped"
                                     /\ c.reset[c.jobs[i].who] = "stopping"
      BY DEF Returning
    <3>2. c.jobs \in Seq(Jobs)
      BY <1>1 DEF Plumbed, JobsSound
    <3>3. CASE i = 1
      <4>1. c.jobs[i] = job
        BY <3>2, <3>3
      <4> HIDE DEF job
      <4> QED BY <3>1, <4>1
    <3>4. CASE i # 1
      <4>1. i - 1 \in DOMAIN d.jobs /\ d.jobs[i - 1] = c.jobs[i]
        BY <1>2, <3>1, <3>2, <3>4
      <4> QED BY <1>3, <3>1, <4>1 DEF Returning
    <3> QED BY <3>3, <3>4
  <2> HIDE DEF job
  <2> QED BY <1>1, <1>3, <2>1 DEF Held
<1> QED BY <1>5, <1>13, <1>14, <1>15, <1>16, <1>17 DEF d

\* An intent that ended in nothing, or was rolled back, leaves nothing to wait
\* for.
LEMMA IntentForgotten ==
  ASSUME NEW c, NEW who \in {"intent", "rollback"}, Base(c, {who})
  PROVE  LET d == [c EXCEPT !.previous = FALSE]
         IN  Base(c, {}) /\ Base(d, {}) /\ (Held(c) => Held(d))
<1> DEFINE d == [c EXCEPT !.previous = FALSE]
<1>1. Base(c, {})
  <2>1. \A w \in {"launch", "fresh", "health", "session", "configure", "reconciler", "stopper"} \cup Resetters :
          w \notin {} /\ w \notin {who}
    BY Distinct DEF Operations
  <2>2. ~("intent" \in Live(c) \cup {} /\ "rollback" \in Live(c) \cup {})
    BY DEF Base, ReconcilerSound
  <2>3. "stop" # who
    OBVIOUS
  <2> QED BY <2>1, <2>2, <2>3, Retoken
<1>2. Typed(c)
  BY DEF Base
<1>3. Differs(c, d, {"previous"}) /\ d.previous \in BOOLEAN
  BY <1>2, FieldsOf DEF Typed, IsClient, Differs
<1> HIDE DEF d
<1>4. {"previous"} \in SUBSET Quiet /\ \A field \in {"previous"} : d[field] \in Types[field]
  BY <1>3, TypesOf DEF Quiet
<1>5. Quieter(c, d)
  BY <1>2, <1>3, <1>4, QuieterBy
<1> QED BY <1>1, <1>5, QuieterSound DEF d

\* A fresh session goes on with the launch or with the refresh that waits for
\* it.
LEMMA FreshContinuesSound ==
  ASSUME NEW c, Base(c, {"fresh"}), NEW how \in Hows, NEW changed \in BOOLEAN
  PROVE  LET d == IF c.launching = "activation" THEN LaunchContinues(c, how) ELSE HealthContinues(c, how, changed)
         IN  Base(d, {}) /\ (Held(c) => Held(d))
<1>1. c.launching = "activation" \/ c.health = "fresh"
  BY DEF Base, LaunchSound
<1>2. CASE c.launching = "activation"
  <2>1. LaunchToken(c, "fresh")
    BY <1>2 DEF LaunchToken
  <2> QED BY <1>2, <2>1, LaunchContinuesSound
<1>3. CASE c.launching # "activation"
  <2>1. Base(c, HealthWho(c.health)) /\ c.health # "none"
    BY <1>1, <1>3, HealthWhoIs
  <2> QED BY <1>3, <2>1, HealthContinuesSound
<1> QED BY <1>2, <1>3

\* Whatever the microtask, the client is sound behind it.
LEMMA ContinueSound ==
  ASSUME NEW c, NEW job, Base(c, {job.who}), Freed(c), job.who \in Whos, job.how \in Hows,
         job.who = "stopper" => \A r \in Resetters : c.reset[r] = "stopping" => r \notin Told(c),
         job.who = "launch" => c.launching # "failed",
         Held(c) \/ (job.who \in Resetters /\ c.reset[job.who] = "stopping" /\ job.how = "stopped"),
         NEW changed \in BOOLEAN
  PROVE  Sound(Continue(c, job, changed), {})
<1> DEFINE d == Continue(c, job, changed)
<1>1. CASE job.who = "launch"
  <2>1. c.launching \in {"initialize", "snapshot", "off"}
    BY <1>1 DEF Base, LaunchSound
  <2>2. LaunchToken(c, "launch") /\ Held(c)
    BY <1>1, <2>1, Distinct DEF LaunchToken
  <2>3. d = LaunchContinues(c, job.how)
    BY <1>1 DEF Continue
  <2> QED BY <1>1, <2>2, <2>3, LaunchContinuesSound DEF Sound
<1>2. CASE job.who = "health"
  <2>1. Base(c, HealthWho(c.health)) /\ c.health # "none" /\ Held(c)
    <3>1. c.health \in {"snapshot", "off"}
      BY <1>2 DEF Base, HealthSound
    <3>2. HealthWho(c.health) = {"health"}
      BY <3>1, HealthWhoIs
    <3> QED BY <1>2, <3>1, <3>2, Distinct
  <2>2. d = HealthContinues(c, job.how, changed)
    BY <1>2 DEF Continue
  <2> QED BY <2>1, <2>2, HealthContinuesSound DEF Sound
<1>3. CASE job.who = "configure"
  <2>1. d = Configured(c, job.how) /\ Held(c)
    BY <1>3, Distinct DEF Continue
  <2>2. Ends(c, Configured(c, job.how), {"configure"}) /\ {"configure"} \ {"configure"} = {}
    BY <1>3, ConfiguredEnds
  <2> QED BY <2>1, <2>2 DEF Ends, Sound
<1>4. CASE job.who = "reconciler"
  <2>1. d = RunNext(c) /\ Held(c)
    BY <1>4, Distinct DEF Continue
  <2>2. {"reconciler"} \ {"reconciler"} = {} /\ "reconciler" \in {"reconciler"}
    OBVIOUS
  <2>3. Base(RunNext(c), {"reconciler"} \ {"reconciler"}) /\ (Held(c) => Held(RunNext(c)))
    BY <1>4, <2>2, RunNextSound
  <2> QED BY <2>1, <2>2, <2>3 DEF Sound
<1>5. CASE job.who = "fresh"
  <2>1. d = IF c.launching = "activation" THEN LaunchContinues(c, job.how) ELSE HealthContinues(c, job.how, changed)
    BY <1>5 DEF Continue
  <2>2. Held(c)
    BY <1>5, Distinct DEF Operations
  <2> QED BY <1>5, <2>1, <2>2, FreshContinuesSound DEF Sound
<1>6. CASE job.who = "session"
  <2>1. Base(c, HealthWho(c.health)) /\ c.health # "none" /\ Held(c)
    <3>1. c.health = "activation"
      BY <1>6 DEF Base, HealthSound
    <3>2. HealthWho(c.health) = {"session"}
      BY <3>1, HealthWhoIs
    <3> QED BY <1>6, <3>1, <3>2, Distinct DEF Operations
  <2>2. d = HealthContinues(c, job.how, changed)
    BY <1>6 DEF Continue
  <2> QED BY <2>1, <2>2, HealthContinuesSound DEF Sound
<1>7. CASE job.who = "intent"
  <2>1. d = (IF job.how = "ok" THEN [c EXCEPT !.previous = FALSE] ELSE RollBack(c)) /\ Held(c)
    BY <1>7, Distinct DEF Continue, Operations
  <2> QED BY <1>7, <2>1, IntentForgotten, RollBackSound DEF Sound
<1>8. CASE job.who = "rollback"
  <2>1. d = [c EXCEPT !.previous = FALSE] /\ Held(c)
    BY <1>8, Distinct DEF Continue, Operations
  <2> QED BY <1>8, <2>1, IntentForgotten DEF Sound
<1>9. CASE job.who = "stopper"
  <2>1. d = IF c.stop = "begun" THEN PerformStop(c) ELSE StopExited(c, job.how)
    BY <1>9 DEF Continue
  <2> QED BY <1>9, <2>1, PerformStopSound, StopExitedSound DEF Sound
<1>10. CASE job.who = "stop"
  <2>1. d = StopAnswered(c, job.how) /\ Held(c)
    BY <1>10, Distinct DEF Continue, Shutdowns
  <2> QED BY <1>10, <2>1, StopAnsweredSound DEF Sound
<1>11. CASE job.who = "termination"
  <2>1. d = TerminationAnswered(c) /\ Held(c)
    BY <1>11, Distinct DEF Continue, Shutdowns
  <2> QED BY <1>11, <2>1, TerminationAnsweredSound DEF Sound
<1>12. CASE job.who \in Resetters
  <2>1. job.who \notin {"launch", "health", "configure", "reconciler", "fresh", "session", "intent", "rollback",
                        "stopper", "stop", "termination"}
    BY <1>12, Distinct DEF Operations, Shutdowns
  <2>2. d = ResetContinues(c, job.who, job.how)
    BY <2>1 DEF Continue
  <2>3. Sound(ResetContinues(c, job.who, job.how), {})
    BY <1>12, ResetContinuesSound DEF Sound
  <2> QED BY <2>2, <2>3
<1>13. job.who \in {"launch", "health", "configure", "reconciler", "fresh", "session", "intent", "rollback",
                    "stopper", "stop", "termination"} \cup Resetters
  BY DEF Whos, Requesters, Shutdowns, Operations
<1> QED BY <1>1, <1>2, <1>3, <1>4, <1>5, <1>6, <1>7, <1>8, <1>9, <1>10, <1>11, <1>12, <1>13

-----------------------------------------------------------------------------
(* The events                                                              *)

\* The client's first launch.
LEMMA StartSound ==
  LET d == Launch([NewClient EXCEPT !.started = TRUE, !.desired = TRUE, !.timer = "none"])
  IN  Sound(d, {})
<1> DEFINE c == [NewClient EXCEPT !.started = TRUE]
           b == [NewClient EXCEPT !.started = TRUE, !.desired = TRUE, !.timer = "none"]
           d == Launch(b)
<1>0. IsClient(NewClient)
  BY DEF NewClient, IsClient, Fields
<1>11. /\ NewClient.desired = FALSE /\ NewClient.child = FALSE /\ NewClient.channel = "closed"
       /\ NewClient.queue = <<>> /\ NewClient.sent = "none" /\ NewClient.dispatched = {} /\ NewClient.jobs = <<>>
       /\ NewClient.launching = "none" /\ NewClient.waits = <<>> /\ NewClient.health = "none"
       /\ NewClient.terminating = FALSE /\ NewClient.termination = "none"
       /\ NewClient.stop = "none" /\ NewClient.reset = [r \in Resetters |-> "none"] /\ NewClient.timer = "none"
       /\ NewClient.crashLoop = FALSE /\ NewClient.probe = FALSE /\ NewClient.readiness = "stopped"
       /\ NewClient.running = "none" /\ NewClient.operations = <<>>
  BY DEF NewClient
<1>12. /\ NewClient.missing = FALSE /\ NewClient.authoritative = FALSE /\ NewClient.stopFault = FALSE
       /\ NewClient.shutDown = FALSE /\ NewClient.unclean = FALSE /\ NewClient.want = FALSE
       /\ NewClient.previous = FALSE /\ NewClient.blocked = TRUE /\ NewClient.applied = FALSE
       /\ NewClient.moved = FALSE /\ NewClient.asked = FALSE /\ NewClient.failures = 0 /\ NewClient.seen = "owner"
       /\ NewClient.effective = "none" /\ NewClient.planned = "none" /\ NewClient.said = "nothing"
  BY DEF NewClient
<1>13. Differs(NewClient, c, {"started"}) /\ c.started = TRUE
  BY <1>0, FieldsOf DEF IsClient, Differs
<1>14. /\ Differs(NewClient, b, {"started", "desired", "timer"}) /\ b.started = TRUE /\ b.desired = TRUE
       /\ b.timer = "none"
  BY <1>0, FieldsOf, ZenonT(40) DEF IsClient, Differs
<1> HIDE DEF c, b
<1>15. b.probe = FALSE /\ b.crashLoop = FALSE
  BY <1>11, <1>14, FieldsOf DEF Differs
<1>16. /\ Differs(b, d, {"readiness", "launching", "probe", "unclean"}) /\ d.launching = "validating"
       /\ d.readiness = "starting" /\ d.probe \in BOOLEAN /\ ~d.probe /\ d.unclean \in BOOLEAN
  BY <1>14, <1>15, FieldsOf, ZenonT(40) DEF IsClient, Differs, Launch, Publish
<1>17. d = Launch([NewClient EXCEPT !.started = TRUE, !.desired = TRUE, !.timer = "none"])
  BY DEF b
<1> HIDE DEF d
<1>1. /\ IsClient(c) /\ c.desired = FALSE /\ c.started = TRUE /\ c.child = FALSE /\ c.channel = "closed"
      /\ c.queue = <<>> /\ c.sent = "none" /\ c.dispatched = {} /\ c.jobs = <<>> /\ c.launching = "none"
      /\ c.waits = <<>> /\ c.health = "none" /\ c.terminating = FALSE /\ c.termination = "none"
      /\ c.stop = "none" /\ c.reset = [r \in Resetters |-> "none"] /\ c.timer = "none" /\ c.crashLoop = FALSE
      /\ c.probe = FALSE /\ c.readiness = "stopped" /\ c.running = "none" /\ c.operations = <<>>
  BY <1>11, <1>13, FieldsOf DEF Differs
<1>2. /\ c.missing = FALSE /\ c.authoritative = FALSE /\ c.stopFault = FALSE /\ c.shutDown = FALSE
      /\ c.unclean = FALSE /\ c.want = FALSE /\ c.previous = FALSE /\ c.blocked = TRUE /\ c.applied = FALSE
      /\ c.moved = FALSE /\ c.asked = FALSE /\ c.failures = 0 /\ c.seen = "owner" /\ c.effective = "none"
      /\ c.planned = "none" /\ c.said = "nothing"
  BY <1>12, <1>13, FieldsOf DEF Differs
<1>3. /\ Differs(c, d, LaunchBegins) /\ d.launching = "validating" /\ d.desired /\ d.readiness = "starting"
      /\ d.desired \in BOOLEAN /\ d.started = TRUE /\ d.timer = "none" /\ d.probe \in BOOLEAN /\ ~d.probe
      /\ d.unclean \in BOOLEAN
  <2>1. d.desired = TRUE /\ d.started = TRUE /\ d.timer = "none"
    BY <1>14, <1>16, FieldsOf DEF Differs
  <2>2. Differs(c, d, LaunchBegins)
    BY <1>13, <1>14, <1>16, FieldsOf DEF Differs, LaunchBegins
  <2> QED BY <1>16, <2>1, <2>2
<1>4. Typed(c)
  <2>1. 0 \in 0 .. FailureLimit - 1 /\ "stopped" \in Readiness /\ "owner" \in Snapshots
    BY FailureLimitAssumption DEF Readiness, Snapshots
  <2>2. /\ c["desired"] \in Types["desired"] /\ c["started"] \in Types["started"] /\ c["child"] \in Types["child"]
        /\ c["missing"] \in Types["missing"] /\ c["authoritative"] \in Types["authoritative"]
        /\ c["terminating"] \in Types["terminating"] /\ c["stopFault"] \in Types["stopFault"]
        /\ c["shutDown"] \in Types["shutDown"] /\ c["unclean"] \in Types["unclean"]
        /\ c["crashLoop"] \in Types["crashLoop"] /\ c["probe"] \in Types["probe"] /\ c["want"] \in Types["want"]
        /\ c["previous"] \in Types["previous"] /\ c["blocked"] \in Types["blocked"]
        /\ c["applied"] \in Types["applied"] /\ c["moved"] \in Types["moved"] /\ c["asked"] \in Types["asked"]
    BY <1>1, <1>2 DEF Types
  <2>3. /\ c["launching"] \in Types["launching"] /\ c["health"] \in Types["health"]
        /\ c["termination"] \in Types["termination"] /\ c["stop"] \in Types["stop"]
        /\ c["timer"] \in Types["timer"] /\ c["failures"] \in Types["failures"]
        /\ c["readiness"] \in Types["readiness"] /\ c["seen"] \in Types["seen"]
        /\ c["effective"] \in Types["effective"] /\ c["planned"] \in Types["planned"]
        /\ c["said"] \in Types["said"] /\ c["running"] \in Types["running"]
    BY <1>1, <1>2, <2>1 DEF Types
  <2>4. c["reset"] \in Types["reset"]
    BY <1>1 DEF Types
  <2>5. DOMAIN Types =
          {"desired", "started", "child", "missing", "authoritative", "terminating", "stopFault", "shutDown",
           "unclean", "crashLoop", "probe", "want", "previous", "blocked", "applied", "moved", "asked",
           "launching", "health", "termination", "stop", "reset", "timer", "failures", "readiness", "seen",
           "effective", "planned", "said", "running"}
    BY DEF Types
  <2> QED BY <1>1, <2>2, <2>3, <2>4, <2>5 DEF Typed
<1>5. Live(c) = {} /\ Asking(c) = {} /\ Told(c) = {} /\ Ops(c) = {} /\ Waiting(c) = {} /\ Op(c) = "none"
  <2>1. Asking(c) = {} /\ Told(c) = {} /\ Waiting(c) = {} /\ Op(c) = "none"
    BY <1>1 DEF Asking, Told, Waiting, Op, Names, ToSet
  <2>2. Ops(c) = {}
    BY <1>1, <2>1 DEF Ops, ToSet
  <2> QED BY <2>1, <2>2 DEF Live
<1>6. Plumbed(c)
  <2>1. JobsSound(c.jobs, c.reset)
    BY <1>1 DEF JobsSound, Unique
  <2>2. QueueSound(c)
    BY <1>1, <1>5, Distinct DEF QueueSound, IsInjective, ToSet, Shutdowns
  <2>3. OperationsSound(c) /\ WaitsSound(c)
    BY <1>1, <1>5 DEF OperationsSound, WaitsSound, IsInjective, ToSet, Unique
  <2>4. Apart(c)
    BY <1>5 DEF Apart
  <2> QED BY <2>1, <2>2, <2>3, <2>4 DEF Plumbed
<1>7. Base(c, {})
  <2> DEFINE H == Live(c) \cup {}
  <2>1. H = {}
    BY <1>5
  <2> HIDE DEF H
  <2>2. LaunchSound(c, H) /\ HealthSound(c, H) /\ ReconcilerSound(c, H) /\ CircuitSound(c)
    BY <1>1, <1>5, <2>1 DEF LaunchSound, HealthSound, ReconcilerSound, CircuitSound
  <2>3. StopSound(c, H)
    BY <1>1, <1>5, <2>1 DEF StopSound
  <2>4. ResetSound(c, H)
    BY <1>1, <2>1 DEF ResetSound, ResetFits
  <2> QED BY <1>4, <1>6, <2>2, <2>3, <2>4 DEF Base, H
<1>8. \A field \in LaunchBegins : d[field] \in Types[field]
  <2>1. "starting" \in Readiness
    BY DEF Readiness
  <2>2. /\ d["readiness"] \in Types["readiness"] /\ d["launching"] \in Types["launching"]
        /\ d["probe"] \in Types["probe"] /\ d["unclean"] \in Types["unclean"] /\ d["started"] \in Types["started"]
        /\ d["desired"] \in Types["desired"] /\ d["timer"] \in Types["timer"]
    BY <1>3, <2>1 DEF Types
  <2> QED BY <2>2 DEF LaunchBegins
<1>9. d.probe <=> c.probe \/ c.crashLoop
  BY <1>1, <1>3
<1>10. Base(d, {}) /\ Held(d)
  BY <1>1, <1>3, <1>7, <1>8, <1>9, Launched
<1> QED BY <1>10, <1>17 DEF Sound

\* The application stops its helper.
LEMMA StopActionSound ==
  ASSUME NEW c, Sound(c, {}), c.jobs = <<>>
  PROVE  Sound(StopCurrentProcess([CloseCircuit(c) EXCEPT !.desired = FALSE]), {})
<1> DEFINE b == CloseCircuit(c)
           d == [b EXCEPT !.desired = FALSE]
           H == Live(b) \cup {}
<1>1. /\ Base(b, {}) /\ b.launching = c.launching /\ b.child = c.child
      /\ Differs(c, b, {"failures", "crashLoop", "probe"}) /\ ~b.crashLoop /\ ~b.probe
  BY CloseCircuitSound DEF Sound
<1> HIDE DEF b
<1>2. /\ LaunchSound(b, H) /\ HealthSound(b, H) /\ ReconcilerSound(b, H) /\ StopSound(b, H)
      /\ ResetSound(b, H) /\ CircuitSound(b) /\ Typed(b) /\ Plumbed(b)
  BY <1>1 DEF Base
<1>3. Differs(b, d, {"desired"}) /\ ~d.desired /\ d.desired \in BOOLEAN
  BY <1>2, FieldsOf DEF Typed, IsClient, Differs
<1> HIDE DEF d
<1>4. /\ d.started = b.started /\ d.child = b.child /\ d.launching = b.launching
      /\ d.health = b.health /\ d.terminating = b.terminating /\ d.dispatched = b.dispatched /\ d.stop = b.stop
      /\ d.timer = b.timer /\ d.crashLoop = b.crashLoop /\ d.probe = b.probe /\ d.termination = b.termination
      /\ d.readiness = b.readiness /\ d.reset = b.reset
  BY <1>3, FieldsOf DEF Differs
<1>5. /\ Typed(d) /\ Plumbed(d) /\ Live(d) = Live(b) /\ Asking(d) = Asking(b) /\ Told(d) = Told(b)
      /\ Waiting(d) = Waiting(b) /\ d.channel = b.channel
      /\ d.running = b.running /\ d.operations = b.operations /\ d.waits = b.waits
  <2>1. {"desired"} \in SUBSET Scalars
    BY FieldsOf DEF Scalars
  <2>2. d["desired"] \in Types["desired"]
    BY <1>3, TypesOf
  <2>3. b.sent \in Shutdowns => b.sent \in d.dispatched
    BY <1>2, <1>4 DEF Plumbed, QueueSound
  <2>4. \A field \in {"desired"} \ Loose : d[field] \in Types[field]
    BY <2>2
  <2> QED BY <1>1, <1>3, <1>4, <2>1, <2>3, <2>4, Changed
<1> HIDE DEF H
<1>6. LaunchSound(d, H) /\ HealthSound(d, H) /\ ReconcilerSound(d, H) /\ CircuitSound(d)
  <2>1. LaunchSound(d, H)
    BY <1>2, <1>4, <1>5 DEF LaunchSound
  <2>2. HealthSound(d, H) /\ ReconcilerSound(d, H)
    BY <1>2, <1>4, <1>5 DEF HealthSound, ReconcilerSound
  <2>3. CircuitSound(d)
    BY <1>1, <1>2, <1>3, <1>4 DEF CircuitSound
  <2> QED BY <2>1, <2>2, <2>3
<1>7. StopSound(d, H)
  BY <1>2, <1>3, <1>4, <1>5 DEF StopSound
<1>8. ResetSound(d, H)
  <2> SUFFICES ASSUME NEW r \in Resetters
               PROVE  /\ ResetFits(d, H, r)
                      /\ d.reset[r] = "stopping" =>
                           IF r \in H THEN d.stop = "none" \/ (d.stop = "begun" /\ ~d.desired) ELSE d.stop # "none"
    BY DEF ResetSound
  <2> QED BY <1>2, <1>3, <1>4 DEF ResetSound, ResetFits
<1>9. Base(d, {})
  BY <1>5, <1>6, <1>7, <1>8 DEF Base, H
<1>10. ~d.child => d.launching \in {"none", "validating"}
  BY <1>1, <1>4, IdleGone DEF Sound
<1>11. d.stop = "none" \/ Held(d)
  BY DEF Held
<1>12. Base(StopCurrentProcess(d), {}) /\ Held(StopCurrentProcess(d))
  BY <1>3, <1>9, <1>10, <1>11, StopSoundly
<1> QED BY <1>12 DEF d, b, Sound

\* A stop that has begun goes on before another event.
LEMMA IdleNotBegun ==
  ASSUME NEW c, Base(c, {}), c.jobs = <<>>
  PROVE  "stopper" \notin Live(c) /\ c.stop # "begun"
<1>1. "stopper" \notin Asking(c) \cup Ops(c) \cup Waiting(c)
  BY Kinds, Distinct DEF Base
<1>2. "stopper" \notin Live(c)
  BY <1>1, IdleTold DEF Live
<1> QED BY <1>2 DEF Base, StopSound

\* The timer of a restart fires.
LEMMA RestartTimerSound ==
  ASSUME NEW c, Sound(c, {}), c.jobs = <<>>, c.timer # "none"
  PROVE  Sound(StartForIntent([c EXCEPT !.timer = "none"]), {})
<1> DEFINE d == [c EXCEPT !.timer = "none"]
<1>1. /\ Base(d, {}) /\ Differs(c, d, {"timer"}) /\ d.timer = "none" /\ Live(d) = Live(c)
      /\ d.reset = c.reset /\ d.jobs = c.jobs
  BY TimerOffSound DEF Sound
<1>2. c.stop = "none"
  <2>1. c.stop \notin {"asked", "exit", "killed"}
    BY DEF Sound, Base, StopSound
  <2> QED BY <2>1, IdleNotBegun, TypedFields DEF Sound, Base
<1>3. StartForIntent(d) = IF d.launching = "none" /\ d.desired /\ ~d.child THEN Launch(d) ELSE d
  BY DEF StartForIntent
<1> HIDE DEF d
<1>4. /\ d.desired = c.desired /\ d.child = c.child /\ d.launching = c.launching /\ d.stop = c.stop
      /\ d.crashLoop = c.crashLoop /\ d.readiness = c.readiness /\ d.unclean = c.unclean
  BY <1>1, FieldsOf DEF Differs
<1>5. CASE d.launching = "none" /\ d.desired /\ ~d.child
  BY <1>1, <1>2, <1>3, <1>4, <1>5, LaunchSoundly DEF Sound, d
<1>6. CASE ~(d.launching = "none" /\ d.desired /\ ~d.child)
  <2>1. ~c.child => c.launching \in {"none", "validating"}
    BY IdleGone DEF Sound
  <2>2. c.crashLoop => c.desired
    BY DEF Sound, Base, CircuitSound
  <2>3. ~Returning(c) /\ ~Returning(d)
    BY <1>1, IdleTold
  <2>4. Held(d)
    BY <1>4, <1>6, <2>1, <2>2, <2>3 DEF Held, Sound
  <2> QED BY <1>1, <1>3, <1>6, <2>4 DEF Sound, d
<1> QED BY <1>5, <1>6

\* A helper that could not be spawned counts as a failure.
LEMMA ProbeFailed ==
  ASSUME NEW c, Sound(c, {}), c.jobs = <<>>, c.launching = "validating", c.desired, NEW kept \in Nat
  PROVE  Sound(EndLaunch(RecordFailure(c, "transient", kept)), {})
<1> DEFINE b == RecordFailure(c, "transient", kept)
           e == [b EXCEPT !.launching = "none", !.seen = "owner"]
           d == SettleAll(e, ResettersIn(e, "starting"), "launched")
<1>1. /\ Base(c, {}) /\ Held(c) /\ Typed(c) /\ ~c.child /\ (c.crashLoop => c.probe)
      /\ c.stop \notin {"asked", "exit", "killed"} /\ c.health \in {"none", "snapshot", "activation", "off", "fresh"}
      /\ "launch" \notin Live(c)
  BY TypedFields DEF Sound, Base, LaunchSound, CircuitSound, StopSound
<1>2. /\ Differs(c, b, Circuit) /\ \A field \in Circuit : b[field] \in Types[field]
      /\ b.readiness \notin {"stopped", "ready"} /\ ~b.probe
      /\ b.crashLoop => b.timer = "window"
      /\ b.timer # "none" \/ b.readiness \in {"stable", "shutdown"}
  BY <1>1, Recorded DEF Classes
<1>3. EndLaunch(b) = SettleAll(e, ResettersIn(b, "starting"), "launched")
  BY DEF EndLaunch
<1> HIDE DEF b
<1>4. Differs(b, e, {"launching", "seen"}) /\ e.launching = "none" /\ e.seen = "owner"
  BY <1>2, FieldsOf DEF IsClient, Differs
<1> HIDE DEF e
<1>5. /\ Differs(c, e, LaunchEnd) /\ e.desired = c.desired /\ e.child = c.child /\ e.stop = c.stop
      /\ e.readiness = b.readiness /\ e.probe = b.probe /\ e.crashLoop = b.crashLoop /\ e.timer = b.timer
      /\ e.failures = b.failures /\ e.reset = b.reset /\ e.unclean = c.unclean
  <2>1. Differs(c, e, LaunchEnd)
    BY <1>2, <1>4 DEF Differs, LaunchEnd, Circuit
  <2> QED BY <1>2, <1>4, <2>1, FieldsOf DEF Differs, Circuit, LaunchEnd
<1>6. ResettersIn(b, "starting") = ResettersIn(e, "starting")
  BY <1>5 DEF ResettersIn
<1>7. \A field \in LaunchEnd : e[field] \in Types[field]
  <2>1. /\ e["readiness"] \in Types["readiness"] /\ e["probe"] \in Types["probe"]
        /\ e["crashLoop"] \in Types["crashLoop"] /\ e["timer"] \in Types["timer"] /\ e["failures"] \in Types["failures"]
    BY <1>2, <1>5 DEF Circuit
  <2>2. e["launching"] \in Types["launching"] /\ e["seen"] \in Types["seen"]
    BY <1>4, TypesOf DEF Snapshots
  <2> QED BY <2>1, <2>2 DEF LaunchEnd
<1>8. CircuitSound(e)
  BY <1>1, <1>2, <1>4, <1>5 DEF CircuitSound
<1>9. Held(e)
  BY <1>1, <1>2, <1>5 DEF Held
<1>10. Told(c) = {} /\ {} \subseteq {"launch", "fresh"} /\ ("fresh" \in {} <=> c.launching = "activation")
  BY IdleTold
<1>11. Base(d, {}) /\ (Held(e) => Held(d))
  BY <1>1, <1>4, <1>5, <1>7, <1>8, <1>10, LaunchOver
<1> QED BY <1>3, <1>6, <1>9, <1>11 DEF Sound, b

\* A validation that ends without a helper.
LEMMA ValidationEnds ==
  ASSUME NEW c, Sound(c, {}), c.jobs = <<>>, c.launching = "validating"
  PROVE  /\ ~c.desired => Sound(EndLaunch(c), {})
         /\ ~c.probe => Sound(EndLaunch(Publish(c, "stable")), {})
<1>1. /\ Base(c, {}) /\ (c.crashLoop => c.desired /\ c.probe) /\ "launch" \notin Live(c) /\ Told(c) = {}
  BY IdleTold DEF Sound, Base, LaunchSound, CircuitSound
<1>2. ~c.desired => Sound(EndLaunch(c), {})
  <2> SUFFICES ASSUME ~c.desired PROVE Sound(EndLaunch(c), {})
    OBVIOUS
  <2>1. {} \subseteq {"launch", "fresh"} /\ ("fresh" \in {} <=> c.launching = "activation")
    OBVIOUS
  <2>2. Base(EndLaunch(c), {}) /\ Held(EndLaunch(c))
    BY <1>1, <2>1, EndLaunchSound
  <2> QED BY <2>2 DEF Sound
<1>3. ~c.probe => Sound(EndLaunch(Publish(c, "stable")), {})
  <2> SUFFICES ASSUME ~c.probe PROVE Sound(EndLaunch(Publish(c, "stable")), {})
    OBVIOUS
  <2> DEFINE d == Publish(c, "stable")
  <2>1. "stable" \in Readiness \ {"stopped"} /\ "stable" # "ready"
    BY DEF Readiness, Classes
  <2>2. Base(d, {}) /\ Differs(c, d, {"readiness"}) /\ d.readiness = "stable"
    BY <1>1, <2>1, PublishSound
  <2> HIDE DEF d
  <2>3. d.launching = "validating" /\ d.crashLoop = c.crashLoop /\ d.jobs = <<>>
    BY <2>2, FieldsOf DEF Differs
  <2>4. "launch" \notin Live(d) /\ Told(d) = {} /\ {} \subseteq {"launch", "fresh"} /\ ("fresh" \in {} <=> d.launching = "activation")
    BY <2>2, <2>3, IdleTold DEF Base, LaunchSound
  <2>5. Base(EndLaunch(d), {}) /\ Held(EndLaunch(d))
    BY <1>1, <2>2, <2>3, <2>4, EndLaunchSound
  <2> QED BY <2>5 DEF Sound, d
<1> QED BY <1>2, <1>3

\* A request expires, in the queue or at the helper.
LEMMA ExpireSound ==
  ASSUME NEW c, Sound(c, {}), NEW who \in Asking(c)
  PROVE  /\ Sound(PumpWrites(Expired(c, who)), {})
         /\ Sound(HandleFault(Expired(c, who), "transient"), {})
<1> DEFINE e == Expired(c, who)
<1>1. Moves(c, e, {}, {})
  BY BaseReady, ExpiredMoves DEF Sound
<1>2. Base(e, {}) /\ Held(e)
  BY <1>1, MovesSound DEF Sound
<1> HIDE DEF e
<1>3. Sound(PumpWrites(e), {})
  BY <1>2, PumpWritesSound DEF Sound
<1>4. Sound(HandleFault(e, "transient"), {})
  BY <1>2, HandleFaultSound DEF Sound, Classes
<1> QED BY <1>3, <1>4 DEF e

\* The helper answers.
LEMMA AnswerSound ==
  ASSUME NEW c, Sound(c, {}), c.sent # "none", NEW how \in Hows
  PROVE  Sound(Settle([c EXCEPT !.sent = "none"], c.sent, how), {}) /\ Sound(Answered(c, how), {})
<1> DEFINE e == Settle([c EXCEPT !.sent = "none"], c.sent, how)
<1>1. Moves(c, e, {}, {})
  BY BaseReady, AnsweredMoves DEF Sound
<1>2. Base(e, {}) /\ Held(e)
  BY <1>1, MovesSound DEF Sound
<1>3. Answered(c, how) = PumpWrites(e)
  BY DEF Answered
<1> HIDE DEF e
<1>4. Sound(PumpWrites(e), {})
  BY <1>2, PumpWritesSound DEF Sound
<1> QED BY <1>2, <1>3, <1>4 DEF e, Sound

\* A fault, and the end of a helper that failed.
LEMMA FaultSound ==
  ASSUME NEW c, Sound(c, {}), NEW why \in Classes
  PROVE  Sound(HandleFault(c, why), {}) /\ Sound(TerminateCurrent(c, why), {})
<1>1. Sound(HandleFault(c, why), {})
  BY HandleFaultSound DEF Sound
<1>2. Sound(TerminateCurrent(c, why), {})
  BY TerminateCurrentSound DEF Sound
<1> QED BY <1>1, <1>2

\* A malformed answer.
LEMMA GarbleSound ==
  ASSUME NEW c, Sound(c, {})
  PROVE  Sound(HandleFault(Garbled(c), "stable"), {})
<1>1. Sound(Garbled(c), {})
  <2>1. CASE c.sent = "none"
    BY <2>1 DEF Garbled
  <2>2. CASE c.sent # "none"
    <3>1. "transport" \in Hows
      BY HowsOf
    <3> QED BY <2>2, <3>1, AnswerSound DEF Garbled
  <2> QED BY <2>1, <2>2
<1> QED BY <1>1, FaultSound DEF Classes

\* The helper prints what it failed of.
LEMMA PrintsSound ==
  ASSUME NEW c, Sound(c, {}), NEW why \in Printed
  PROVE  Sound([c EXCEPT !.said = why], {})
<1> DEFINE d == [c EXCEPT !.said = why]
<1>1. Typed(c) /\ why \in Classes
  BY PrintedAssumption DEF Sound, Base
<1>2. Differs(c, d, {"said"}) /\ d.said = why
  BY <1>1, FieldsOf DEF Typed, IsClient, Differs
<1> HIDE DEF d
<1>3. {"said"} \in SUBSET Quiet /\ \A field \in {"said"} : d[field] \in Types[field]
  BY <1>1, <1>2, TypesOf DEF Quiet
<1>4. Quieter(c, d)
  BY <1>1, <1>2, <1>3, QuieterBy
<1> QED BY <1>4, QuieterSound DEF Sound, d

\* The application configures its shortcuts.
LEMMA ConfigureActionSound ==
  ASSUME NEW c, Sound(c, {}), c.jobs = <<>>, ~Configuring(c), NEW enabled \in BOOLEAN
  PROVE  Sound(Configure(c, enabled), {})
<1>1. {"intent", "rollback"} \cap Live(c) = {}
  <2>1. {"intent", "rollback"} \cap Asking(c) = {} /\ {"intent", "rollback"} \cap Waiting(c) = {}
    BY Kinds, Distinct DEF Sound, Base, Operations
  <2>2. {"intent", "rollback"} \cap Ops(c) = {}
    BY DEF Configuring, Ops, Op
  <2> QED BY <2>1, <2>2, IdleTold DEF Live
<1>2. ~(~c.child /\ (c.stop \in {"exit", "killed"} \/ "stop" \in c.dispatched))
  <2>1. ~c.child => c.stop \in {"none", "asked"} /\ Live(c) = {}
    BY IdleGone DEF Sound
  <2>2. "stop" \in c.dispatched => c.stop # "none" /\ (c.stop = "asked" => "stop" \in Live(c) \cup {})
    BY DEF Sound, Base, StopSound
  <2> QED BY <2>1, <2>2
<1> QED BY <1>1, <1>2, ConfigureSound DEF Sound

\* What the exit of the process changes, once its channel is closed.
ExitFields ==
  {"child", "authoritative", "terminating", "planned", "termination", "waits", "said", "dispatched",
   "launching", "seen"}

\* The exit leaves every name in its place, but for those that waited for
\* stderr.
LEMMA ExitPlumbed ==
  ASSUME NEW f, NEW e, Plumbed(f), Differs(f, e, ExitFields), e.waits = <<>>, f.sent = "none",
         e.dispatched = f.dispatched \ {"termination"}
  PROVE  Plumbed(e) /\ Asking(e) = Asking(f) /\ Told(e) = Told(f) /\ Waiting(e) = {} /\ Ops(e) = Ops(f)
<1>1. Differs(f, e, Scalars \cup {"running", "operations", "waits"})
  BY FieldsOf DEF Differs, Scalars, ExitFields
<1>2. e.reset = f.reset /\ e.running = f.running /\ e.operations = f.operations
  BY FieldsOf DEF Differs, ExitFields
<1>3. /\ e.dispatched \subseteq f.dispatched /\ (f.sent \in Shutdowns => f.sent \in e.dispatched)
      /\ \A r \in Resetters \cap (Asking(f) \cup Told(f)) : e.reset[r] = f.reset[r]
  BY <1>2 DEF Shutdowns
<1>4. WaitsSound(e) /\ Waiting(e) = {}
  BY DEF WaitsSound, Unique, Waiting, Names
<1>5. Op(e) = Op(f)
  BY <1>2 DEF Op
<1>6. OperationsSound(e) /\ Ops(e) = Ops(f)
  BY <1>2, <1>5 DEF Plumbed, OperationsSound, Ops
<1>7. Ops(e) \cap Told(f) = {} /\ Waiting(e) \cap (Told(f) \cup Asking(f)) = {}
  BY <1>4, <1>6 DEF Plumbed, Apart
<1> QED BY <1>1, <1>3, <1>4, <1>6, <1>7, Kept

\* The helper is gone; the resets of the launch that waited and the stop that
\* waited are in hand.
LEMMA ExitBase ==
  ASSUME NEW c, Base(c, {}), c.jobs = <<>>, c.child,
         NEW f, Base(f, {}), Live(f) = Live(c), Asking(f) = {}, f.channel = "closed",
         Differs(c, f, Wires \cup Quiet), f.dispatched = c.dispatched,
         NEW e, Differs(f, e, ExitFields),
         e.child = FALSE, e.authoritative = FALSE, e.terminating = FALSE, e.planned = "none",
         e.termination = "none", e.waits = <<>>, e.said = "nothing",
         e.dispatched = f.dispatched \ {"termination"}, e.seen \in Snapshots,
         e.launching = IF "launch" \in Waiting(c) THEN "none" ELSE c.launching,
         NEW S, S = (IF "launch" \in Waiting(c) THEN {r \in Resetters : c.reset[r] = "starting"} ELSE {}),
         NEW T, T = (IF c.stop \in {"exit", "killed"} THEN {"stopper"} ELSE {})
  PROVE  Base(e, S \cup T)
<1> DEFINE H == Live(c) \cup {}
           X == S \cup T
           G == Live(e) \cup X
<1>1. /\ LaunchSound(c, H) /\ HealthSound(c, H) /\ ReconcilerSound(c, H) /\ StopSound(c, H)
      /\ ResetSound(c, H) /\ CircuitSound(c) /\ Typed(c) /\ Plumbed(c)
      /\ Typed(f) /\ Plumbed(f)
  BY DEF Base
<1>2. /\ e.desired = c.desired /\ e.started = c.started
      /\ e.health = c.health /\ e.stop = c.stop /\ e.timer = c.timer /\ e.crashLoop = c.crashLoop
      /\ e.probe = c.probe /\ e.reset = c.reset /\ e.readiness = c.readiness
      /\ e.running = c.running /\ e.operations = c.operations /\ e.channel = "closed"
      /\ f.reset = c.reset /\ f.launching = c.launching /\ f.sent = "none"
      /\ f.running = c.running /\ f.operations = c.operations
  <2>1. f.sent = "none"
    BY DEF Asking
  <2> QED BY <2>1, FieldsOf DEF Differs, Wires, Quiet, ExitFields
<1>3. c.launching # "validating" /\ "stopper" \notin Live(c) /\ c.stop # "begun"
  BY <1>1, IdleNotBegun DEF LaunchSound
<1>4. Typed(e)
  <2>1. /\ e["child"] \in Types["child"] /\ e["authoritative"] \in Types["authoritative"]
        /\ e["terminating"] \in Types["terminating"] /\ e["planned"] \in Types["planned"]
        /\ e["termination"] \in Types["termination"] /\ e["said"] \in Types["said"]
        /\ e["launching"] \in Types["launching"] /\ e["seen"] \in Types["seen"]
    <3>1. e.launching \in {"none", "validating", "initialize", "snapshot", "off", "activation", "failed"}
      BY <1>1, TypedFields
    <3>2. e.child \in BOOLEAN /\ e.authoritative \in BOOLEAN /\ e.terminating \in BOOLEAN
      OBVIOUS
    <3> QED BY <3>1, <3>2, TypesOf
  <2>2. \A field \in ExitFields \ Loose : e[field] \in Types[field]
    BY <2>1 DEF ExitFields, Loose
  <2> QED BY <1>1, <2>2, TypedKept
<1>5. /\ Plumbed(e) /\ Asking(e) = {} /\ Told(e) = Told(f) /\ Waiting(e) = {} /\ Ops(e) = Ops(f)
      /\ Live(e) = Told(f) \cup Ops(f)
  <2>1. Plumbed(e) /\ Asking(e) = Asking(f) /\ Told(e) = Told(f) /\ Waiting(e) = {} /\ Ops(e) = Ops(f)
    BY <1>1, <1>2, ExitPlumbed
  <2> QED BY <2>1 DEF Live
  \* What waited for stderr is gone; whatever else was awaited still is.
<1>6. Live(e) = Live(c) \ Waiting(c)
  <2>1. Waiting(f) = Waiting(c) /\ Ops(f) = Ops(c)
    <3>1. f.waits = c.waits /\ Op(f) = Op(c)
      BY <1>2, FieldsOf DEF Differs, Wires, Quiet, Op
    <3> QED BY <1>2, <3>1 DEF Waiting, Ops
  <2>2. Live(f) = Told(f) \cup Ops(f) \cup Waiting(f)
    BY DEF Live
  <2>3. Told(f) \cap Waiting(f) = {}
    BY <1>1 DEF Plumbed, Apart
  <2>4. Ops(f) \cap Waiting(f) = {}
    BY <1>1, Kinds, Distinct
  <2> QED BY <1>5, <2>1, <2>2, <2>3, <2>4
<1>7. /\ Waiting(c) \subseteq {"launch", "fault"} /\ S \subseteq Resetters /\ T \subseteq {"stopper"}
      /\ Live(c) = Asking(c) \cup Ops(c) \cup Waiting(c)
  BY <1>1, Kinds, IdleTold DEF Live
<1>8. \A w \in {"fresh", "health", "session", "configure", "reconciler", "intent", "rollback", "stop", "termination"} :
        w \in G <=> w \in H
  <2>1. \A w \in {"fresh", "health", "session", "configure", "reconciler", "intent", "rollback", "stop", "termination"} :
          w \notin Waiting(c) /\ w \notin X
    BY <1>7, Distinct DEF Operations, Shutdowns
  <2> HIDE DEF X
  <2> QED BY <1>6, <2>1
<1>9. /\ "stopper" \in G <=> c.stop \in {"exit", "killed"}
      /\ "launch" \in G <=> "launch" \in H /\ "launch" \notin Waiting(c)
      /\ \A r \in Resetters : r \in G <=> r \in H \/ r \in S
  <2>1. "stopper" \notin Resetters /\ "launch" \notin Resetters /\ "stopper" # "launch"
        /\ \A r \in Resetters : r \notin Waiting(c) /\ r \notin T
    BY <1>7, Distinct
  <2>2. "stopper" \in G <=> c.stop \in {"exit", "killed"}
    BY <1>3, <1>6, <1>7, <2>1
  <2>3. "launch" \in G <=> "launch" \in H /\ "launch" \notin Waiting(c)
    BY <1>6, <1>7, <2>1
  <2>4. \A r \in Resetters : r \in G <=> r \in H \/ r \in S
    BY <1>6, <2>1
  <2> QED BY <2>2, <2>3, <2>4
<1>10. \A r \in Resetters : r \in H => c.reset[r] = "off"
  <2>1. \A r \in Resetters : r \notin Ops(c) \cup Waiting(c)
    BY <1>1, Kinds, Distinct
  <2> QED BY <1>1, <1>7, <2>1 DEF Plumbed, QueueSound
<1>11. X \cap Live(e) = {}
  <2>1. S \cap Live(c) = {}
    BY <1>10
  <2> QED BY <1>3, <1>6, <1>7, <2>1
<1>12. "launch" \in Waiting(c) => c.launching = "failed"
  BY <1>1 DEF LaunchSound
<1>13. "launch" \notin Waiting(c) => c.launching # "failed"
  <2>1. "launch" \in H /\ c.launching = "failed" => "launch" \in Waiting(c)
    <3>1. "launch" \notin Ops(c)
      BY <1>1, Kinds, Distinct
    <3> QED BY <1>1, <1>7, <3>1 DEF LaunchSound
  <2> HIDE DEF H
  <2> QED BY <1>1, <2>1 DEF LaunchSound
<1>14. Asking(c) \subseteq Shutdowns =>
         e.launching = "none" /\ e.health = "none" /\ G \subseteq {"stopper", "stop", "termination"} \cup Resetters
  <2> SUFFICES ASSUME Asking(c) \subseteq Shutdowns
               PROVE  e.launching = "none" /\ e.health = "none" /\ G \subseteq {"stopper", "stop", "termination"} \cup Resetters
    OBVIOUS
  <2>1. Ops(c) = {} /\ c.health = "none" /\ c.launching \in {"none", "validating", "failed"}
    BY ShutdownsOnly
  <2>2. e.launching = "none" /\ e.health = "none"
    BY <1>2, <1>3, <1>13, <2>1
  <2>3. Live(e) \subseteq Shutdowns
    BY <1>6, <1>7, <2>1
  <2> QED BY <1>7, <2>2, <2>3 DEF Shutdowns
<1>15. /\ e.launching = (IF "launch" \in Waiting(c) THEN "none" ELSE c.launching)
       /\ \A r \in Resetters : r \in S <=> "launch" \in Waiting(c) /\ c.reset[r] = "starting"
  OBVIOUS
<1> HIDE DEF H, G, X
<1>16. LaunchSound(e, G)
  <2>1. "launch" \in G <=> e.launching \in {"initialize", "snapshot", "off", "failed"}
    BY <1>1, <1>9, <1>12, <1>13, <1>15 DEF LaunchSound
  <2>2. "launch" \in Asking(e) \cup Told(e) => e.launching # "failed"
    BY <1>12, <1>13, <1>15
  <2>3. "fresh" \in G <=> e.launching = "activation" \/ e.health = "fresh"
    BY <1>1, <1>2, <1>8, <1>12, <1>15 DEF LaunchSound
  <2>4. e.health # "none" => e.launching \in {"none", "validating"}
    BY <1>1, <1>2, <1>15 DEF LaunchSound
  <2>5. e.launching # "validating"
    BY <1>3, <1>15
  <2> QED BY <1>5, <2>1, <2>2, <2>3, <2>4, <2>5 DEF LaunchSound
<1>17. HealthSound(e, G) /\ ReconcilerSound(e, G) /\ CircuitSound(e)
  <2>1. HealthSound(e, G) /\ ReconcilerSound(e, G)
    BY <1>1, <1>2, <1>8 DEF HealthSound, ReconcilerSound
  <2>2. e.launching # "validating"
    BY <1>3, <1>15
  <2> QED BY <1>1, <1>2, <2>1, <2>2 DEF CircuitSound
<1>18. StopSound(e, G)
  <2>1. "stop" \in e.dispatched => "stop" \in c.dispatched
    OBVIOUS
  <2>2. "stop" \in e.dispatched \/ e.stop \in {"exit", "killed"} => Asking(c) \subseteq Shutdowns
    BY <1>1, <1>2, <2>1 DEF StopSound
  <2>3. e.launching # "validating"
    BY <1>3, <1>15
  <2>4. e.channel = "closed" /\ e.termination = "none" /\ ~e.child
    BY <1>2
  <2> QED BY <1>1, <1>2, <1>3, <1>5, <1>8, <1>9, <1>14, <2>1, <2>2, <2>3, <2>4 DEF StopSound
<1>19. ResetSound(e, G)
  <2> SUFFICES ASSUME NEW r \in Resetters
               PROVE  /\ ResetFits(e, G, r)
                      /\ e.reset[r] = "stopping" =>
                           IF r \in G THEN e.stop = "none" \/ (e.stop = "begun" /\ ~e.desired) ELSE e.stop # "none"
    BY DEF ResetSound
  <2>1. /\ ResetFits(c, H, r) /\ (r \in G <=> r \in H \/ r \in S) /\ (r \in H => c.reset[r] = "off")
        /\ (r \in S <=> "launch" \in Waiting(c) /\ c.reset[r] = "starting")
        /\ c.reset[r] = "stopping" =>
             IF r \in H THEN c.stop = "none" \/ (c.stop = "begun" /\ ~c.desired) ELSE c.stop # "none"
    BY <1>1, <1>9, <1>10, <1>15 DEF ResetSound
  <2>2. c.reset[r] = "starting" => IF r \in G THEN e.launching = "none" ELSE e.launching # "none"
    BY <1>15, <2>1 DEF ResetFits
  <2> QED BY <1>2, <2>1, <2>2 DEF ResetFits
<1> QED BY <1>4, <1>5, <1>11, <1>16, <1>17, <1>18, <1>19 DEF Base, G, X

\* The exit of the helper, whatever was under way.
LEMMA ExitSound ==
  ASSUME NEW c, Sound(c, {}), c.jobs = <<>>, c.child, NEW how \in Hows, NEW kept \in Nat
  PROVE  LET closed == [Forget(Close(c)) EXCEPT !.child = FALSE, !.authoritative = FALSE, !.terminating = FALSE,
                                                !.planned = "none", !.termination = "none", !.waits = <<>>,
                                                !.said = "nothing", !.dispatched = @ \ {"termination"}]
             launch == IF \E i \in DOMAIN c.waits : c.waits[i].who = "launch" THEN EndLaunch(closed) ELSE closed
             gone == IF c.stop \in {"exit", "killed"} THEN Settle(launch, "stopper", how) ELSE launch
             why == Explained(c, IF c.planned = "none" THEN "transient" ELSE c.planned)
         IN  Sound(IF ~c.desired \/ c.stop # "none" THEN gone ELSE RecordFailure(gone, why, kept), {})
<1> DEFINE k == Close(c)
           f == Forget(k)
           closed == [f EXCEPT !.child = FALSE, !.authoritative = FALSE, !.terminating = FALSE,
                               !.planned = "none", !.termination = "none", !.waits = <<>>,
                               !.said = "nothing", !.dispatched = @ \ {"termination"}]
           waited == \E i \in DOMAIN c.waits : c.waits[i].who = "launch"
           e == IF waited THEN [closed EXCEPT !.launching = "none", !.seen = "owner"] ELSE closed
           launch == IF waited THEN EndLaunch(closed) ELSE closed
           gone == IF c.stop \in {"exit", "killed"} THEN Settle(launch, "stopper", how) ELSE launch
           why == Explained(c, IF c.planned = "none" THEN "transient" ELSE c.planned)
           S == IF "launch" \in Waiting(c) THEN {r \in Resetters : c.reset[r] = "starting"} ELSE {}
           T == IF c.stop \in {"exit", "killed"} THEN {"stopper"} ELSE {}
           s == ResettersIn(closed, "starting")
           result == IF ~c.desired \/ c.stop # "none" THEN gone ELSE RecordFailure(gone, why, kept)
<1>0. SUFFICES Sound(result, {})
  OBVIOUS
<1>1. Base(c, {}) /\ Held(c) /\ Typed(c)
  BY DEF Sound, Base
<1>2. /\ Base(k, {}) /\ (Held(c) => Held(k)) /\ Differs(c, k, Wires) /\ k.channel = "closed" /\ Asking(k) = {}
      /\ Live(k) \cup {} = Live(c) \cup {} /\ k.dispatched = c.dispatched
  <2>1. k.dispatched = c.dispatched
    BY <1>1, FieldsOf DEF Close, SettleAll, Typed, IsClient
  <2> QED BY <1>1, <2>1, CloseSound
<1> HIDE DEF k
<1>3. Base(f, {}) /\ Quieter(k, f)
  BY <1>2, QuietOperations, QuieterSound DEF Base
<1>4. /\ f.channel = "closed" /\ f.dispatched = c.dispatched /\ Live(f) = Live(c) /\ Asking(f) = {}
      /\ Differs(c, f, Wires \cup Quiet) /\ Typed(f)
  <2> HIDE DEF f
  <2>1. /\ f.channel = k.channel /\ f.sent = k.sent /\ f.queue = k.queue /\ f.jobs = k.jobs
        /\ f.running = k.running /\ f.operations = k.operations /\ f.waits = k.waits /\ f.dispatched = k.dispatched
    BY <1>3, QuieterFields
  <2>2. Asking(f) = Asking(k) /\ Told(f) = Told(k) /\ Waiting(f) = Waiting(k) /\ Op(f) = Op(k)
    BY <2>1 DEF Asking, Told, Waiting, Op
  <2>3. Ops(f) = Ops(k)
    BY <2>1, <2>2 DEF Ops
  <2>4. Differs(c, f, Wires \cup Quiet) /\ Typed(f)
    BY <1>2, <1>3 DEF Quieter, Differs
  <2> QED BY <1>2, <2>1, <2>2, <2>3, <2>4 DEF Live
<1> HIDE DEF f
<1>5. waited <=> "launch" \in Waiting(c)
  BY DEF Waiting, Names
<1>6. /\ Differs(f, closed, ExitFields) /\ closed.child = FALSE /\ closed.authoritative = FALSE
      /\ closed.terminating = FALSE /\ closed.planned = "none" /\ closed.termination = "none"
      /\ closed.waits = <<>> /\ closed.said = "nothing" /\ closed.dispatched = f.dispatched \ {"termination"}
      /\ closed.launching = f.launching /\ closed.seen = f.seen
  <2>1. IsClient(f)
    BY <1>4 DEF Typed
  <2>2. /\ closed.child = FALSE /\ closed.authoritative = FALSE
        /\ closed.terminating = FALSE /\ closed.planned = "none" /\ closed.termination = "none"
        /\ closed.waits = <<>> /\ closed.said = "nothing"
    BY <2>1, FieldsOf DEF IsClient
  <2>3. closed.dispatched = f.dispatched \ {"termination"} /\ closed.launching = f.launching /\ closed.seen = f.seen
    BY <2>1, FieldsOf DEF IsClient
  <2>4. Differs(f, closed, ExitFields)
    BY <2>1, FieldsOf, ZenonT(40) DEF IsClient, Differs, ExitFields
  <2> QED BY <2>2, <2>3, <2>4
<1> HIDE DEF closed, waited
<1>7. closed.reset = c.reset /\ closed.launching = c.launching /\ f.seen \in Snapshots /\ "owner" \in Snapshots
  <2>1. f.seen \in Snapshots /\ "owner" \in Snapshots
    BY <1>4, TypedFields DEF Snapshots
  <2> QED BY <1>4, <1>6, <2>1, FieldsOf DEF Differs, ExitFields, Wires, Quiet
<1>8. /\ Differs(f, e, ExitFields) /\ e.child = FALSE /\ e.authoritative = FALSE
      /\ e.terminating = FALSE /\ e.planned = "none" /\ e.termination = "none"
      /\ e.waits = <<>> /\ e.said = "nothing" /\ e.dispatched = f.dispatched \ {"termination"}
      /\ e.launching = (IF "launch" \in Waiting(c) THEN "none" ELSE c.launching) /\ e.seen \in Snapshots
  <2>1. CASE ~waited
    BY <1>5, <1>6, <1>7, <2>1
  <2>2. CASE waited
    <3>1. Differs(closed, e, {"launching", "seen"}) /\ e.launching = "none" /\ e.seen = "owner"
      BY <1>6, <2>2, FieldsOf DEF IsClient, Differs
    <3> HIDE DEF e
    <3>2. Differs(f, e, ExitFields)
      BY <1>6, <3>1 DEF Differs, ExitFields
    <3>3. /\ e.child = closed.child /\ e.authoritative = closed.authoritative
          /\ e.terminating = closed.terminating /\ e.planned = closed.planned /\ e.termination = closed.termination
          /\ e.waits = closed.waits /\ e.said = closed.said /\ e.dispatched = closed.dispatched
      BY <3>1, FieldsOf DEF Differs
    <3> QED BY <1>5, <1>6, <1>7, <2>2, <3>1, <3>2, <3>3
  <2> QED BY <2>1, <2>2
<1>9. Base(e, S \cup T)
  <2> HIDE DEF e
  <2> QED BY <1>1, <1>3, <1>4, <1>8, ExitBase
<1>10. /\ s \in Seq(Whos) /\ IsInjective(s) /\ ToSet(s) = {r \in Resetters : c.reset[r] = "starting"}
  BY <1>7, ResettersInProperties
<1>11. launch = IF waited THEN SettleAll(e, s, "launched") ELSE e
  BY DEF EndLaunch
<1> HIDE DEF launch
<1>12. Base(launch, T) /\ (Held(e) => Held(launch)) /\ Differs(e, launch, Wires)
  <2>1. CASE ~waited
    <3>1. launch = e /\ S \cup T = T
      BY <1>5, <1>11, <2>1
    <3>2. Differs(e, e, Wires)
      BY <1>9 DEF Base, Typed, Differs
    <3> QED BY <1>9, <3>1, <3>2
  <2>2. CASE waited
    <3> HIDE DEF e
    <3>1. ToSet(s) = S /\ S \subseteq Resetters
      BY <1>5, <1>10, <2>2
    <3>2. "stopper" \notin ToSet(s) /\ "launch" \notin ToSet(s) /\ "launched" \in Hows
      BY <3>1, Distinct, HowsOf
    <3>3. Ready(e, S \cup T)
      BY <1>9, BaseReady
    <3>4. "stopper" \in Told(e) => \A r \in Resetters \cap ToSet(s) : e.reset[r] # "stopping"
      <4>1. e.reset = c.reset
        BY <1>4, <1>8, FieldsOf DEF Differs, ExitFields, Wires, Quiet
      <4> QED BY <1>10, <4>1
    <3>5. ToSet(s) \subseteq S \cup T
      BY <3>1
    <3>6. Moves(e, SettleAll(e, s, "launched"), S \cup T, (S \cup T) \ ToSet(s))
      BY <1>10, <3>2, <3>3, <3>4, <3>5, SettleAllMoves
    <3>7. (S \cup T) \ ToSet(s) = T
      BY <3>1, Distinct
    <3> HIDE DEF S, T, s
    <3> QED BY <1>9, <1>11, <2>2, <3>6, <3>7, MovesSound DEF Moves
  <2> QED BY <2>1, <2>2
<1>13. Base(gone, {}) /\ (Held(launch) => Held(gone)) /\ Differs(e, gone, Wires)
  <2>1. CASE c.stop \in {"exit", "killed"}
    <3>1. "stopper" \in Whos \cap T /\ "stopper" \notin Resetters /\ T \ {"stopper"} = {}
      BY <2>1, Distinct DEF Whos
    <3> HIDE DEF T
    <3>2. Base(Settle(launch, "stopper", how), T \ {"stopper"}) /\ (Held(launch) => Held(Settle(launch, "stopper", how)))
      BY <1>12, <3>1, SettleSound
    <3>3. Differs(launch, Settle(launch, "stopper", how), {"jobs"})
      BY <1>12, FieldsOf DEF Settle, Differs, IsClient
    <3>4. Differs(e, Settle(launch, "stopper", how), Wires)
      BY <1>12, <3>3 DEF Differs, Wires
    <3> QED BY <2>1, <3>1, <3>2, <3>4
  <2>2. CASE c.stop \notin {"exit", "killed"}
    <3>1. gone = launch /\ T = {}
      BY <2>2
    <3> HIDE DEF gone
    <3> QED BY <1>12, <3>1
  <2> QED BY <2>1, <2>2
<1> HIDE DEF gone
<1>14. /\ gone.child = FALSE /\ gone.desired = c.desired /\ gone.stop = c.stop /\ gone.launching = e.launching
       /\ gone.crashLoop = c.crashLoop /\ gone.probe = c.probe
       /\ e.desired = c.desired /\ e.stop = c.stop /\ e.unclean = c.unclean
  <2> HIDE DEF e
  <2>1. /\ e.desired = c.desired /\ e.stop = c.stop /\ e.crashLoop = c.crashLoop /\ e.probe = c.probe
        /\ e.unclean = c.unclean
    BY <1>4, <1>8, FieldsOf DEF Differs, ExitFields, Wires, Quiet
  <2> QED BY <1>8, <1>13, <2>1, FieldsOf DEF Differs, Wires
<1>15. CASE c.stop # "none"
  BY <1>13, <1>14, <1>15 DEF Sound, Held
<1>16. CASE c.stop = "none" /\ ~c.desired
  <2>1. c.launching \in {"none", "validating", "failed"} /\ c.unclean
    BY <1>1, <1>16 DEF Held
  <2> HIDE DEF e
  <2>2. Held(e)
    BY <1>8, <1>14, <1>16, <2>1 DEF Held
  <2> QED BY <1>12, <1>13, <1>16, <2>2 DEF Sound
<1>17. CASE c.stop = "none" /\ c.desired
  <2>1. why \in Classes \cup {"shutdown"}
    BY <1>1, TypedFields DEF Explained, Classes
  <2> HIDE DEF why, e
  <2>2. c.crashLoop => c.probe
    BY <1>1 DEF Base, CircuitSound
  <2>3. gone.launching # "validating"
    BY <1>1, <1>8, <1>14 DEF Base, LaunchSound
  <2>4. Base(RecordFailure(gone, why, kept), {}) /\ Held(RecordFailure(gone, why, kept))
    BY <1>13, <1>14, <1>17, <2>1, <2>2, <2>3, RecordFailureSound
  <2> QED BY <1>17, <2>4 DEF Sound
<1> QED BY <1>15, <1>16, <1>17, <1>1, TypedFields

\* A client that was never started, or one that is sound; what the helper has
\* enabled and whose owner it is are whatever they may be.
HelperSound ==
  /\ h = NewClient \/ Sound(h, {})
  /\ native \in BOOLEAN /\ owner \in {"known", "changed"}

\* The next microtask of a client that is sound leaves it sound.
LEMMA MicrotaskSound ==
  ASSUME Sound(h, {}), native \in BOOLEAN, owner \in {"known", "changed"}, Microtask
  PROVE  HelperSound'
<1> DEFINE d == [h EXCEPT !.jobs = Tail(@)]
           job == Head(h.jobs)
<1>1. h.jobs # <<>> /\ h' = Continue(d, job, owner = "changed") /\ native' = native
      /\ owner' \in {"known", "changed"}
  BY DEF Microtask
<1>2. /\ Base(d, {job.who}) /\ Freed(d) /\ job.who \in Whos /\ job.how \in Hows
      /\ job.who = "stopper" => \A r \in Resetters : d.reset[r] = "stopping" => r \notin Told(d)
      /\ job.who = "launch" => d.launching # "failed"
      /\ Held(d) \/ (job.who \in Resetters /\ d.reset[job.who] = "stopping" /\ job.how = "stopped")
  BY <1>1, TailSound
<1> HIDE DEF d, job
<1>3. (owner = "changed") \in BOOLEAN
  OBVIOUS
<1>4. Sound(Continue(d, job, owner = "changed"), {})
  BY <1>2, <1>3, ContinueSound
<1> QED BY <1>1, <1>4 DEF HelperSound

\* So does what the application asks for.
LEMMA ApplicationSound ==
  ASSUME Sound(h, {}), native \in BOOLEAN, owner \in {"known", "changed"}, Application
  PROVE  HelperSound'
<1>1. Base(h, {}) /\ Typed(h)
  BY DEF Sound, Base
<1>2. h.started = TRUE
  <2>1. "started" \in DOMAIN Types /\ Types["started"] = {TRUE}
    BY DEF Types
  <2> QED BY <1>1, <2>1 DEF Typed
<1>3. CASE Start
  BY <1>2, <1>3 DEF Start
<1>4. CASE Stop
  <2>1. h.jobs = <<>> /\ h' = StopCurrentProcess([CloseCircuit(h) EXCEPT !.desired = FALSE])
        /\ native' = native /\ owner' = owner
    BY <1>4 DEF Stop, Happens, Idle
  <2> QED BY <2>1, StopActionSound DEF HelperSound
<1>5. ASSUME NEW r \in Resetters, ResetSessionCapture(r) PROVE HelperSound'
  <2>1. /\ h.jobs = <<>> /\ h.reset[r] = "none" /\ h.desired
        /\ h' = StopCurrentProcess(ResetAt(h, r, "stopping"))
        /\ native' = native /\ owner' = owner
    BY <1>5 DEF ResetSessionCapture, Happens, Idle
  <2> QED BY <1>1, <2>1, ResetBegins DEF HelperSound, Sound
<1>6. ASSUME NEW enabled \in BOOLEAN, ConfigureActivation(enabled) PROVE HelperSound'
  <2>1. h.jobs = <<>> /\ ~Configuring(h) /\ h' = Configure(h, enabled) /\ native' = native /\ owner' = owner
    BY <1>6 DEF ConfigureActivation, Happens, Idle
  <2> QED BY <2>1, ConfigureActionSound DEF HelperSound
<1> QED BY <1>3, <1>4, <1>5, <1>6 DEF Application

\* So does the end of a validation, whatever was found.
LEMMA ValidatedSound ==
  ASSUME Sound(h, {}), native \in BOOLEAN, owner \in {"known", "changed"}, NEW fails, NEW kept,
         Validated(fails, kept)
  PROVE  HelperSound'
<1>1. Base(h, {}) /\ Typed(h) /\ h.failures \in Nat
  <2>1. Base(h, {}) /\ Typed(h)
    BY DEF Sound, Base
  <2>2. h.failures \in 0 .. FailureLimit - 1
    BY <2>1, TypedFields
  <2> QED BY <2>1, <2>2, FailureLimitAssumption
<1>2. /\ h.launching = "validating" /\ kept \in 0 .. h.failures /\ h.jobs = <<>>
      /\ h' = IF ~h.desired THEN EndLaunch(h)
              ELSE IF fails = "no" THEN Spawn(h)
              ELSE IF fails = "spawn" \/ h.probe THEN EndLaunch(RecordFailure(h, "transient", kept))
              ELSE EndLaunch(Publish(h, "stable"))
      /\ owner' \in {"known", "changed"} /\ native' \in BOOLEAN
  BY DEF Validated, Happens, Idle
<1>3. kept \in Nat
  BY <1>1, <1>2
<1>4. ~h.desired => Sound(EndLaunch(h), {})
  BY <1>2, ValidationEnds
<1>5. h.desired => Sound(Spawn(h), {})
  BY <1>1, <1>2, SpawnSound DEF Sound
<1>6. h.desired => Sound(EndLaunch(RecordFailure(h, "transient", kept)), {})
  BY <1>2, <1>3, ProbeFailed
<1>7. ~h.probe => Sound(EndLaunch(Publish(h, "stable")), {})
  BY <1>2, ValidationEnds
<1> QED BY <1>2, <1>4, <1>5, <1>6, <1>7 DEF HelperSound

\* So does a deadline of an ordinary request.
LEMMA ExpirySound ==
  ASSUME Sound(h, {}), native \in BOOLEAN, owner \in {"known", "changed"}, NEW who \in Requesters, Expire(who)
  PROVE  HelperSound'
<1>1. who \in Asking(h)
  <2>1. who # "none"
    BY Distinct DEF Requesters, Shutdowns
  <2>2. who = h.sent \/ who \in ToSet(h.queue)
    BY DEF Expire
  <2> QED BY <2>1, <2>2 DEF Asking
<1>2. h.asked \in BOOLEAN
  BY TypedFields DEF Sound, Base
<1>3. /\ h' = IF IgnoredWhenLate(h, who) THEN PumpWrites(Expired(h, who))
              ELSE HandleFault(Expired(h, who), "transient")
      /\ native' \in BOOLEAN /\ owner' = owner
  BY <1>2 DEF Expire, Happens
<1> QED BY <1>1, <1>3, ExpireSound DEF HelperSound

\* So does each of the deadlines of a shutdown.
LEMMA ShutdownTimesOut ==
  ASSUME Sound(h, {}), native \in BOOLEAN, owner \in {"known", "changed"}, NEW who \in Shutdowns,
         PredecessorTimesOut(who) \/ ExitTimesOut(who) \/ KillTimesOut(who)
  PROVE  HelperSound'
<1>1. Base(h, {}) /\ Held(h) /\ native' = native /\ owner' = owner /\ h.jobs = <<>>
  BY DEF Sound, PredecessorTimesOut, ExitTimesOut, KillTimesOut, Happens, Idle
<1>2. CASE PredecessorTimesOut(who)
  <2>1. CASE who = "stop"
    <3> DEFINE w == Withdraw(h, "stop")
               d == IF ~h.child THEN EndStop(w, FALSE) ELSE [Forget(Close(w)) EXCEPT !.stop = "killed"]
    <3>1. h.stop = "asked" /\ "stop" \notin h.dispatched /\ h' = d
      BY <1>2, <2>1 DEF PredecessorTimesOut, Happens
    <3>2. Base(d, {}) /\ Held(d)
      BY <1>1, <3>1, StopTimesOutSound
    <3> HIDE DEF d
    <3> QED BY <1>1, <3>1, <3>2 DEF HelperSound, Sound
  <2>2. CASE who = "termination"
    <3> DEFINE d == [Close(Withdraw(h, "termination")) EXCEPT !.termination = "killed"]
    <3>1. h.termination = "asked" /\ "termination" \notin h.dispatched /\ h' = d
      BY <1>2, <2>2 DEF PredecessorTimesOut, Happens
    <3>2. Base(d, {}) /\ Held(d)
      BY <1>1, <3>1, TerminationTimesOutSound
    <3> HIDE DEF d
    <3> QED BY <1>1, <3>1, <3>2 DEF HelperSound, Sound
  <2> QED BY <2>1, <2>2 DEF Shutdowns
<1>3. CASE ExitTimesOut(who)
  <2>1. CASE who = "stop"
    <3> DEFINE d == [Forget(Close(h)) EXCEPT !.stop = "killed"]
    <3>1. h.stop = "exit" /\ h' = d
      BY <1>3, <2>1 DEF ExitTimesOut, Happens
    <3>2. Base(d, {}) /\ Held(d)
      BY <1>1, <3>1, KilledSound
    <3> HIDE DEF d
    <3> QED BY <1>1, <3>1, <3>2 DEF HelperSound, Sound
  <2>2. CASE who = "termination"
    <3> DEFINE d == [Close(h) EXCEPT !.termination = "killed"]
    <3>1. h.termination = "exit" /\ h' = d
      BY <1>3, <2>2 DEF ExitTimesOut, Happens
    <3>2. Base(d, {}) /\ Held(d)
      BY <1>1, <3>1, TerminationKilledSound
    <3> HIDE DEF d
    <3> QED BY <1>1, <3>1, <3>2 DEF HelperSound, Sound
  <2> QED BY <2>1, <2>2 DEF Shutdowns
<1>4. CASE KillTimesOut(who)
  <2>1. CASE who = "stop"
    <3>1. h.stop = "killed" /\ h' = EndStop(h, FALSE)
      BY <1>4, <2>1 DEF KillTimesOut, Happens
    <3> QED BY <1>1, <3>1, KillGivenUp DEF HelperSound, Sound
  <2>2. CASE who = "termination"
    <3> DEFINE d == [Publish(h, "stuck") EXCEPT !.termination = "none"]
    <3>1. h.termination = "killed" /\ h' = d
      BY <1>4, <2>2 DEF KillTimesOut, Happens
    <3>2. Base(d, {}) /\ Held(d)
      BY <1>1, <3>1, TerminationStuckSound
    <3> HIDE DEF d
    <3> QED BY <1>1, <3>1, <3>2 DEF HelperSound, Sound
  <2> QED BY <2>1, <2>2 DEF Shutdowns
<1> QED BY <1>2, <1>3, <1>4

\* So do the client's other timers.
LEMMA TimersSound ==
  ASSUME Sound(h, {}), native \in BOOLEAN, owner \in {"known", "changed"}, TimerFires
  PROVE  HelperSound'
<1>1. Base(h, {}) /\ Held(h)
  BY DEF Sound
<1>2. CASE Validated("no", 0)
  BY <1>2, ValidatedSound
<1>3. CASE Drained
  <2>1. h.waits # <<>> /\ h' = StderrDrained(h) /\ native' = native /\ owner' = owner
    BY <1>3 DEF Drained, Happens
  <2> QED BY <1>1, <2>1, StderrDrainedSound DEF HelperSound, Sound
<1>4. CASE RestartTimerFires
  <2>1. /\ h.timer # "none" /\ h.jobs = <<>> /\ h' = StartForIntent([h EXCEPT !.timer = "none"])
        /\ native' = native /\ owner' = owner
    BY <1>4 DEF RestartTimerFires, Happens, Idle
  <2> QED BY <2>1, RestartTimerSound DEF HelperSound
<1>5. CASE Heartbeat
  <2>1. /\ h.child /\ h.launching = "none" /\ h.health = "none" /\ h' = RefreshHealth(h)
        /\ native' = native /\ owner' = owner
    BY <1>5 DEF Heartbeat, Happens
  <2> QED BY <1>1, <2>1, RefreshHealthSound DEF HelperSound, Sound
<1>6. ASSUME NEW who \in Requesters, Expire(who) PROVE HelperSound'
  BY <1>6, ExpirySound
<1>7. ASSUME NEW who \in Shutdowns, PredecessorTimesOut(who) \/ ExitTimesOut(who) \/ KillTimesOut(who)
      PROVE  HelperSound'
  BY <1>7, ShutdownTimesOut
<1> QED BY <1>2, <1>3, <1>4, <1>5, <1>6, <1>7 DEF TimerFires

\* So does every answer of the helper.
LEMMA AnsweredSound ==
  ASSUME Sound(h, {}), native \in BOOLEAN, owner \in {"known", "changed"}, NEW how \in Hows, Answer(how)
  PROVE  HelperSound'
<1>1. h.asked \in BOOLEAN
  BY TypedFields DEF Sound, Base
<1>2. h.sent # "none" /\ h' = Answered(h, how) /\ native' \in BOOLEAN /\ owner' = owner
  BY <1>1 DEF Answer, Happens
<1> QED BY <1>2, AnswerSound DEF HelperSound

\* So does whatever goes wrong at the helper.
LEMMA FailureSound ==
  ASSUME Sound(h, {}), native \in BOOLEAN, owner \in {"known", "changed"}, HelperFails
  PROVE  HelperSound'
<1>1. Base(h, {}) /\ Typed(h) /\ h.failures \in Nat
  <2>1. Base(h, {}) /\ Typed(h)
    BY DEF Sound, Base
  <2>2. h.failures \in 0 .. FailureLimit - 1
    BY <2>1, TypedFields
  <2> QED BY <2>1, <2>2, FailureLimitAssumption
<1>2. "transient" \in Classes /\ "stable" \in Classes
  BY DEF Classes
<1>3. ASSUME NEW fails, NEW kept, Validated(fails, kept) PROVE HelperSound'
  BY <1>3, ValidatedSound
<1>4. ASSUME NEW answers \in BOOLEAN, Garble(answers) PROVE HelperSound'
  <2>1. h' = HandleFault(IF answers THEN Garbled(h) ELSE h, "stable") /\ native' = native /\ owner' = owner
    BY <1>4 DEF Garble, Happens
  <2> QED BY <1>2, <2>1, GarbleSound, FaultSound DEF HelperSound
<1>5. CASE TransportFails
  <2>1. h' = HandleFault(h, "transient") /\ native' = native /\ owner' = owner
    BY <1>5 DEF TransportFails, Happens
  <2> QED BY <1>2, <2>1, FaultSound DEF HelperSound
<1>6. CASE SpawnFails
  <2>1. h' = TerminateCurrent(h, "transient") /\ native' = native /\ owner' = owner
    BY <1>6 DEF SpawnFails, Happens
  <2> QED BY <1>2, <2>1, FaultSound DEF HelperSound
<1>7. ASSUME NEW why \in Printed, Prints(why) PROVE HelperSound'
  <2>1. h' = [h EXCEPT !.said = why] /\ native' = native /\ owner' = owner
    BY <1>7 DEF Prints, Happens
  <2>2. Sound([h EXCEPT !.said = why], {})
    BY PrintsSound
  <2> QED BY <2>1, <2>2 DEF HelperSound
<1>8. CASE OwnerRestarts
  BY <1>8 DEF OwnerRestarts, Happens, HelperSound
<1>9. ASSUME NEW how \in {"clean", "unclean"}, NEW kept, Exit(how, kept) PROVE HelperSound'
  <2> DEFINE closed == [Forget(Close(h)) EXCEPT !.child = FALSE, !.authoritative = FALSE, !.terminating = FALSE,
                                                !.planned = "none", !.termination = "none", !.waits = <<>>,
                                                !.said = "nothing", !.dispatched = @ \ {"termination"}]
             launch == IF \E i \in DOMAIN h.waits : h.waits[i].who = "launch" THEN EndLaunch(closed) ELSE closed
             gone == IF h.stop \in {"exit", "killed"} THEN Settle(launch, "stopper", how) ELSE launch
             why == Explained(h, IF h.planned = "none" THEN "transient" ELSE h.planned)
             result == IF ~h.desired \/ h.stop # "none" THEN gone ELSE RecordFailure(gone, why, kept)
  <2>1. h.child /\ kept \in 0 .. h.failures /\ h.jobs = <<>> /\ h' = result /\ native' = FALSE /\ owner' = "known"
    BY <1>9 DEF Exit, Happens, Idle
  <2>2. kept \in Nat /\ how \in Hows
    BY <1>1, <2>1 DEF Hows
  <2>3. Sound(result, {})
    BY <2>1, <2>2, ExitSound
  <2> HIDE DEF result
  <2> QED BY <2>1, <2>3 DEF HelperSound
<1> QED BY <1>3, <1>4, <1>5, <1>6, <1>7, <1>8, <1>9 DEF HelperFails

\* A client that was never started can only be started.
LEMMA NewClientStarts ==
  ASSUME h = NewClient, native \in BOOLEAN, owner \in {"known", "changed"}, Next
  PROVE  HelperSound'
<1>1. /\ h.jobs = <<>> /\ ~h.child /\ h.launching = "none" /\ h.timer = "none" /\ ~h.desired
      /\ h.sent = "none" /\ h.queue = <<>> /\ h.channel = "closed" /\ h.termination = "none"
      /\ h.stop = "none" /\ h.waits = <<>> /\ h.readiness = "stopped"
  BY DEF NewClient
<1>2. CASE Application
  <2>1. Start
    BY <1>1, <1>2 DEF Application, Stop, ResetSessionCapture, ConfigureActivation
  <2>2. h' = Launch([NewClient EXCEPT !.started = TRUE, !.desired = TRUE, !.timer = "none"])
        /\ native' = native /\ owner' = owner
    BY <2>1 DEF Start, Happens
  <2> QED BY <2>2, StartSound DEF HelperSound
<1>3. ~Microtask
  BY <1>1 DEF Microtask
<1>4. ~TimerFires
  <2>1. ASSUME NEW who \in Requesters PROVE ~Expire(who)
    <3>1. who # "none" /\ who \notin ToSet(h.queue)
      BY <1>1, Distinct DEF Requesters, Shutdowns, ToSet
    <3> QED BY <1>1, <3>1 DEF Expire
  <2>2. ASSUME NEW who \in Shutdowns PROVE ~PredecessorTimesOut(who) /\ ~ExitTimesOut(who) /\ ~KillTimesOut(who)
    BY <1>1 DEF Shutdowns, PredecessorTimesOut, ExitTimesOut, KillTimesOut
  <2>3. ~Validated("no", 0) /\ ~Drained /\ ~RestartTimerFires /\ ~Heartbeat
    BY <1>1 DEF Validated, Drained, RestartTimerFires, Heartbeat
  <2> QED BY <2>1, <2>2, <2>3 DEF TimerFires
<1>5. ~HelperFails
  BY <1>1 DEF HelperFails, Validated, Garble, TransportFails, SpawnFails, Prints, OwnerRestarts, Exit
<1>6. ~\E how \in {"ok", "missing", "denied", "replaced"} \cup Snapshots \cup Classes : Answer(how)
  BY <1>1 DEF Answer
<1> QED BY <1>2, <1>3, <1>4, <1>5, <1>6 DEF Next

\* Every step of the client, its application and its helper keeps HelperSound.
LEMMA HelperStep ==
  ASSUME HelperSound, [Next]_vars
  PROVE  HelperSound'
<1>1. CASE UNCHANGED vars
  BY <1>1 DEF vars, HelperSound
<1>2. CASE Next /\ h = NewClient
  BY <1>2, NewClientStarts DEF HelperSound
<1>3. CASE Next /\ Sound(h, {})
  <2>1. native \in BOOLEAN /\ owner \in {"known", "changed"}
    BY DEF HelperSound
  <2>2. ASSUME NEW how \in {"ok", "missing", "denied", "replaced"} \cup Snapshots \cup Classes, Answer(how)
        PROVE  HelperSound'
    <3>1. how \in Hows
      BY DEF Hows
    <3> QED BY <1>3, <2>1, <2>2, <3>1, AnsweredSound
  <2> QED BY <1>3, <2>1, <2>2, MicrotaskSound, ApplicationSound, TimersSound, FailureSound DEF Next
<1> QED BY <1>1, <1>2, <1>3 DEF HelperSound

-----------------------------------------------------------------------------
(* The theorems.                                                           *)

\* A client that was never started has what HelperTypeOK promises of it.
LEMMA NewClientTyped ==
  ASSUME h = NewClient, native \in BOOLEAN, owner \in {"known", "changed"}
  PROVE  HelperTypeOK
<1>1. ToSet(h.queue) = {} /\ ToSet(h.jobs) = {} /\ ToSet(h.operations) = {}
  BY DEF NewClient, ToSet
<1>2. FailureLimit \in Nat \ {0} /\ 0 \in 0 .. FailureLimit - 1
  BY FailureLimitAssumption
<1>3. h.reset \in [Resetters -> {"none", "stopping", "starting", "off"}] /\ h.failures \in 0 .. FailureLimit - 1
  BY <1>2 DEF NewClient
<1>4. h.readiness \in Readiness /\ h.seen \in Snapshots
  BY DEF NewClient, Readiness, Snapshots
<1> QED BY <1>1, <1>3, <1>4 DEF NewClient, HelperTypeOK

\* So has one that is sound.
LEMMA SoundTyped ==
  ASSUME Sound(h, {}), native \in BOOLEAN, owner \in {"known", "changed"}
  PROVE  HelperTypeOK
<1>1. Typed(h) /\ Plumbed(h)
  BY DEF Sound, Base
<1>2. h.started \in BOOLEAN
  <2>1. "started" \in DOMAIN Types /\ Types["started"] = {TRUE}
    BY DEF Types
  <2> QED BY <1>1, <2>1 DEF Typed
<1>3. {h.desired, h.started, h.child, h.missing, h.authoritative, h.terminating, h.stopFault,
       h.shutDown, h.unclean, h.crashLoop, h.probe, h.want, h.previous, h.blocked, h.applied,
       h.moved, h.asked, native} \subseteq BOOLEAN
  BY <1>1, <1>2, TypedFields
<1>4. /\ h.channel \in {"open", "draining", "closed"} /\ h.sent \in Requesters \cup {"none"}
      /\ h.dispatched \subseteq Shutdowns /\ h.queue \in Seq(Requesters) /\ h.operations \in Seq(Operations)
      /\ h.jobs \in Seq(Jobs)
  BY <1>1 DEF Plumbed, QueueSound, OperationsSound, JobsSound
<1>5. ToSet(h.queue) \subseteq Requesters /\ ToSet(h.operations) \subseteq Operations
  BY <1>4 DEF ToSet
<1>6. \A job \in ToSet(h.jobs) : job.who \in Requesters \cup Operations \cup {"reconciler", "stopper"}
  <2>1. ASSUME NEW job \in ToSet(h.jobs)
        PROVE  job.who \in Requesters \cup Operations \cup {"reconciler", "stopper"}
    <3>1. PICK i \in DOMAIN h.jobs : job = h.jobs[i]
      BY DEF ToSet
    <3>2. h.jobs[i] \in Jobs
      BY <1>4
    <3>3. job.who \in Whos
      BY <3>1, <3>2 DEF Jobs
    <3> QED BY <3>3 DEF Whos
  <2> QED BY <2>1
<1> QED BY <1>1, <1>3, <1>4, <1>5, <1>6, TypedFields DEF HelperTypeOK

\* What a client that is sound holds to while nothing is in hand.
LEMMA SoundWaits ==
  ASSUME Sound(h, {}), Idle, ~h.child, h.stop = "none", ~h.unclean, h.launching # "validating"
  PROVE  /\ h.crashLoop => h.timer = "window"
         /\ h.desired => h.timer # "none" \/ h.readiness \in {"stable", "shutdown"}
         /\ h.readiness # "ready"
<1>1. ~Returning(h)
  BY IdleTold DEF Idle
<1> QED BY <1>1 DEF Sound, Held

\* HelperSound is what the three promises below rest on.
LEMMA HelperSoundImplies ==
  ASSUME HelperSound
  PROVE  CircuitHolds /\ ShutdownIsLast /\ NeverAbandoned
<1>1. CASE h = NewClient
  <2>1. HelperTypeOK
    BY <1>1, NewClientTyped DEF HelperSound
  <2>2. /\ h.channel = "closed" /\ ~h.child /\ ~h.probe /\ ~h.crashLoop /\ ~h.desired /\ h.timer = "none"
        /\ h.launching = "none" /\ h.readiness = "stopped"
    BY <1>1 DEF NewClient
  <2> QED BY <2>1, <2>2 DEF CircuitHolds, ShutdownIsLast, NeverAbandoned
<1>2. CASE Sound(h, {})
  <2>1. HelperTypeOK
    BY <1>2, SoundTyped DEF HelperSound
  <2>2. CircuitSound(h) /\ QueueSound(h) /\ LaunchSound(h, Live(h) \cup {}) /\ Held(h)
    BY <1>2 DEF Sound, Base, Plumbed
  <2>3. CircuitHolds
    BY <1>2, <2>1, <2>2, SoundWaits DEF CircuitHolds, CircuitSound
  <2>4. ShutdownIsLast
    BY <2>2 DEF ShutdownIsLast, CircuitSound, QueueSound
  <2>5. h.launching = "validating" => h.readiness # "ready"
    BY <2>2 DEF LaunchSound
  <2>6. NeverAbandoned
    BY <1>2, <2>5, SoundWaits DEF NeverAbandoned
  <2> QED BY <2>3, <2>4, <2>6
<1> QED BY <1>1, <1>2 DEF HelperSound

\* The invariant that the client, its application and its helper keep, whatever
\* the limit of the failures, what the helper may print and however many ask
\* for resets.
THEOREM HelperInvariant == Spec => []HelperSound
<1>1. Init => HelperSound
  BY DEF Init, HelperSound
<1>2. HelperSound /\ [Next]_vars => HelperSound'
  BY HelperStep
<1> QED BY <1>1, <1>2, PTL DEF Spec

\* An open circuit waits out its whole window, and the fields have their types.
THEOREM HelperCircuitHolds == Spec => []CircuitHolds
<1>1. HelperSound => CircuitHolds
  BY HelperSoundImplies
<1> QED BY <1>1, HelperInvariant, PTL

\* A helper that is being ended hears of nothing but its shutdown, and a client
\* that has stopped will start nothing.
THEOREM HelperShutdownIsLast == Spec => []ShutdownIsLast
<1>1. HelperSound => ShutdownIsLast
  BY HelperSoundImplies
<1> QED BY <1>1, HelperInvariant, PTL

\* A client that wants a helper has one, is starting or stopping one, will
\* restart it, or has been told that no restart helps.
THEOREM HelperNeverAbandoned == Spec => []NeverAbandoned
<1>1. HelperSound => NeverAbandoned
  BY HelperSoundImplies
<1> QED BY <1>1, HelperInvariant, PTL

=============================================================================
