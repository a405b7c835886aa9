------------------------- MODULE WhisperProperties -------------------------
(***************************************************************************)
(* What the worker's client and its callers must keep.                     *)
(***************************************************************************)
EXTENDS WhisperSession

Phases == {"none", "term", "turn", "sent", "done"}

\* The state's shape: numbers stay in their ranges and leases name their holders.
WhisperTypeOK ==
  /\ w.lock.readers \subseteq Holders /\ w.lock.writer \in Holders \cup {Nobody}
  /\ \A slot \in Slots : w.req[slot].phase \in Phases /\ w.req[slot].gen \in 0..MaxGeneration
  /\ w.gen \in 0..MaxGeneration /\ w.lastExited \in 0..w.gen
  /\ w.restarts \in 0..MaxRestarts
  /\ w.retired \subseteq Generations
  /\ \A g \in Generations : w.leases[g] \subseteq Holders /\ w.job[g] \in Slots \cup {NoSlot}

\* What a worker reads the model's files for: what a caller with a use lease asked
\* it, also when the caller has given it up since, and the check of a verification
\* that is under way.
ReadsFor(s, slot) ==
  \/ slot \in Transcribers \cup {"push", "finish"}
  \/ slot \in Verifiers /\ s.pc[slot] = "checking"

Reading == {g \in Generations : w.alive[g] /\ ReadsFor(w, w.job[g])}

Changing == {m \in Mutators : w.pc[m] = "files"}

\* No worker process reads the model's files for a caller, or for a verification
\* under way, while a mutation changes them, whatever was cancelled, killed,
\* quarantined or restarted in between (ModelAccess, releaseUseWhenSafe).  A check
\* whose verification was cancelled is excepted: see LeaseCoversVerification.
ModelFiles == INSTANCE ModelUse WITH
  Workers <- Generations, Changers <- Mutators, reading <- Reading, changing <- Changing

FilesNeverChangeUnderUse == ModelFiles!Spec

\* A worker that still runs a caller's request, abandoned or not, is covered by that
\* caller's lease: releaseUseWhenSafe keeps it through a termination and a quarantine.
\* The lease of a verification covers its check while the verification waits for it.
UseCoversWork ==
  \A g \in Reading : OwnerOf(w.job[g]) \in w.lock.readers

\* Documented, and not so: "Model use leases cover verification, pipeline load, and
\* inference" (model-access-coordinator.ts:25), so that no mutation changes the files
\* while a worker checks them for a verification, be it cancelled.
LeaseCoversVerification ==
  Changing # {} => \A g \in Generations : w.alive[g] => w.job[g] \notin Verifiers

\* A lease that outlives its call is one a generation still owes: it is being
\* terminated, or it is quarantined.
NoUseLeaked ==
  \A user \in w.lock.readers :
    w.pc[user] = "over" =>
      \E g \in Generations : user \in w.leases[g] /\ (g \in w.retired \/ w.term.gen = g)

\* At most one request is with the worker at a time.
OneInFlight == Cardinality(Sent(w)) <= 1

\* No process is forgotten: one that lives is the current one or a quarantined one.
NoProcessForgotten ==
  \A g \in Generations : w.alive[g] => (g = w.gen /\ w.process) \/ g \in w.retired

\* Whatever fails, the client loses sight of no process and of no lease: both
\* stay the concern of a generation until it is gone.  (And the state has its type.)
NothingForgotten == WhisperTypeOK /\ NoUseLeaked /\ NoProcessForgotten

\* A request is told CANCELLED only when its own caller cancelled it or the client
\* closes; one that shared the worker with it is told that the worker crashed.
OnlyOwnCancellation ==
  \A slot \in Slots :
    w.req[slot].phase = "done" /\ w.req[slot].result = "cancelled" =>
      w.req[slot].asked \/ Closing(w)

\* What callers that share one worker may rely on: no request is overtaken by
\* another, and none is told of a cancellation that was not its own.
SharingIsFair == OneInFlight /\ OnlyOwnCancellation

\* Once close() was asked no worker process starts.
NoStartAfterClose ==
  [][w.closing # "no" => \A g \in Generations : w'.alive[g] => w.alive[g]]_w
=============================================================================
