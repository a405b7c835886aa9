--------------------------- MODULE OwnerInvariant ---------------------------
(***************************************************************************)
(* The inductive invariant behind the theorems of OwnerStateProofs.  Its   *)
(* parts are predicates of a state of the reducer, so that they can be     *)
(* followed through the private helpers, which call one another.           *)
(***************************************************************************)
EXTENDS OwnerProperties

HasKind(action, kind) == action # None /\ action.kind = kind

\* While the gate opens or is open no configuration is planned or under way:
\* the gate opens for the one that has been applied.
GateHoldsConfiguration(s) ==
  s.admission \in {"Opening", "Open"} =>
    /\ s.plan.config = None
    /\ \A i \in Slots : ~HasKind(s.pending[i], "Configuration")

\* The native stop is asked for once, and the owner is not running until it
\* has failed.
StopsOnce(s) ==
  /\ \A i \in Slots : HasKind(s.pending[i], "StopNative") => s.exit # "Running"
  /\ \A i, j \in Slots :
       HasKind(s.pending[i], "StopNative") /\ HasKind(s.pending[j], "StopNative") => i = j

\* Only a maintenance transaction has something persisted.
PersistsTransaction(s) ==
  \A i \in Slots : HasKind(s.pending[i], "Persist") => s.maintenance.phase # "None"

SealExcludesCapture(s) == s.maintenance.phase # "None" => ~IsCapture(s)

RollbackExcludesCapture(s) == s.rollback => ~IsCapture(s)

\* What was asked for was asked for by the lease that is held, and nothing
\* else counts as applied.
ReconciledForLease(s) ==
  /\ s.requested # None =>
       /\ IsCapture(s)
       /\ s.requested = [epoch |-> s.controller.epoch, revision |-> s.highWater]
  /\ s.applied # None => s.applied = s.requested

\* What every private helper preserves.
Core(s) ==
  /\ s \in State
  /\ GateHoldsConfiguration(s)
  /\ StopsOnce(s)
  /\ PersistsTransaction(s)
  /\ SealExcludesCapture(s)
  /\ RollbackExcludesCapture(s)
  /\ ReconciledForLease(s)

\* What enabling demanded, and an enabled lease keeps.
EnabledStays(s) ==
  s.controller.kind = "Enabled" =>
    /\ s.admission = "Open"
    /\ s.health = "Healthy" /\ s.exit = "Running"
    /\ ~s.rollback /\ ~s.unknown
    /\ s.maintenance.phase = "None"
    /\ s.predecessor = None
    /\ s.applied # None
    /\ KeyboardEligible(s)

\* Every public method preserves these parts together, and none of them can
\* be left out: a helper preserves Core in states in which an enabled lease
\* has already lost what it was enabled for.
InductiveInvariant == Core(owner) /\ EnabledStays(owner)

-----------------------------------------------------------------------------
(* The work behind the gate.  What is said of the tokens holds always; the *)
(* rest is said while native state is known, which is all the adapter and  *)
(* the reducer can agree on.                                               *)

\* Of these kinds one token is pending at a time: a command issues a semantic
\* token only when nothing is pending, the plan one dependent token only when
\* none is, a close merges into the one under way.
ClassOf(kind) ==
  IF kind \in DependentKinds THEN "Dependent"
  ELSE IF kind \in {"Open", "SessionMode", "AdmitPaste"} THEN "Semantic"
  ELSE kind

OneOfAClass(s) ==
  \A i, j \in Slots :
    /\ s.pending[i] # None /\ s.pending[j] # None
    /\ ClassOf(s.pending[i].kind) = ClassOf(s.pending[j].kind)
    => i = j

\* An uncertain cancellation stops the plan for good.
PoisonStops(s) ==
  s.poisoned => s.plan = NoDependents /\ \A kind \in DependentKinds : ~HasPending(s, kind)

\* Every doubt about the gate or a cancellation is one about native state.
DoubtIsUnknown(s) == s.emergency \/ s.poisoned \/ s.admission = "Unknown" => s.unknown

CloseUnderway(s) ==
  s.admission \in {"Closing", "Unknown"} /\ ~s.poisoned => HasPending(s, "Close") \/ s.emergency

\* No lease is granted before its predecessor has been told.
SuccessorWaits(s) == s.predecessor # None => ~IsCapture(s)

\* Before the close has been confirmed nothing is planned behind it but the
\* cancellation of a paste, and nothing else is under way or settled.
WorkWaitsForGate(s) ==
  s.admission # "Closed" =>
    /\ ~s.plan.candidate /\ s.plan.config = None /\ ~s.plan.persist
    /\ \A kind \in {"CancelCandidate", "Configuration", "Persist", "StopNative"} :
         ~HasPending(s, kind)
    /\ s.exit = "Running"
    /\ s.maintenance.phase \notin {"Persisting", "Exclusive", "Sealed"}

\* An opening that was overtaken by a close is superseded, and the gate does
\* not wait for it any more.
OpenIsWanted(s) ==
  \A i \in Slots : HasKind(s.pending[i], "Open") => ~s.pending[i].superseded

OpeningIsClear(s) ==
  s.admission = "Opening" =>
    /\ HasPending(s, "Open") /\ OpenIsWanted(s)
    /\ s.ownership.candidate # "Active"
    /\ s.pastePhase.kind = "None" /\ ~s.plan.paste

\* Behind a closed gate a candidate is one to cancel, before anything else.
CandidateIsPlanned(s) ==
  s.admission = "Closed" /\ s.ownership.candidate = "Active" => s.plan.candidate

AppliedWithoutCandidate(s) ==
  HasPending(s, "Configuration") \/ HasPending(s, "Persist") => s.ownership.candidate # "Active"

\* Behind a closed gate the plan is empty unless something is under way whose
\* confirmation continues it.
PlanContinues(s) ==
  s.admission = "Closed" /\ ~DependentsBlocked(s) =>
    ~s.plan.candidate /\ ~s.plan.paste /\ s.plan.config = None /\ ~s.plan.persist

PasteRecords(s) ==
  s.ownership.paste = IF s.pastePhase.kind = "Admitting" THEN "None" ELSE s.pastePhase.kind

CancellationUnderway(s) ==
  s.pastePhase.kind = "Cancelling" => s.plan.paste \/ HasPending(s, "CancelPaste")

\* A paste is being admitted as long as its token is pending.
AdmissionPends(s) ==
  s.pastePhase.kind = "Admitting" =>
    \E i \in Slots : HasKind(s.pending[i], "AdmitPaste") /\ s.pending[i].arg = s.pastePhase.auth

\* Nothing follows the persistence of a seal, so its confirmation need not
\* continue the plan.
PersistIsLast(s) ==
  HasPending(s, "Persist") =>
    /\ ~s.plan.candidate /\ ~s.plan.paste /\ s.plan.config = None /\ ~s.plan.persist
    /\ s.pastePhase.kind \notin {"Waiting", "Admitting"}

\* A transaction has cancelled the paste it found.
SealCancelsPaste(s) ==
  s.maintenance.phase # "None" =>
    /\ s.pastePhase.kind # "Waiting"
    /\ s.pastePhase.kind = "Admitting" => s.pastePhase.cancel

StoppedIsDrained(s) ==
  s.exit # "Running" =>
    /\ NativeNeutral(s.ownership)
    /\ s.plan = NoDependents /\ s.closePlan = None
    /\ s.predecessor = None /\ ~IsCapture(s)
    /\ s.pastePhase.kind = "None"
    /\ \A kind \in ActionKinds \ {"StopNative"} : ~HasPending(s, kind)

\* A neutral disposition stays true because nothing can begin any more.
NeutralStays(s) ==
  s.predecessor # None /\ s.predecessor.inFlight = "Neutral" =>
    /\ s.admission = "Closed" /\ NativeNeutral(s.ownership)
    /\ s.pastePhase.kind = "None"
    /\ ~s.plan.candidate /\ ~s.plan.paste

\* What every private helper preserves while native state is known.
Orderly(s) ==
  /\ WorkWaitsForGate(s)
  /\ AppliedWithoutCandidate(s)
  /\ PasteRecords(s) /\ CancellationUnderway(s) /\ AdmissionPends(s)
  /\ PersistIsLast(s) /\ SealCancelsPaste(s)
  /\ StoppedIsDrained(s) /\ NeutralStays(s)

\* What every public method preserves.
WorkSettled(s) ==
  /\ OneOfAClass(s) /\ PoisonStops(s) /\ DoubtIsUnknown(s)
  /\ CloseUnderway(s) /\ SuccessorWaits(s)
  /\ ~s.unknown =>
       Orderly(s) /\ OpeningIsClear(s) /\ CandidateIsPlanned(s) /\ PlanContinues(s)

WorkInvariant == WorkSettled(owner)
=============================================================================
