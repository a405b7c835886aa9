-------------------------- MODULE OwnerProperties ---------------------------
(***************************************************************************)
(* What the lifecycle reducer promises.  Numbers of the form KBO-INV-nnn   *)
(* are the invariants of docs/keyboard-owner-state-machine.md, section 12. *)
(***************************************************************************)
EXTENDS OwnerState, FiniteSets

Pending(kind) == HasPending(owner, kind)

Dependents == {slot \in Slots : owner.pending[slot] # None
                                 /\ owner.pending[slot].kind \in DependentKinds}

-----------------------------------------------------------------------------
(* Safety                                                                  *)

\* Every field of the reducer keeps to its type.
TypeOK == owner \in State

\* Fresh input is admitted to an enabled lease only while everything that
\* enabling demanded still holds: readiness, the reconciled configuration, a
\* healthy running owner, no seal, no rollback and no predecessor.  None of
\* the ways in which one of these can be lost may leave the lease enabled.
EnabledSound ==
  owner.controller.kind = "Enabled" =>
    /\ owner.admission = "Open"
    /\ owner.health = "Healthy" /\ owner.exit = "Running"
    /\ ~owner.rollback /\ ~owner.unknown
    /\ owner.maintenance.phase = "None"
    /\ owner.predecessor = None
    /\ owner.applied # None /\ owner.applied = owner.requested
    /\ KeyboardEligible(owner)

\* A configuration counts as applied only for the lease that asked for it
\* last, at the highest revision it reserved: a confirmation that arrives
\* after the lease was lost or asked again changes nothing (KBO-INV-009).
AppliedBelongsToLease ==
  owner.applied # None =>
    /\ IsCapture(owner)
    /\ owner.applied = owner.requested
    /\ owner.applied = [epoch |-> owner.controller.epoch, revision |-> owner.highWater]

\* At most one dependent native action is outstanding (section 3).
OneDependent == Cardinality(Dependents) <= 1

\* While native state is known, a configuration is never being applied, nor
\* a seal persisted, over a candidate or an unclaimed paste that the close
\* still had to cancel (section 6).
CancelBeforeApply ==
  ~owner.unknown /\ (Pending("Configuration") \/ Pending("Persist")) =>
    /\ owner.ownership.candidate # "Active"
    /\ ~Pending("CancelCandidate") /\ ~Pending("CancelPaste")

\* The two records of a paste, its phase and the native ownership, agree
\* until native state is unknown.
PasteOwnershipAgrees ==
  ~owner.unknown =>
    owner.ownership.paste = IF owner.pastePhase.kind = "Admitting" THEN "None"
                                                                   ELSE owner.pastePhase.kind

\* Once a maintenance transaction has sealed the owner no capture lease
\* exists again: the capabilities never coexist (section 10).
SealedNeverCaptures == owner.maintenance.phase # "None" => ~IsCapture(owner)

\* The seal is persisted, and maintenance authority exists, only behind a
\* closed admission, unless native state is unknown.
SealBehindClose ==
  (owner.maintenance.phase \in {"Persisting", "Exclusive", "Sealed"} /\ ~owner.unknown) =>
    owner.admission = "Closed"

\* The native adapter is stopped only when there is nothing left to drain:
\* from the stop on, unless native state becomes unknown, the owner holds no
\* key, no paste, no queued effect, no dependent work and no predecessor.
StoppedMeansDrained ==
  owner.exit # "Running" /\ ~owner.unknown =>
    /\ owner.admission = "Closed" /\ NativeNeutral(owner.ownership)
    /\ owner.plan = NoDependents /\ owner.closePlan = None
    /\ owner.predecessor = None
    /\ \A slot \in Slots : owner.pending[slot] # None => owner.pending[slot].kind = "StopNative"

\* A gate that is closing, or in doubt, has a close on its way, unless a
\* cancellation was left uncertain.
CloseOutstanding ==
  (owner.admission \in {"Closing", "Unknown"} /\ ~owner.poisoned) =>
    Pending("Close") \/ owner.emergency

\* Dependent work that is planned behind a closed gate is blocked only by
\* work that is under way, whose confirmation dispatches it: no order of
\* confirmations and failures strands it.
PlanNeverStranded ==
  (~owner.unknown /\ owner.admission = "Closed" /\ ~DependentsBlocked(owner)) =>
    /\ ~owner.plan.candidate /\ ~owner.plan.paste
    /\ owner.plan.config = None /\ ~owner.plan.persist

\* A paste that is being cancelled has its cancellation planned or issued.
CancellationNeverForgotten ==
  (~owner.unknown /\ owner.pastePhase.kind = "Cancelling") =>
    owner.plan.paste \/ Pending("CancelPaste")

\* An uncertain cancellation is the last dependent step: whatever was planned
\* or in flight behind it is not taken up again (section 8).
UncertainCancellationStops ==
  owner.poisoned => owner.plan = NoDependents /\ Dependents = {}

\* Rollback retires every capture lease for good (KBO-INV-021).
RollbackRetiresCapture ==
  owner.rollback => ~IsCapture(owner) /\ owner.applied = None /\ owner.requested = None

\* The bounded table of tokens cannot fill up.
TokensNeverExhaust == owner.idsLeft => Allocatable(owner)

\* A neutral disposition told to a predecessor stays true while it is being
\* written, unless native state becomes unknown (KBO-INV-019).
NeutralOfferStaysTrue ==
  (/\ owner.predecessor # None /\ owner.predecessor.inFlight = "Neutral"
   /\ ~owner.unknown) =>
    owner.admission = "Closed" /\ NativeNeutral(owner.ownership)

-----------------------------------------------------------------------------
(* What the runs check together                                            *)

\* The steps a close demands reach the adapter one at a time, the
\* cancellations first, and none is forgotten, stranded or resumed after an
\* uncertain one, whatever was merged into the plan.
DependentsInOrder ==
  /\ OneDependent
  /\ CancelBeforeApply
  /\ PlanNeverStranded
  /\ CancellationNeverForgotten
  /\ UncertainCancellationStops

\* A close can be issued at all times, if need be without a token, and is
\* under way for as long as the gate is in doubt.
CloseAssured == CloseOutstanding /\ TokensNeverExhaust

\* What is sealed, stopped, or told to a predecessor as neutral, is behind a
\* closed gate and holds nothing.
NeutralIsTrue == SealBehindClose /\ StoppedMeansDrained /\ NeutralOfferStaysTrue

-----------------------------------------------------------------------------
(* Action properties                                                       *)

Revoked(phase) ==
  phase.kind = "Cancelling" \/ (phase.kind = "Admitting" /\ phase.cancel)

\* A paste that was cancelled before it was claimed never becomes claimable
\* again, whatever the order in which its admission, its cancellation and
\* its claim are confirmed.
CancelledPasteNeverClaims ==
  [][Revoked(owner.pastePhase) =>
       \/ Revoked(owner'.pastePhase) \/ owner'.pastePhase.kind \in {"None", "Indeterminate"}]_vars

\* Native uncertainty, degradation and rollback are one way, and none of
\* them lets a closed gate open.
FailClosed ==
  [][/\ owner.unknown => owner'.unknown
     /\ owner.rollback => owner'.rollback
     /\ owner.health = "Degraded" => owner'.health = "Degraded"
     /\ (owner.unknown \/ owner.rollback \/ owner.health = "Degraded") =>
          (owner'.admission \in {"Opening", "Open"} => owner.admission = owner'.admission)]_vars
=============================================================================
