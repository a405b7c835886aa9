---------------------------- MODULE OwnerReducer ----------------------------
(***************************************************************************)
(* The private helpers of the lifecycle reducer: token allocation, closing *)
(* of admission, the dependent work that follows a close, retirement of a  *)
(* controller, and degradation.  Each takes the state its &mut self method *)
(* finds and returns the state it leaves, whether the method returns Ok or *)
(* an error: an error never restores the state.                            *)
(***************************************************************************)
EXTENDS OwnerTypes

IsCapture(s) == s.controller.kind \in CaptureKinds

HasPending(s, kind) == \E i \in Slots : s.pending[i] # None /\ s.pending[i].kind = kind

PendingEmpty(s) == \A i \in Slots : s.pending[i] = None

NativeNeutral(o) ==
  /\ o.candidate = "None" /\ o.paste = "None"
  /\ o.drain = 0 /\ o.cleanup = 0 /\ o.effects = 0
  /\ ~o.conservative

KeyboardEligible(s) == s.ready = Prerequisites

QuiescentForDisposition(s) ==
  /\ s.admission = "Closed"
  /\ NativeNeutral(s.ownership)
  /\ PendingEmpty(s)
  /\ ~s.emergency
  /\ s.closePlan = None
  /\ s.plan = NoDependents
  /\ ~s.unknown

\* Mutant of Quiescent: a predecessor is not waited for.
QuiescentWithPredecessor(s) == QuiescentForDisposition(s)

Quiescent(s) == QuiescentForDisposition(s) /\ s.predecessor = None

-----------------------------------------------------------------------------
(* Authority and reconciliation                                            *)

DemoteCapture(s) ==
  [s EXCEPT !.controller.kind = IF @ = "Enabled" THEN "Disabled" ELSE @]

InvalidateReconciliation(s) ==
  [s EXCEPT !.requested = None, !.applied = None, !.mode = None]

Supersede(s, kinds) ==
  [s EXCEPT !.pending =
     [i \in Slots |-> IF @[i] # None /\ @[i].kind \in kinds
                      THEN [@[i] EXCEPT !.superseded = TRUE]
                      ELSE @[i]]]

\* Mutant of CancelUnclaimedPaste: the ownership is not told.
CancelPhaseOnly(s) ==
  CASE s.unknown \/ s.poisoned -> s
    [] ~(s.unknown \/ s.poisoned) /\ s.pastePhase.kind = "Admitting" ->
         Supersede([s EXCEPT !.pastePhase.cancel = TRUE], {"AdmitPaste"})
    [] ~(s.unknown \/ s.poisoned) /\ s.pastePhase.kind = "Waiting" ->
         [s EXCEPT !.pastePhase.kind = "Cancelling", !.plan.paste = TRUE]
    [] OTHER -> s

CancelUnclaimedPaste(s) ==
  CASE s.unknown \/ s.poisoned -> s
    [] ~(s.unknown \/ s.poisoned) /\ s.pastePhase.kind = "Admitting" ->
         Supersede([s EXCEPT !.pastePhase.cancel = TRUE], {"AdmitPaste"})
    [] ~(s.unknown \/ s.poisoned) /\ s.pastePhase.kind = "Waiting" ->
         [s EXCEPT !.pastePhase.kind = "Cancelling",
                   !.ownership.paste = "Cancelling",
                   !.plan.paste      = TRUE]
    [] OTHER -> s

(* The phases after persistence keep the request alone.                    *)
Settle(maintenance, phase) ==
  [phase |-> phase, request |-> maintenance.request, requester |-> None, epoch |-> 0]

(* Native ownership can no longer be proved: latch that, and shut every    *)
(* way back to an enabled lease.                                           *)
Degrade(s) ==
  [CancelUnclaimedPaste(DemoteCapture(s)) EXCEPT
     !.health      = "Degraded",
     !.unknown     = TRUE,
     !.unavailable = "OwnershipUnknown",
     !.maintenance = IF @.phase \in {"Sealing", "Persisting"}
                     THEN Settle(@, "SealedFailed") ELSE @,
     !.admission   = IF @ = "Closed" THEN @ ELSE "Unknown"]

-----------------------------------------------------------------------------
(* Native action tokens                                                    *)

Allocatable(s) == s.idsLeft /\ \E i \in Slots : s.pending[i] = None

\* Mutant of AllocationError: no emergency close stands in for the token.
AllocationErrorWithoutEmergency(s) == Degrade(s)

AllocationError(s) ==
  LET needsEmergencyClose == /\ s.admission # "Closed"
                             /\ ~HasPending(s, "Close")
                             /\ ~s.emergency
  IN  [Degrade(s) EXCEPT !.emergency = @ \/ needsEmergencyClose]

Issue(s, kind, arg, config) ==
  IF Allocatable(s)
  THEN LET slot == CHOOSE i \in Slots : s.pending[i] = None
       IN  [s EXCEPT !.pending[slot] = [kind |-> kind, arg |-> arg, config |-> config,
                                        superseded |-> FALSE]]
  ELSE AllocationError(s)

Take(s, slot) == [s EXCEPT !.pending[slot] = None]

BeginNativeStop(s, purpose) ==
  IF s.exit # "Running" THEN s
  ELSE IF Allocatable(s)
       THEN [Issue(s, "StopNative", None, None) EXCEPT !.exit = purpose]
       ELSE AllocationError(s)

MaybeBeginDegradedExit(s) ==
  IF /\ s.health = "Degraded"
     /\ s.maintenance.phase = "None"
     /\ s.exit = "Running"
     /\ ~IsCapture(s)
     /\ Quiescent(s)
  THEN BeginNativeStop(s, "StopDegraded")
  ELSE s

-----------------------------------------------------------------------------
(* Dependent work: at most one dependent token is outstanding, and the     *)
(* steps are issued in the order cancel candidate, cancel paste, apply     *)
(* configuration, continue the drain, persist the maintenance record.      *)

DependentsBlocked(s) ==
  \/ \E i \in Slots : s.pending[i] # None /\ s.pending[i].kind \in DependentKinds
  \/ s.pastePhase.kind = "Admitting"

CancelCandidateNext(s) ==
  Issue([s EXCEPT !.plan.candidate = FALSE, !.ownership.candidate = "Cancelling"],
        "CancelCandidate", None, None)

CancelPasteNext(s) ==
  IF s.pastePhase.auth = None
  THEN [s EXCEPT !.plan.paste = FALSE]
  ELSE Issue([s EXCEPT !.plan.paste           = FALSE,
                       !.pastePhase.kind      = "Cancelling",
                       !.ownership.paste      = "Cancelling"],
             "CancelPaste", s.pastePhase.auth, None)

PersistNext(s) ==
  IF s.maintenance.phase # "Sealing"
  THEN [s EXCEPT !.plan.persist = FALSE]
  ELSE Issue([s EXCEPT !.plan.persist = FALSE, !.maintenance.phase = "Persisting"],
             "Persist", s.maintenance.request, None)

\* Mutant of DispatchPlan: the configuration is applied before the paste and
\* the candidate are cancelled.
DispatchConfigurationFirst(s) ==
  CASE s.poisoned -> [s EXCEPT !.plan = NoDependents]
    [] ~s.poisoned /\ DependentsBlocked(s) -> s
    [] OTHER ->
         IF s.plan.config # None
         THEN Issue([s EXCEPT !.plan.config = None], "Configuration", None, s.plan.config)
         ELSE IF s.plan.candidate THEN CancelCandidateNext(s)
         ELSE IF s.plan.paste THEN CancelPasteNext(s)
         ELSE LET drained == [s EXCEPT !.plan.drain = FALSE]
              IN  IF s.plan.persist THEN PersistNext(drained) ELSE drained

DispatchPlan(s) ==
  CASE s.poisoned -> [s EXCEPT !.plan = NoDependents]
    [] ~s.poisoned /\ DependentsBlocked(s) -> s
    [] OTHER ->
         IF s.plan.candidate THEN CancelCandidateNext(s)
         ELSE IF s.plan.paste THEN CancelPasteNext(s)
         ELSE IF s.plan.config # None
              THEN Issue([s EXCEPT !.plan.config = None],
                         "Configuration", None, s.plan.config)
         ELSE LET drained == [s EXCEPT !.plan.drain = FALSE]
              IN  IF s.plan.persist THEN PersistNext(drained) ELSE drained

(* The plan asks for a step that its phase no longer backs: the code drops *)
(* the step (DispatchPlan does) and raises a native confirmation fault.    *)
PlanContradicted(s) ==
  /\ ~s.poisoned /\ ~DependentsBlocked(s) /\ ~s.plan.candidate
  /\ \/ s.plan.paste /\ s.pastePhase.auth = None
     \/ /\ ~s.plan.paste /\ s.plan.config = None
        /\ s.plan.persist /\ s.maintenance.phase # "Sealing"

(* What a confirmed close adds to the plan.  Once native state is unknown  *)
(* only the drain of known aggregates is added.                            *)
AddDependents(s, close) ==
  IF ~s.unknown
  THEN [s EXCEPT !.plan =
          [candidate |-> @.candidate \/ s.ownership.candidate = "Active",
           paste     |-> @.paste \/ s.pastePhase.kind = "Waiting",
           config    |-> IF close.release THEN None
                         ELSE IF close.config # None THEN close.config ELSE @.config,
           persist   |-> @.persist \/ close.persist,
           drain     |-> @.drain \/ ~NativeNeutral(s.ownership)]]
  ELSE [s EXCEPT !.plan.config = IF close.release THEN None ELSE @,
                 !.plan.drain  = @ \/ (~s.poisoned /\ ~NativeNeutral(s.ownership))]

-----------------------------------------------------------------------------
(* Closing fresh admission                                                 *)

\* Mutant of MergeClose: the later close decides alone whether to persist.
MergeCloseForgetsPersist(current, close) ==
  IF current = None THEN close
  ELSE [release |-> current.release \/ close.release,
        config  |-> IF current.release \/ close.release THEN None
                    ELSE IF close.config # None THEN close.config ELSE current.config,
        persist |-> close.persist]

MergeClose(current, close) ==
  IF current = None THEN close
  ELSE LET release == current.release \/ close.release
       IN  [release |-> release,
            config  |-> IF release THEN None
                        ELSE IF close.config # None THEN close.config
                        ELSE current.config,
            persist |-> current.persist \/ close.persist]

\* Mutant of CloseBarrier: a pending open is taken to bring the close.
CloseBarrierAwaitsOpen(s, close) ==
  LET merged == Supersede([s EXCEPT !.closePlan = MergeClose(@, close)], {"Open"})
  IN  IF HasPending(merged, "Close") \/ HasPending(merged, "Open")
      THEN [merged EXCEPT !.admission = "Closing"]
      ELSE [Issue(merged, "Close", None, None) EXCEPT !.admission = "Closing"]

(* The branch of request_close that needs the native barrier.              *)
CloseBarrier(s, close) ==
  LET merged == Supersede([s EXCEPT !.closePlan = MergeClose(@, close)], {"Open"})
  IN  IF HasPending(merged, "Close") THEN [merged EXCEPT !.admission = "Closing"]
      ELSE IF merged.emergency THEN [merged EXCEPT !.admission = "Unknown"]
      ELSE IF Allocatable(merged)
           THEN [Issue(merged, "Close", None, None) EXCEPT !.admission = "Closing"]
           ELSE [AllocationError(merged) EXCEPT !.admission = "Unknown"]

(* issue_next_dependent.  Its fault closes and dispatches once more, now   *)
(* with the contradicted step dropped.                                     *)
IssueNextDependent(s) ==
  LET dispatched == DispatchPlan(s)
      faulted    == Degrade(dispatched)
  IN  IF ~PlanContradicted(s) THEN dispatched
      ELSE IF faulted.admission = "Closed"
           THEN DispatchPlan(AddDependents(faulted, DefaultClose))
           ELSE CloseBarrier(faulted, DefaultClose)

AfterAdmissionClosed(s, close) ==
  MaybeBeginDegradedExit(IssueNextDependent(AddDependents(s, close)))

\* Mutant of RequestClose: the lease is demoted when the close is confirmed.
RequestCloseLateDemotion(s, close) ==
  IF s.admission = "Closed"
  THEN AfterAdmissionClosed(DemoteCapture(s), close)
  ELSE CloseBarrier(s, close)

RequestClose(s, close) ==
  LET demoted == DemoteCapture(s)
  IN  IF demoted.admission = "Closed"
      THEN AfterAdmissionClosed(demoted, close)
      ELSE CloseBarrier(demoted, close)

NativeConfirmationFault(s) == RequestClose(Degrade(s), DefaultClose)

-----------------------------------------------------------------------------
(* Retiring a capture controller                                           *)

TerminalOwnershipKnown(o) ==
  \/ o.candidate # "None" \/ o.paste # "None" \/ o.drain # 0 \/ o.cleanup # 0

Truthful(s, event) ==
  CASE event = "Revoked"     -> TRUE
    [] event = "Unavailable" -> s.unavailable # "None"
    [] event = "Draining"    -> s.unavailable = "None" /\ TerminalOwnershipKnown(s.ownership)
    [] event = "Neutral"     -> s.unavailable = "None" /\ QuiescentForDisposition(s)

CanOffer(s, event) ==
  /\ s.predecessor # None
  /\ Truthful(s, event)
  /\ s.predecessor.inFlight = "None"
  /\ ~s.predecessor.final
  /\ s.predecessor.revoked = (event # "Revoked")

Offer(s, event) ==
  IF CanOffer(s, event)
  THEN [s EXCEPT !.predecessor.revoked  = TRUE,
                 !.predecessor.final    = event \in {"Neutral", "Unavailable"},
                 !.predecessor.inFlight = event]
  ELSE s

SnapshotPredecessor(s) ==
  LET held == IF s.predecessor = None /\ IsCapture(s)
              THEN [s EXCEPT !.predecessor = [conn |-> s.controller.conn,
                                              epoch |-> s.controller.epoch,
                                              revoked |-> FALSE, final |-> FALSE,
                                              inFlight |-> "None"]]
              ELSE s
  IN  Offer(held, "Revoked")

(* The maintenance and exit phases survive their connection, sealed.       *)
SealWithoutRequester(s) ==
  [s EXCEPT
     !.exit = CASE @ = "StopPrepare" -> "StopAbandoned"
                [] @ \in {"ResponseReady", "Flushing"} -> "StoppedSealed"
                [] OTHER -> @,
     !.maintenance.requester = IF s.maintenance.phase \in {"Sealing", "Persisting"}
                               THEN None ELSE @,
     !.maintenance.phase = IF @ = "Exclusive" THEN "Sealed" ELSE @]

LoseActiveController(s) ==
  IF IsCapture(s)
  THEN LET snapshot == SealWithoutRequester(SnapshotPredecessor(s))
           revoked  == [snapshot EXCEPT !.controller = NoController]
       IN  RequestClose(CancelUnclaimedPaste(InvalidateReconciliation(revoked)), DefaultClose)
  ELSE [SealWithoutRequester(s) EXCEPT !.controller = NoController]

PriorityRollback(s) ==
  LET latched == SnapshotPredecessor([s EXCEPT !.rollback = TRUE])
      revoked == [InvalidateReconciliation(latched) EXCEPT !.controller  = NoController,
                                                           !.plan.config = None]
  IN  RequestClose(CancelUnclaimedPaste(Supersede(revoked, SemanticKinds)), DefaultClose)
=============================================================================
