----------------------------- MODULE OwnerState -----------------------------
(***************************************************************************)
(* The keyboard owner's lifecycle reducer as a state machine: one action   *)
(* for each public method of KeyboardOwnerState that can change it, with   *)
(* the arguments its callers pass.  A call the method refuses and that     *)
(* leaves the state alone is a stuttering step and has no action.          *)
(*                                                                         *)
(* Native work is asynchronous here: a token that was issued may be        *)
(* confirmed or fail at any later time, whatever happened in between.      *)
(***************************************************************************)
EXTENDS OwnerReducer

CONSTANTS
  Observations,     \* the ownership snapshots the adapter may report
  Failures,         \* the ways a native action may fail
  Faults,           \* the faults the environment may raise unasked
  EpochLimit        \* bound: capture leases, and maintenance epochs, granted

\* A snapshot's admitted_effects is the broker's own count: the server drops
\* one that disagrees (observation.rs:28) before it reaches the reducer.
ASSUME ObservationsAssumption ==
  Observations \subseteq [candidate : Candidates, drain : 0..MaxDrain, cleanup : 0..MaxCleanup,
                          conservative : BOOLEAN, paste : PasteOwnerships]

ASSUME EnvironmentAssumption ==
  /\ Failures \subseteq {"FailedNotApplied", "Indeterminate"}
  /\ Faults \subseteq {"Desynchronized", "Recoverable", "Stale", "IdsExhausted"}
  /\ EpochLimit \in Nat

VARIABLE owner

Init == owner = NewOwner

\* ensure_not_starting_or_stopping and ensure_process_healthy.
Serving == owner.health # "Starting" /\ owner.exit = "Running"
ServingHealthy == owner.health = "Healthy" /\ owner.exit = "Running"

\* The process ends when its exit state is Exiting.
Alive == owner.exit # "Exiting"

Outstanding(slot) == Alive /\ owner.pending[slot] # None
Held(slot, kind) == Outstanding(slot) /\ owner.pending[slot].kind = kind

Reported(seen) == [candidate |-> seen.candidate, drain |-> seen.drain, cleanup |-> seen.cleanup,
                   conservative |-> seen.conservative, paste |-> seen.paste,
                   effects |-> owner.ownership.effects]

-----------------------------------------------------------------------------
(* Startup and readiness                                                   *)

ConfirmStartupSnapshotSeeded ==
  /\ owner.health = "Starting" /\ ~owner.seeded
  /\ owner' = [owner EXCEPT !.seeded = TRUE]

\* Mutant of StartupCompleted: it does not ask whether startup failed.
StartupCompletedAnyway ==
  /\ owner.seeded
  /\ NativeNeutral(owner.ownership) /\ owner.admission = "Closed"
  /\ owner' = [owner EXCEPT !.health = "Healthy"]

StartupCompleted ==
  /\ owner.health = "Starting" /\ owner.seeded
  /\ NativeNeutral(owner.ownership) /\ owner.admission = "Closed"
  /\ owner' = [owner EXCEPT !.health = "Healthy"]

ObserveNativeReadiness(ready, pasteReady) ==
  LET keyboardLost == owner.ready \ ready # {}
      pasteLost    == owner.pasteReady /\ ~pasteReady
      seen         == [owner EXCEPT !.ready = ready, !.pasteReady = pasteReady]
      invalidated  == IF keyboardLost THEN InvalidateReconciliation(seen) ELSE seen
      cancelled    == IF pasteLost THEN CancelUnclaimedPaste(invalidated) ELSE invalidated
  IN  /\ Alive
      /\ owner' = IF keyboardLost /\ owner.admission # "Closed"
                  THEN RequestClose(cancelled, DefaultClose)
                  ELSE IssueNextDependent(cancelled)

-----------------------------------------------------------------------------
(* Capture authority                                                       *)

AuthenticateObserver(conn) ==
  /\ Serving /\ owner.controller.kind = "NoController"
  /\ owner' = [owner EXCEPT !.controller = [kind |-> "Observer", conn |-> conn, epoch |-> 0]]

\* Mutant of AcquireCaptureLease: the maintenance seal is not looked at.
AcquireBehindSeal(conn) ==
  /\ ServingHealthy /\ ~owner.rollback
  /\ Quiescent(owner)
  /\ owner.controller.kind = "Observer" /\ owner.controller.conn = conn
  /\ owner.captureEpoch < EpochLimit
  /\ owner' = [InvalidateReconciliation(owner) EXCEPT
                 !.captureEpoch = @ + 1,
                 !.controller   = [kind |-> "Disabled", conn |-> conn,
                                   epoch |-> owner.captureEpoch + 1],
                 !.highWater    = 0]

AcquireCaptureLease(conn) ==
  /\ ServingHealthy /\ ~owner.rollback /\ owner.maintenance.phase = "None"
  /\ Quiescent(owner)
  /\ owner.controller.kind = "Observer" /\ owner.controller.conn = conn
  /\ owner.captureEpoch < EpochLimit
  /\ owner' = [InvalidateReconciliation(owner) EXCEPT
                 !.captureEpoch = @ + 1,
                 !.controller   = [kind |-> "Disabled", conn |-> conn,
                                   epoch |-> owner.captureEpoch + 1],
                 !.highWater    = 0]

\* ensure_capture_command_allowed: only Disable and Release are retiring.
CommandAllowed(retiring) ==
  /\ IsCapture(owner) /\ owner.exit = "Running"
  /\ retiring \/ (~owner.rollback /\ owner.health # "Degraded")
  /\ owner.maintenance.phase = "None"

SemanticCommandAllowed == CommandAllowed(FALSE) /\ PendingEmpty(owner)

SetSessionMode(mode) ==
  /\ SemanticCommandAllowed
  /\ mode = "Off" \/ (owner.controller.kind = "Enabled" /\ owner.admission = "Open")
  /\ LET issued == Issue(owner, "SessionMode", mode, None)
     IN  owner' = IF Allocatable(owner) THEN [issued EXCEPT !.mode = None] ELSE issued

ReplaceConfiguration(revision) ==
  LET request == [epoch |-> owner.controller.epoch, revision |-> revision]
  IN  /\ SemanticCommandAllowed
      /\ revision > owner.highWater
      /\ owner' = RequestClose([owner EXCEPT !.highWater = revision,
                                             !.requested = request,
                                             !.applied   = None],
                               [DefaultClose EXCEPT !.config = request])

EnablePrerequisites(s) ==
  /\ s.health = "Healthy" /\ s.exit = "Running" /\ ~s.rollback
  /\ s.maintenance.phase = "None"
  /\ s.controller.kind = "Disabled"
  /\ NativeNeutral(s.ownership) /\ PendingEmpty(s) /\ ~s.unknown
  /\ s.predecessor = None
  /\ s.applied # None /\ s.requested = s.applied
  /\ s.mode = "Off"
  /\ KeyboardEligible(s)

CanOpenKeyboard(s) ==
  /\ s.admission = "Closed" /\ s.closePlan = None /\ s.plan = NoDependents
  /\ EnablePrerequisites(s)

Enable ==
  /\ SemanticCommandAllowed /\ CanOpenKeyboard(owner)
  /\ LET issued == Issue(owner, "Open", None, None)
     IN  owner' = IF Allocatable(owner) THEN [issued EXCEPT !.admission = "Opening"] ELSE issued

Disable ==
  /\ CommandAllowed(TRUE)
  /\ owner' = RequestClose(owner, DefaultClose)

BeginPaste(paste) ==
  /\ SemanticCommandAllowed
  /\ owner.health = "Healthy"
  /\ owner.pastePhase.kind = "None"
  /\ ~owner.unknown /\ owner.pasteReady
  /\ LET issued == Issue(owner, "AdmitPaste", paste, None)
     IN  owner' = IF Allocatable(owner)
                  THEN [issued EXCEPT !.pastePhase = [kind |-> "Admitting", auth |-> paste,
                                                      cancel |-> FALSE]]
                  ELSE issued

Release ==
  /\ CommandAllowed(TRUE)
  /\ LET cancelled == CancelUnclaimedPaste(SnapshotPredecessor(owner))
         released  == InvalidateReconciliation([cancelled EXCEPT !.controller = NoController])
     IN  owner' = RequestClose(released, [DefaultClose EXCEPT !.release = TRUE])

\* latch_runtime_rollback, and the RuntimeRollback command of a controller.
LatchRuntimeRollback ==
  /\ Serving
  /\ owner' = PriorityRollback(owner)

\* The controller sends a command whose capability or sequence is not the
\* expected one, or one its kind has no right to send.
ProtocolFault ==
  /\ Alive /\ owner.controller.kind # "NoController"
  /\ owner' = LoseActiveController(owner)

\* EOF, heartbeat expiry or a transport fault of a connection.
ControllerLost(conn) ==
  \/ /\ Alive /\ owner.controller.conn = conn
     /\ owner' = LoseActiveController(owner)
  \/ /\ Alive /\ owner.controller.conn # conn
     /\ owner.maintenance.phase \in {"Sealing", "Persisting"}
     /\ owner.maintenance.requester = conn
     /\ owner' = [owner EXCEPT !.maintenance.requester = None]

-----------------------------------------------------------------------------
(* Native observations and faults                                          *)

LegalWhileActive(now, before) ==
  /\ CASE before.candidate = "None"       -> now.candidate \in {"None", "Active"}
       [] before.candidate = "Active"     -> TRUE
       [] before.candidate = "Cancelling" -> now.candidate \in {"Cancelling", "None"}
  /\ now.cleanup <= before.cleanup \/ before.candidate # "None"

LegalAfterClosed(now, before) ==
  /\ now.candidate # "Active"
  /\ now.drain <= before.drain
  /\ now.conservative => before.conservative
  /\ now.effects <= before.effects
  /\ now.cleanup <= before.cleanup \/ before.candidate = "Cancelling"
  /\ CASE before.candidate = "None"       -> now.candidate = "None"
       [] before.candidate = "Active"     -> FALSE
       [] before.candidate = "Cancelling" -> now.candidate \in {"Cancelling", "None"}

LegalObservation(s, now) ==
  /\ now.paste = s.ownership.paste
  /\ IF s.admission \in {"Open", "Closing", "Unknown"}
     THEN LegalWhileActive(now, s.ownership)
     ELSE LegalAfterClosed(now, s.ownership)

ObserveNative(seen) ==
  LET now      == Reported(seen)
      recorded == [owner EXCEPT !.ownership = now]
  IN  \/ /\ Alive /\ LegalObservation(owner, now)
         /\ owner' = MaybeBeginDegradedExit(recorded)
      \/ /\ Alive /\ ~LegalObservation(owner, now)
         /\ owner' = RequestClose(Degrade(recorded), DefaultClose)

\* A snapshot with a count above its bound: the count is cut to the bound.
ObserveImpossible(seen) ==
  /\ Alive
  /\ (seen.drain > 0 /\ seen.drain = MaxDrain) \/ (seen.cleanup > 0 /\ seen.cleanup = MaxCleanup)
  /\ owner' = RequestClose(Degrade([owner EXCEPT !.ownership = Reported(seen)]), DefaultClose)

SetAdmittedEffects(effects) ==
  LET illegal == \/ effects > EffectCapacity
                 \/ /\ effects > owner.ownership.effects
                    /\ owner.admission \notin {"Open", "Closing", "Unknown"}
      counted == [owner EXCEPT !.ownership.effects = effects]
  IN  \/ /\ Alive /\ illegal
         /\ owner' = NativeConfirmationFault(owner)
      \/ /\ Alive /\ ~illegal
         /\ owner' = IF effects = 0 THEN MaybeBeginDegradedExit(counted) ELSE counted

AdapterStreamDesynchronized ==
  /\ "Desynchronized" \in Faults
  /\ Serving
  /\ owner' = NativeConfirmationFault(owner)

RecoverableNativeFault ==
  LET degraded == [owner EXCEPT !.health      = "Degraded",
                                !.unavailable = IF owner.unknown THEN @ ELSE "NativeFault"]
  IN  /\ "Recoverable" \in Faults
      /\ Serving
      /\ owner' = MaybeBeginDegradedExit(
                    RequestClose(CancelUnclaimedPaste(degraded), DefaultClose))

\* last_action_id reaches u64::MAX.
ActionIdsExhausted ==
  /\ "IdsExhausted" \in Faults /\ Alive /\ owner.idsLeft
  /\ owner' = [owner EXCEPT !.idsLeft = FALSE]

-----------------------------------------------------------------------------
(* Predecessor terminal events                                             *)

OfferPredecessorTerminal(event) ==
  /\ Alive /\ CanOffer(owner, event)
  /\ owner' = Offer(owner, event)

ConfirmPredecessorTerminalWritten ==
  /\ Alive /\ owner.predecessor # None /\ owner.predecessor.inFlight # "None"
  /\ owner' = IF owner.predecessor.inFlight \in {"Neutral", "Unavailable"}
              THEN [owner EXCEPT !.predecessor = None]
              ELSE [owner EXCEPT !.predecessor.inFlight = "None"]

FailPredecessorTerminalWrite ==
  /\ Alive /\ owner.predecessor # None /\ owner.predecessor.inFlight # "None"
  /\ owner' = [owner EXCEPT !.predecessor = None]

-----------------------------------------------------------------------------
(* Maintenance and exit                                                    *)

ReacquireMaintenance(conn, request) ==
  /\ Serving
  /\ owner.maintenance.phase = "Sealed" /\ owner.maintenance.request = request
  /\ owner.controller.kind # "Maintenance"
  /\ Quiescent(owner)
  /\ owner.maintenanceEpoch < EpochLimit
  /\ owner' = [owner EXCEPT !.maintenanceEpoch  = @ + 1,
                            !.controller        = [kind |-> "Maintenance", conn |-> conn,
                                                   epoch |-> owner.maintenanceEpoch + 1],
                            !.maintenance.phase = "Exclusive"]

\* When request_close fails it has already degraded, so the seal has failed.
AcquireMaintenance(conn, request) ==
  /\ Serving
  /\ owner.maintenance.phase = "None"
  /\ owner.maintenanceEpoch < EpochLimit
  /\ LET epoch     == owner.maintenanceEpoch + 1
         cancelled == CancelUnclaimedPaste(
                        SnapshotPredecessor([owner EXCEPT !.maintenanceEpoch = epoch]))
         sealing   == [cancelled EXCEPT
                         !.maintenance = [phase |-> "Sealing", request |-> request,
                                          requester |-> conn, epoch |-> epoch],
                         !.controller  = NoController]
     IN  owner' = RequestClose(InvalidateReconciliation(sealing),
                               [DefaultClose EXCEPT !.persist = TRUE])

PrepareMaintenance ==
  /\ owner.exit = "Running" /\ owner.health # "Degraded"
  /\ owner.controller.kind = "Maintenance"
  /\ owner.maintenance.phase # "None"
  /\ Quiescent(owner)
  /\ owner' = BeginNativeStop(owner, "StopPrepare")

RequestIdleExit ==
  /\ owner.maintenance.phase = "None"
  /\ owner.controller.kind = "NoController"
  /\ Quiescent(owner)
  /\ ServingHealthy
  /\ owner' = BeginNativeStop(owner, "StopIdle")

MaintenanceGuardLost ==
  /\ owner.maintenance.phase # "None"
  /\ owner.controller.kind # "Maintenance"
  /\ Quiescent(owner)
  /\ owner' = IF owner.exit = "StoppedSealed" THEN [owner EXCEPT !.exit = "Exiting"]
              ELSE BeginNativeStop(owner, "StopGuardLost")

BeginFinalResponseFlush ==
  /\ owner.exit = "ResponseReady"
  /\ owner' = [owner EXCEPT !.exit = "Flushing"]

ConfirmFinalResponseFlushed ==
  /\ owner.exit = "Flushing"
  /\ owner' = [owner EXCEPT !.exit = "Exiting"]

-----------------------------------------------------------------------------
(* Confirmations.  Each consumes the token in a slot; FaultIf is the fault *)
(* a confirmation raises when the state it finds contradicts it.           *)

ConfirmSessionMode(slot) ==
  /\ Held(slot, "SessionMode")
  /\ LET taken == Take(owner, slot)
     IN  owner' = IF owner.pending[slot].superseded THEN taken
                  ELSE [taken EXCEPT !.mode = owner.pending[slot].arg]

\* Mutant of ConfirmConfiguration: whatever was applied counts as applied.
ConfirmStaleConfiguration(slot) ==
  LET taken == Take(owner, slot)
  IN  /\ Held(slot, "Configuration")
      /\ owner' = IF owner.admission # "Closed" THEN NativeConfirmationFault(taken)
                  ELSE MaybeBeginDegradedExit(IssueNextDependent(
                         [taken EXCEPT !.applied = owner.pending[slot].config]))

ConfirmConfiguration(slot) ==
  LET taken   == Take(owner, slot)
      request == owner.pending[slot].config
      applied == IF ~owner.pending[slot].superseded /\ owner.requested = request
                 THEN [taken EXCEPT !.applied = request] ELSE taken
  IN  /\ Held(slot, "Configuration")
      /\ owner' = IF owner.admission # "Closed" THEN NativeConfirmationFault(taken)
                  ELSE MaybeBeginDegradedExit(IssueNextDependent(applied))

ConfirmAdmissionOpened(slot) ==
  LET taken == Take(owner, slot)
  IN  /\ Held(slot, "Open")
      /\ owner' = IF owner.pending[slot].superseded \/ owner.admission = "Closing" THEN taken
                  ELSE IF owner.admission = "Opening" /\ EnablePrerequisites(taken)
                       THEN [taken EXCEPT !.admission       = "Open",
                                          !.controller.kind = "Enabled"]
                       ELSE NativeConfirmationFault(taken)

BarrierClosed(s) == s.admission \in {"Closing", "Unknown"} /\ s.ownership.effects = 0

CloseConfirmed(s) ==
  AfterAdmissionClosed([s EXCEPT !.admission = "Closed", !.closePlan = None],
                       IF s.closePlan = None THEN DefaultClose ELSE s.closePlan)

ConfirmAdmissionClosed(slot) ==
  LET taken == Take(owner, slot)
  IN  /\ Held(slot, "Close")
      /\ owner' = IF BarrierClosed(taken) THEN CloseConfirmed(taken)
                  ELSE NativeConfirmationFault(taken)

ConfirmEmergencyAdmissionClosed ==
  /\ Alive /\ owner.emergency
  /\ owner' = IF BarrierClosed(owner)
              THEN CloseConfirmed([owner EXCEPT !.emergency = FALSE])
              ELSE NativeConfirmationFault(owner)

ConfirmPasteWaiting(slot) ==
  LET taken  == Take(owner, slot)
      cancel == owner.pastePhase.cancel \/ owner.pending[slot].superseded
      kind   == IF cancel THEN "Cancelling" ELSE "Waiting"
      phase  == [kind |-> kind, auth |-> owner.pastePhase.auth, cancel |-> FALSE]
  IN  /\ Held(slot, "AdmitPaste")
      /\ owner' = IF /\ owner.pastePhase.kind = "Admitting"
                    /\ owner.pastePhase.auth = owner.pending[slot].arg
                  THEN IssueNextDependent([taken EXCEPT !.pastePhase      = phase,
                                                        !.ownership.paste = kind,
                                                        !.plan.paste      = @ \/ cancel])
                  ELSE NativeConfirmationFault(taken)

\* Mutant of WithoutPaste: the authorization outlives the paste.
WithoutPasteKeepingAuthorization(s) ==
  [s EXCEPT !.pastePhase.kind = "None", !.ownership.paste = "None"]

WithoutPaste(s) == [s EXCEPT !.pastePhase = NoPaste, !.ownership.paste = "None"]

ConfirmPasteRefused(slot) ==
  LET taken == Take(owner, slot)
  IN  /\ Held(slot, "AdmitPaste")
      /\ owner' = IF owner.pastePhase.auth = owner.pending[slot].arg
                  THEN IssueNextDependent(WithoutPaste(taken))
                  ELSE NativeConfirmationFault(taken)

\* Mutant of ConfirmPasteClaimed: a paste being cancelled may be claimed.
ConfirmPasteClaimedLate ==
  /\ Alive /\ owner.pastePhase.auth # None
  /\ owner' = IF owner.pastePhase.kind \in {"Waiting", "Cancelling"}
              THEN [owner EXCEPT !.pastePhase.kind = "Claimed", !.ownership.paste = "Claimed"]
              ELSE NativeConfirmationFault(owner)

\* The native side claims, loses track of, and completes an admitted paste
\* on its own.  The server forwards only reports of the paste it holds.
ConfirmPasteClaimed ==
  /\ Alive /\ owner.pastePhase.auth # None
  /\ owner' = IF owner.pastePhase.kind = "Waiting"
              THEN [owner EXCEPT !.pastePhase.kind = "Claimed", !.ownership.paste = "Claimed"]
              ELSE NativeConfirmationFault(owner)

ConfirmPasteIndeterminate ==
  /\ Alive /\ owner.pastePhase.auth # None
  /\ owner' = IF owner.pastePhase.kind = "Claimed"
              THEN [owner EXCEPT !.pastePhase.kind = "Indeterminate",
                                 !.ownership.paste = "Indeterminate"]
              ELSE NativeConfirmationFault(owner)

ConfirmPasteCompleted ==
  /\ Alive /\ owner.pastePhase.auth # None
  /\ owner' = IF owner.pastePhase.kind \in {"Claimed", "Indeterminate"}
              THEN MaybeBeginDegradedExit(WithoutPaste(owner))
              ELSE NativeConfirmationFault(owner)

Poison(s) == [s EXCEPT !.plan = NoDependents, !.poisoned = TRUE]

\* Mutant of ConfirmCandidateCancelled: the rest of the plan is not continued.
ConfirmCandidateCancelledAndStop(slot, seen) ==
  LET now   == Reported(seen)
      legal == /\ now.paste = owner.ownership.paste
               /\ LegalAfterClosed(now, owner.ownership)
  IN  /\ Held(slot, "CancelCandidate")
      /\ owner' = IF legal
                  THEN MaybeBeginDegradedExit([Take(owner, slot) EXCEPT !.ownership = now])
                  ELSE NativeConfirmationFault(Poison(Take(owner, slot)))

ConfirmCandidateCancelled(slot, seen) ==
  LET taken == Take(owner, slot)
      now   == Reported(seen)
      legal == /\ now.paste = owner.ownership.paste
               /\ LegalAfterClosed(now, owner.ownership)
  IN  /\ Held(slot, "CancelCandidate")
      /\ owner' = IF legal
                  THEN MaybeBeginDegradedExit(
                         IssueNextDependent([taken EXCEPT !.ownership = now]))
                  ELSE NativeConfirmationFault(Poison(taken))

ConfirmWaitingPasteCancelled(slot) ==
  LET taken == Take(owner, slot)
  IN  /\ Held(slot, "CancelPaste")
      /\ owner' = IF /\ owner.pastePhase.kind = "Cancelling"
                    /\ owner.pastePhase.auth = owner.pending[slot].arg
                  THEN MaybeBeginDegradedExit(IssueNextDependent(WithoutPaste(taken)))
                  ELSE NativeConfirmationFault(Poison(taken))

ConfirmMaintenancePersisted(slot) ==
  LET taken == Take(owner, slot)
      held  == owner.maintenance.requester
  IN  /\ Held(slot, "Persist")
      /\ owner' = IF \/ owner.maintenance.phase # "Persisting"
                    \/ owner.maintenance.request # owner.pending[slot].arg
                    \/ owner.admission # "Closed"
                  THEN NativeConfirmationFault(taken)
                  ELSE IF held # None
                  THEN [taken EXCEPT !.controller = [kind |-> "Maintenance", conn |-> held,
                                                     epoch |-> owner.maintenance.epoch],
                                     !.maintenance = Settle(@, "Exclusive")]
                  ELSE [taken EXCEPT !.controller  = NoController,
                                     !.maintenance = Settle(@, "Sealed")]

ConfirmNativeStopped(slot) ==
  LET taken == Take(owner, slot)
  IN  /\ Held(slot, "StopNative")
      /\ owner' = CASE owner.exit = "StopPrepare"   -> [taken EXCEPT !.exit = "ResponseReady"]
                    [] owner.exit = "StopAbandoned" -> [taken EXCEPT !.exit = "StoppedSealed"]
                    [] owner.exit \in {"StopIdle", "StopDegraded", "StopGuardLost"} ->
                         [taken EXCEPT !.exit = "Exiting"]
                    [] OTHER -> NativeConfirmationFault(taken)

\* A confirmation of a token that is not pending, or of another kind.
StaleConfirmation ==
  /\ "Stale" \in Faults /\ Alive
  /\ owner' = NativeConfirmationFault(owner)

-----------------------------------------------------------------------------
(* Failures of native actions                                              *)

WithNativeFault(s) ==
  [s EXCEPT !.health      = "Degraded",
            !.unavailable = IF s.unknown THEN @ ELSE "NativeFault"]

UncertainBarrier(s) ==
  LET unknown == [Degrade(s) EXCEPT
                    !.admission = "Unknown",
                    !.closePlan = IF @ = None THEN DefaultClose ELSE @]
  IN  IF HasPending(unknown, "Close") THEN unknown ELSE Issue(unknown, "Close", None, None)

OpenNotApplied(s) ==
  LET shut == [s EXCEPT !.admission = IF @ = "Opening" THEN "Closed" ELSE @]
  IN  IF shut.closePlan # None THEN RequestClose(shut, DefaultClose) ELSE shut

\* What fail_native_action makes of the failure of a taken action.
Failed(s, action, failure) ==
  CASE action.kind = "Close" ->
         IF failure = "FailedNotApplied" THEN Issue(s, "Close", None, None)
                                         ELSE UncertainBarrier(s)
    [] action.kind = "Open" ->
         IF failure = "FailedNotApplied" THEN OpenNotApplied(s) ELSE UncertainBarrier(s)
    [] action.kind = "SessionMode" -> [s EXCEPT !.mode = None]
    [] action.kind = "Configuration" -> IssueNextDependent([s EXCEPT !.applied = None])
    [] action.kind = "AdmitPaste" ->
         IF failure = "FailedNotApplied"
         THEN IssueNextDependent(IF s.pastePhase.auth = action.arg THEN WithoutPaste(s) ELSE s)
         ELSE NativeConfirmationFault(
                [s EXCEPT !.pastePhase = [kind |-> "Indeterminate", auth |-> action.arg,
                                          cancel |-> FALSE],
                          !.ownership.paste = "Indeterminate"])
    [] action.kind \in {"CancelCandidate", "CancelPaste"} -> Poison(Degrade(s))
    [] action.kind = "Persist" ->
         WithNativeFault([s EXCEPT
           !.maintenance  = [Settle(@, "SealedFailed") EXCEPT !.request = action.arg],
           !.plan.persist = FALSE])
    [] action.kind = "StopNative" -> WithNativeFault([s EXCEPT !.exit = "Running"])

FailNativeAction(slot, failure) ==
  /\ failure \in Failures
  /\ Outstanding(slot)
  /\ owner' = Failed(Take(owner, slot), owner.pending[slot], failure)

\* The adapter answered with something its contract does not allow: the
\* token fails as indeterminate and the stream is taken to be broken.  The
\* second half is not reached when the first could not allocate a token.
AllocatesOnFailure(s, action) ==
  LET failed == Failed([s EXCEPT !.idsLeft = TRUE], action, "Indeterminate")
  IN  \E slot \in Slots : s.pending[slot] = None /\ failed.pending[slot] # None

FailNativeAdapterContract(slot) ==
  LET taken  == Take(owner, slot)
      failed == Failed(taken, owner.pending[slot], "Indeterminate")
  IN  /\ "Desynchronized" \in Faults
      /\ Outstanding(slot)
      /\ owner' = IF /\ failed.exit = "Running"
                    /\ (owner.idsLeft \/ ~AllocatesOnFailure(taken, owner.pending[slot]))
                  THEN NativeConfirmationFault(failed) ELSE failed

-----------------------------------------------------------------------------
vars == owner

Confirm(slot) ==
  \/ ConfirmSessionMode(slot)
  \/ ConfirmConfiguration(slot)
  \/ ConfirmAdmissionOpened(slot)
  \/ ConfirmAdmissionClosed(slot)
  \/ ConfirmPasteWaiting(slot)
  \/ ConfirmPasteRefused(slot)
  \/ ConfirmWaitingPasteCancelled(slot)
  \/ ConfirmMaintenancePersisted(slot)
  \/ ConfirmNativeStopped(slot)
  \/ \E seen \in Observations : ConfirmCandidateCancelled(slot, seen)

Fail(slot) ==
  \/ \E failure \in Failures : FailNativeAction(slot, failure)
  \/ FailNativeAdapterContract(slot)

Startup ==
  \/ ConfirmStartupSnapshotSeeded
  \/ StartupCompleted
  \/ \E ready \in SUBSET Prerequisites, pasteReady \in BOOLEAN :
       ObserveNativeReadiness(ready, pasteReady)

Capture ==
  \/ \E conn \in Connections : AuthenticateObserver(conn) \/ AcquireCaptureLease(conn)
  \/ \E mode \in SessionModes \cup {"Off"} : SetSessionMode(mode)
  \/ \E revision \in Revisions : ReplaceConfiguration(revision)
  \/ Enable
  \/ Disable
  \/ \E paste \in Pastes : BeginPaste(paste)
  \/ Release

Retire ==
  \/ LatchRuntimeRollback
  \/ ProtocolFault
  \/ \E conn \in Connections : ControllerLost(conn)
  \/ \E event \in TerminalEvents : OfferPredecessorTerminal(event)
  \/ ConfirmPredecessorTerminalWritten
  \/ FailPredecessorTerminalWrite

Native ==
  \/ \E seen \in Observations : ObserveNative(seen) \/ ObserveImpossible(seen)
  \/ \E effects \in 0..EffectCapacity + 1 : SetAdmittedEffects(effects)
  \/ ConfirmEmergencyAdmissionClosed
  \/ ConfirmPasteClaimed
  \/ ConfirmPasteIndeterminate
  \/ ConfirmPasteCompleted
  \/ AdapterStreamDesynchronized
  \/ RecoverableNativeFault
  \/ ActionIdsExhausted
  \/ StaleConfirmation

MaintainAndExit ==
  \/ \E conn \in Connections, request \in Requests :
       AcquireMaintenance(conn, request) \/ ReacquireMaintenance(conn, request)
  \/ PrepareMaintenance
  \/ RequestIdleExit
  \/ MaintenanceGuardLost
  \/ BeginFinalResponseFlush
  \/ ConfirmFinalResponseFlushed

Next ==
  \/ Startup
  \/ Capture
  \/ Retire
  \/ Native
  \/ MaintainAndExit
  \/ \E slot \in Slots : Confirm(slot) \/ Fail(slot)

Spec == Init /\ [][Next]_vars
=============================================================================
