----------------------------- MODULE OwnerTypes -----------------------------
(***************************************************************************)
(* The state of the keyboard owner's lifecycle reducer,                    *)
(* src/helper/keyboard-owner/src/state.rs (struct KeyboardOwnerState).     *)
(*                                                                         *)
(* The reducer is a pure value: every public method takes the whole struct *)
(* and leaves it in a new state, also when it returns an error.  So the    *)
(* state is one record and every method is an operator from State to       *)
(* State; OwnerState.tla makes the methods the actions of a specification. *)
(***************************************************************************)
EXTENDS Naturals

CONSTANTS
  Connections,      \* authenticated connections (ConnectionId)
  Pastes,           \* paste authorizations (PasteAuthorization)
  Requests,         \* maintenance transactions with their operation (MaintenanceRequest)
  Revisions,        \* configuration revisions the controller may send
  Prerequisites,    \* the keyboard readiness dimensions: build, permissions, hook
  SessionModes,     \* the session capture modes other than "Off"
  Slots,            \* the slots of pending_actions (MAX_PENDING_ACTIONS of them)
  None,             \* Option::None
  MaxDrain,         \* the largest drained-key count the model tells apart
  MaxCleanup,       \* the largest replay-cleanup count the model tells apart
  EffectCapacity    \* OWNER_ADMITTED_EFFECT_CAPACITY

\* Null is not an identifier, and the counts are numbers.
ASSUME NoneAssumption ==
  None \notin Connections \cup Pastes \cup Requests \cup SessionModes

ASSUME BoundsAssumption ==
  /\ MaxDrain \in Nat /\ MaxCleanup \in Nat /\ EffectCapacity \in Nat
  /\ Revisions \subseteq Nat \ {0}

-----------------------------------------------------------------------------
(* ControllerInternal: the epoch stands for the whole capability.          *)
CaptureKinds == {"Disabled", "Enabled"}

ControllerKinds == CaptureKinds \cup {"NoController", "Observer", "Maintenance"}

Controller ==
  {c \in [kind : ControllerKinds, conn : Connections \cup {None}, epoch : Nat] :
     c.kind # "NoController" => c.conn \in Connections}

NoController == [kind |-> "NoController", conn |-> None, epoch |-> 0]

(* NativeOwnership: activation_drain_keys and session_drain_keys obey the  *)
(* same rules everywhere and are counted together in drain.                *)
Candidates == {"None", "Active", "Cancelling"}
PasteOwnerships == {"None", "Waiting", "Cancelling", "Claimed", "Indeterminate"}

Ownership == [candidate    : Candidates,
              drain        : 0..MaxDrain,
              cleanup      : 0..MaxCleanup,
              conservative : BOOLEAN,
              paste        : PasteOwnerships,
              effects      : 0..EffectCapacity]

Neutral == [candidate |-> "None", drain |-> 0, cleanup |-> 0,
            conservative |-> FALSE, paste |-> "None", effects |-> 0]

(* PastePhase: cancel is cancel_after_admit of the Admitting phase.        *)
PastePhase ==
  {p \in [kind : PasteOwnerships \cup {"Admitting"}, auth : Pastes \cup {None},
          cancel : BOOLEAN] :
     p.kind = "None" <=> p.auth = None}

NoPaste == [kind |-> "None", auth |-> None, cancel |-> FALSE]

(* ConfigurationRequest: the bindings are determined by (epoch, revision). *)
Configuration == [epoch : Nat, revision : Nat]

(* PendingAction: the slot is the token; arg is the mode, authorization or *)
(* transaction the kind carries, config the request of a Configuration.    *)
DependentKinds == {"CancelCandidate", "CancelPaste", "Configuration", "Persist"}
SemanticKinds == {"Open", "SessionMode", "Configuration", "AdmitPaste"}
ActionKinds == DependentKinds \cup SemanticKinds \cup {"Close", "StopNative"}

ArgumentsOf(kind) ==
  CASE kind = "SessionMode"                -> SessionModes \cup {"Off"}
    [] kind \in {"AdmitPaste", "CancelPaste"} -> Pastes
    [] kind = "Persist"                    -> Requests
    [] OTHER                               -> {None}

Arguments == Pastes \cup Requests \cup SessionModes \cup {"Off", None}

Action ==
  {a \in [kind : ActionKinds, arg : Arguments, config : Configuration \cup {None},
          superseded : BOOLEAN] :
     /\ a.arg \in ArgumentsOf(a.kind)
     /\ a.kind = "Configuration" => a.config \in Configuration}

(* close_plan and dependent_plan.                                          *)
ClosePlan == [release : BOOLEAN,
              config  : Configuration \cup {None},
              persist : BOOLEAN]

DefaultClose == [release |-> FALSE, config |-> None, persist |-> FALSE]

DependentPlan == [candidate : BOOLEAN,
                  paste     : BOOLEAN,
                  config    : Configuration \cup {None},
                  persist   : BOOLEAN,
                  drain     : BOOLEAN]

NoDependents == [candidate |-> FALSE, paste |-> FALSE, config |-> None,
                 persist |-> FALSE, drain |-> FALSE]

(* MaintenanceState: epoch is that of reserved_capability.                 *)
MaintenancePhases == {"None", "Sealing", "Persisting", "Exclusive", "Sealed", "SealedFailed"}

Maintenance ==
  {m \in [phase : MaintenancePhases, request : Requests \cup {None},
          requester : Connections \cup {None}, epoch : Nat] :
     m.phase # "None" => m.request \in Requests}

NoMaintenance == [phase |-> "None", request |-> None, requester |-> None, epoch |-> 0]

(* ExitState: NativeStopPending(purpose) is one value for each purpose.    *)
StopPurposes == {"StopIdle", "StopDegraded", "StopGuardLost",
                 "StopPrepare", "StopAbandoned"}
ExitStates == {"Running", "StoppedSealed", "ResponseReady", "Flushing", "Exiting"}
              \cup StopPurposes

(* PredecessorState: the offered terminal events and the one in flight.    *)
TerminalEvents == {"Revoked", "Draining", "Neutral", "Unavailable"}

Predecessor == [conn     : Connections,
                epoch    : Nat,
                revoked  : BOOLEAN,
                final    : BOOLEAN,
                inFlight : TerminalEvents \cup {"None"}]

(* Some(value) is never None.                                              *)
ASSUME OptionAssumption ==
  None \notin Configuration \cup Action \cup ClosePlan \cup Predecessor

-----------------------------------------------------------------------------
State == [controller       : Controller,
          ownership        : Ownership,
          pastePhase       : PastePhase,
          health           : {"Starting", "Healthy", "Degraded"},
          exit             : ExitStates,
          rollback         : BOOLEAN,
          admission        : {"Closed", "Opening", "Open", "Closing", "Unknown"},
          ready            : SUBSET Prerequisites,
          pasteReady       : BOOLEAN,
          seeded           : BOOLEAN,
          captureEpoch     : Nat,
          maintenanceEpoch : Nat,
          idsLeft          : BOOLEAN,
          pending          : [Slots -> Action \cup {None}],
          emergency        : BOOLEAN,
          closePlan        : ClosePlan \cup {None},
          plan             : DependentPlan,
          poisoned         : BOOLEAN,
          unknown          : BOOLEAN,
          unavailable      : {"None", "NativeFault", "OwnershipUnknown"},
          highWater        : Nat,
          requested        : Configuration \cup {None},
          applied          : Configuration \cup {None},
          mode             : SessionModes \cup {"Off", None},
          maintenance      : Maintenance,
          predecessor      : Predecessor \cup {None}]

(* KeyboardOwnerState::new.  idsLeft says whether last_action_id, a u64,   *)
(* can still be incremented: the model keeps no action counter.            *)
NewOwner == [controller       |-> NoController,
             ownership        |-> Neutral,
             pastePhase       |-> NoPaste,
             health           |-> "Starting",
             exit             |-> "Running",
             rollback         |-> FALSE,
             admission        |-> "Closed",
             ready            |-> {},
             pasteReady       |-> FALSE,
             seeded           |-> FALSE,
             captureEpoch     |-> 0,
             maintenanceEpoch |-> 0,
             idsLeft          |-> TRUE,
             pending          |-> [i \in Slots |-> None],
             emergency        |-> FALSE,
             closePlan        |-> None,
             plan             |-> NoDependents,
             poisoned         |-> FALSE,
             unknown          |-> FALSE,
             unavailable      |-> "None",
             highWater        |-> 0,
             requested        |-> None,
             applied          |-> None,
             mode             |-> None,
             maintenance      |-> NoMaintenance,
             predecessor      |-> None]
=============================================================================
