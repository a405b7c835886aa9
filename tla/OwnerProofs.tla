---------------------------- MODULE OwnerProofs -----------------------------
(***************************************************************************)
(* The inductive invariant of the lifecycle reducer and the theorems that  *)
(* follow from it for every value of the constants. First the private      *)
(* helpers: each keeps to the type of the state, preserves Core, and       *)
(* either leaves alone what an enabled lease stands on or ends its         *)
(* enablement. Then the actions, which chain them. Last what latches:      *)
(* native uncertainty, degradation and rollback are one way and none of    *)
(* them lets a closed gate open; the two records of a paste agree while    *)
(* native state is known; a cancelled paste stays cancelled.               *)
(***************************************************************************)
EXTENDS OwnerInvariant, TLAPS

-----------------------------------------------------------------------------
(* The type of the state.  SMT cannot follow an EXCEPT of many fields into *)
(* the set of records, so every field has its fact here, and a longer      *)
(* EXCEPT is taken apart into these.                                       *)

\* Each field of a state has its type.
LEMMA FieldTypes ==
  ASSUME NEW s \in State
  PROVE  /\ s.controller \in Controller
         /\ s.ownership \in Ownership
         /\ s.pastePhase \in PastePhase
         /\ s.health \in {"Starting", "Healthy", "Degraded"}
         /\ s.exit \in ExitStates
         /\ s.admission \in {"Closed", "Opening", "Open", "Closing", "Unknown"}
         /\ s.ready \in SUBSET Prerequisites
         /\ s.captureEpoch \in Nat /\ s.maintenanceEpoch \in Nat
         /\ s.pending \in [Slots -> Action \cup {None}]
         /\ s.emergency \in BOOLEAN
         /\ s.closePlan \in ClosePlan \cup {None}
         /\ s.plan \in DependentPlan
         /\ s.unavailable \in {"None", "NativeFault", "OwnershipUnknown"}
         /\ s.highWater \in Nat
         /\ s.requested \in Configuration \cup {None}
         /\ s.maintenance \in Maintenance
         /\ s.predecessor \in Predecessor \cup {None}
BY DEF State

\* Updates of what is native.
LEMMA NativeUpdates ==
  ASSUME NEW s \in State
  PROVE  /\ \A x \in Ownership : [s EXCEPT !.ownership = x] \in State
         /\ \A x \in PastePhase : [s EXCEPT !.pastePhase = x] \in State
         /\ \A x \in SUBSET Prerequisites : [s EXCEPT !.ready = x] \in State
         /\ \A x \in BOOLEAN : [s EXCEPT !.pasteReady = x] \in State
         /\ \A x \in BOOLEAN : [s EXCEPT !.unknown = x] \in State
         /\ \A x \in {"None", "NativeFault", "OwnershipUnknown"} :
              [s EXCEPT !.unavailable = x] \in State
BY DEF State

\* Updates of authority and of its configuration.
LEMMA AuthorityUpdates ==
  ASSUME NEW s \in State
  PROVE  /\ \A x \in Controller : [s EXCEPT !.controller = x] \in State
         /\ \A x \in Nat : [s EXCEPT !.highWater = x] \in State
         /\ \A x \in Configuration \cup {None} : [s EXCEPT !.requested = x] \in State
         /\ \A x \in Configuration \cup {None} : [s EXCEPT !.applied = x] \in State
         /\ \A x \in SessionModes \cup {"Off", None} : [s EXCEPT !.mode = x] \in State
         /\ \A x \in Predecessor \cup {None} : [s EXCEPT !.predecessor = x] \in State
BY DEF State

\* Updates of the gate and of the work behind it.
LEMMA WorkUpdates ==
  ASSUME NEW s \in State
  PROVE  /\ \A x \in {"Closed", "Opening", "Open", "Closing", "Unknown"} :
              [s EXCEPT !.admission = x] \in State
         /\ \A x \in [Slots -> Action \cup {None}] : [s EXCEPT !.pending = x] \in State
         /\ \A x \in BOOLEAN : [s EXCEPT !.emergency = x] \in State
         /\ \A x \in ClosePlan \cup {None} : [s EXCEPT !.closePlan = x] \in State
         /\ \A x \in DependentPlan : [s EXCEPT !.plan = x] \in State
         /\ \A x \in BOOLEAN : [s EXCEPT !.poisoned = x] \in State
<1>1. \A x \in {"Closed", "Opening", "Open", "Closing", "Unknown"} :
        [s EXCEPT !.admission = x] \in State
  BY DEF State
<1>2. \A x \in [Slots -> Action \cup {None}] : [s EXCEPT !.pending = x] \in State
  BY DEF State
<1>3. /\ \A x \in BOOLEAN : [s EXCEPT !.emergency = x] \in State
      /\ \A x \in BOOLEAN : [s EXCEPT !.poisoned = x] \in State
  BY DEF State
<1>4. \A x \in ClosePlan \cup {None} : [s EXCEPT !.closePlan = x] \in State
  BY DEF State
<1>5. \A x \in DependentPlan : [s EXCEPT !.plan = x] \in State
  BY DEF State
<1> QED
  BY <1>1, <1>2, <1>3, <1>4, <1>5

\* Updates of the owner's own life.
LEMMA LifeUpdates ==
  ASSUME NEW s \in State
  PROVE  /\ \A x \in {"Starting", "Healthy", "Degraded"} : [s EXCEPT !.health = x] \in State
         /\ \A x \in ExitStates : [s EXCEPT !.exit = x] \in State
         /\ \A x \in Maintenance : [s EXCEPT !.maintenance = x] \in State
         /\ \A x \in BOOLEAN : [s EXCEPT !.rollback = x] \in State
         /\ \A x \in BOOLEAN : [s EXCEPT !.seeded = x] \in State
         /\ \A x \in BOOLEAN : [s EXCEPT !.idsLeft = x] \in State
BY DEF State

\* Updates of the epochs granted.
LEMMA EpochUpdates ==
  ASSUME NEW s \in State
  PROVE  /\ \A x \in Nat : [s EXCEPT !.captureEpoch = x] \in State
         /\ \A x \in Nat : [s EXCEPT !.maintenanceEpoch = x] \in State
BY DEF State

-----------------------------------------------------------------------------
(* The private helpers keep to the type of the state.                      *)

\* Writing one slot of the table of tokens keeps to the type of the state.
LEMMA PendingType ==
  ASSUME NEW s \in State, NEW slot \in Slots, NEW a \in Action \cup {None}
  PROVE  [s EXCEPT !.pending[slot] = a] \in State
<1> DEFINE p == [s.pending EXCEPT ![slot] = a]
<1>1. p \in [Slots -> Action \cup {None}]
  BY DEF State
<1>2. [s EXCEPT !.pending[slot] = a] = [s EXCEPT !.pending = p]
  BY DEF State
<1> HIDE DEF p
<1> QED
  BY <1>1, <1>2 DEF State

\* Taking a token keeps to the type of the state.
LEMMA TakeType ==
  ASSUME NEW s \in State, NEW slot \in Slots
  PROVE  Take(s, slot) \in State
BY PendingType DEF Take

\* Superseding pending tokens keeps to the type of the state.
LEMMA SupersedeType ==
  ASSUME NEW s \in State, NEW kinds
  PROVE  Supersede(s, kinds) \in State
<1> DEFINE p == [i \in Slots |-> IF s.pending[i] # None /\ s.pending[i].kind \in kinds
                                 THEN [s.pending[i] EXCEPT !.superseded = TRUE]
                                 ELSE s.pending[i]]
<1>1. ASSUME NEW i \in Slots PROVE p[i] \in Action \cup {None}
  <2>1. s.pending[i] \in Action \cup {None}
    BY DEF State
  <2>2. ASSUME s.pending[i] \in Action
        PROVE  [s.pending[i] EXCEPT !.superseded = TRUE] \in Action
    BY <2>2 DEF Action
  <2> QED
    BY <2>1, <2>2
<1>2. p \in [Slots -> Action \cup {None}]
  BY <1>1
<1>3. Supersede(s, kinds) = [s EXCEPT !.pending = p]
  BY DEF State, Supersede
<1> HIDE DEF p
<1> QED
  BY <1>2, <1>3 DEF State

\* Losing authority and reconciliation keeps to the type of the state.
LEMMA DemoteType ==
  ASSUME NEW s \in State
  PROVE  /\ DemoteCapture(s) \in State
         /\ InvalidateReconciliation(s) \in State
<1>1. DemoteCapture(s) \in State
  BY DEF State, DemoteCapture, Controller, ControllerKinds, CaptureKinds
<1>2. InvalidateReconciliation(s) \in State
  BY DEF State, InvalidateReconciliation
<1> QED
  BY <1>1, <1>2

\* Cancelling an unclaimed paste keeps to the type of the state.
LEMMA CancelUnclaimedPasteType ==
  ASSUME NEW s \in State
  PROVE  /\ [s EXCEPT !.pastePhase.cancel = TRUE] \in State
         /\ CancelUnclaimedPaste(s) \in State
<1> DEFINE revoked    == [s.pastePhase EXCEPT !.cancel = TRUE]
           cancelling == [s.pastePhase EXCEPT !.kind = "Cancelling"]
           own        == [s.ownership EXCEPT !.paste = "Cancelling"]
           plan       == [s.plan EXCEPT !.paste = TRUE]
<1>1. [s EXCEPT !.pastePhase.cancel = TRUE] \in State
  <2>1. revoked \in PastePhase
    BY FieldTypes DEF PastePhase
  <2>2. [s EXCEPT !.pastePhase.cancel = TRUE] = [s EXCEPT !.pastePhase = revoked]
    BY DEF State
  <2> HIDE DEF revoked
  <2> QED
    BY <2>1, <2>2, NativeUpdates
<1>2. ASSUME s.pastePhase.kind = "Waiting"
      PROVE  [s EXCEPT !.pastePhase.kind = "Cancelling", !.ownership.paste = "Cancelling",
                       !.plan.paste = TRUE] \in State
  <2> DEFINE u == [s EXCEPT !.pastePhase = cancelling]
             v == [u EXCEPT !.ownership = own]
  <2>1. cancelling \in PastePhase
    BY <1>2, FieldTypes DEF PastePhase, PasteOwnerships
  <2>2. own \in Ownership
    BY FieldTypes DEF Ownership, PasteOwnerships
  <2>3. plan \in DependentPlan
    BY FieldTypes DEF DependentPlan
  <2>4. [s EXCEPT !.pastePhase.kind = "Cancelling", !.ownership.paste = "Cancelling",
                  !.plan.paste = TRUE] = [v EXCEPT !.plan = plan]
    BY DEF State
  <2> HIDE DEF cancelling, own, plan
  <2>5. u \in State
    BY <2>1, NativeUpdates
  <2> HIDE DEF u
  <2>6. v \in State
    BY <2>2, <2>5, NativeUpdates
  <2> HIDE DEF v
  <2> QED
    BY <2>3, <2>4, <2>6, WorkUpdates
<1> QED
  BY <1>1, <1>2, SupersedeType DEF CancelUnclaimedPaste

\* Degrading keeps to the type of the state.
LEMMA DegradeType ==
  ASSUME NEW s \in State
  PROVE  Degrade(s) \in State
<1> DEFINE c == CancelUnclaimedPaste(DemoteCapture(s))
           m == IF c.maintenance.phase \in {"Sealing", "Persisting"}
                THEN Settle(c.maintenance, "SealedFailed") ELSE c.maintenance
           a == IF c.admission = "Closed" THEN c.admission ELSE "Unknown"
<1>1. c \in State
  BY DemoteType, CancelUnclaimedPasteType
<1> HIDE DEF c
<1>2. m \in Maintenance /\ a \in {"Closed", "Unknown"}
  BY <1>1, FieldTypes DEF Settle, Maintenance, MaintenancePhases
<1>3. Degrade(s) = [[[[[c EXCEPT !.health = "Degraded"]
                          EXCEPT !.unknown = TRUE]
                         EXCEPT !.unavailable = "OwnershipUnknown"]
                        EXCEPT !.maintenance = m]
                       EXCEPT !.admission = a]
  BY <1>1, FieldTypes DEF Degrade, c, State
<1> HIDE DEF m, a
<1> DEFINE d == [[[c EXCEPT !.health = "Degraded"] EXCEPT !.unknown = TRUE]
                    EXCEPT !.unavailable = "OwnershipUnknown"]
<1>4. d \in State
  BY <1>1, NativeUpdates, LifeUpdates
<1> HIDE DEF d
<1>5. [[d EXCEPT !.maintenance = m] EXCEPT !.admission = a] \in State
  BY <1>2, <1>4, LifeUpdates, WorkUpdates
<1> QED
  BY <1>3, <1>5 DEF d

\* The failure to allocate a token keeps to the type of the state.
LEMMA AllocationErrorType ==
  ASSUME NEW s \in State
  PROVE  AllocationError(s) \in State
<1> DEFINE d == Degrade(s)
<1>1. d \in State
  BY DegradeType
<1> HIDE DEF d
<1>2. ASSUME NEW b \in BOOLEAN PROVE [d EXCEPT !.emergency = @ \/ b] \in State
  BY <1>1 DEF State
<1> QED
  BY <1>2 DEF AllocationError, d

\* The arguments with which each kind of token is issued are its own.
LEMMA ActionTypes ==
  /\ \A kind \in {"CancelCandidate", "Open", "Close", "StopNative"} :
       [kind |-> kind, arg |-> None, config |-> None, superseded |-> FALSE] \in Action
  /\ \A paste \in Pastes, kind \in {"AdmitPaste", "CancelPaste"} :
       [kind |-> kind, arg |-> paste, config |-> None, superseded |-> FALSE] \in Action
  /\ \A mode \in SessionModes \cup {"Off"} :
       [kind |-> "SessionMode", arg |-> mode, config |-> None, superseded |-> FALSE] \in Action
  /\ \A request \in Requests :
       [kind |-> "Persist", arg |-> request, config |-> None, superseded |-> FALSE] \in Action
  /\ \A config \in Configuration :
       [kind |-> "Configuration", arg |-> None, config |-> config, superseded |-> FALSE] \in Action
BY DEF Action, ActionKinds, DependentKinds, SemanticKinds, Arguments, ArgumentsOf

-----------------------------------------------------------------------------
(* How far a helper may go from s to t so that Core follows: the work does *)
(* not grow, and the lease is kept as it was or is gone.                   *)

WorkRetreats(s, t) ==
  /\ t.admission \in {"Opening", "Open"} => s.admission = t.admission
  /\ t.plan.config \in {s.plan.config, None}
  /\ \A i \in Slots, kind \in ActionKinds :
       HasKind(t.pending[i], kind) => HasKind(s.pending[i], kind)
  /\ t.exit = "Running" <=> s.exit = "Running"
  /\ t.maintenance.phase = "None" => s.maintenance.phase = "None"

LeaseKept(s, t) ==
  /\ t.maintenance.phase # "None" => s.maintenance.phase # "None"
  /\ t.rollback = s.rollback
  /\ IsCapture(t) <=> IsCapture(s)
  /\ t.controller.kind = "Enabled" => s.controller.kind = "Enabled"
  /\ t.controller.epoch = s.controller.epoch
  /\ t.highWater = s.highWater
  /\ t.requested = s.requested /\ t.applied = s.applied

LeaseGone(t) == ~IsCapture(t) /\ t.requested = None /\ t.applied = None

Retreats(s, t) == WorkRetreats(s, t) /\ LeaseKept(s, t)

NotEnabled(s) == s.controller.kind # "Enabled"

\* What an enabled lease stands on is the same in s and t.
Steady(s, t) ==
  /\ t.controller = s.controller /\ t.admission = s.admission
  /\ t.health = s.health /\ t.exit = s.exit
  /\ t.rollback = s.rollback /\ t.unknown = s.unknown
  /\ t.maintenance.phase = "None" <=> s.maintenance.phase = "None"
  /\ t.predecessor = s.predecessor
  /\ t.applied = s.applied /\ t.ready = s.ready

EnabledKept(s, t) == NotEnabled(t) \/ Steady(s, t)

\* A step that retreats preserves the core of the invariant.
LEMMA RetreatsCore ==
  ASSUME NEW s, NEW t, Core(s), t \in State,
         WorkRetreats(s, t), LeaseKept(s, t) \/ LeaseGone(t)
  PROVE  Core(t)
<1>1. {"Configuration", "StopNative", "Persist"} \subseteq ActionKinds
  BY DEF ActionKinds, DependentKinds, SemanticKinds
<1>2. GateHoldsConfiguration(t)
  BY <1>1 DEF Core, WorkRetreats, GateHoldsConfiguration
<1>3. StopsOnce(t) /\ PersistsTransaction(t)
  BY <1>1 DEF Core, WorkRetreats, StopsOnce, PersistsTransaction
<1>4. SealExcludesCapture(t) /\ RollbackExcludesCapture(t) /\ ReconciledForLease(t)
  BY DEF Core, LeaseKept, LeaseGone, SealExcludesCapture, RollbackExcludesCapture,
         ReconciledForLease
<1> QED
  BY <1>2, <1>3, <1>4 DEF Core

\* Retreats compose.
LEMMA RetreatsCompose ==
  ASSUME NEW s, NEW t, NEW u, Retreats(s, t), Retreats(t, u)
  PROVE  Retreats(s, u)
BY DEF Retreats, WorkRetreats, LeaseKept

\* What a helper does to the table of tokens.
LEMMA PendingRetreats ==
  ASSUME NEW s \in State
  PROVE  /\ \A kinds : Retreats(s, Supersede(s, kinds))
         /\ \A slot \in Slots : Retreats(s, Take(s, slot))
<1>1. ASSUME NEW kinds PROVE Retreats(s, Supersede(s, kinds))
  <2>1. ASSUME NEW i \in Slots, NEW kind \in ActionKinds,
               HasKind(Supersede(s, kinds).pending[i], kind)
        PROVE  HasKind(s.pending[i], kind)
    <3>1. s.pending[i] \in Action \cup {None}
      BY FieldTypes
    <3>2. Supersede(s, kinds).pending[i] \in {s.pending[i], [s.pending[i] EXCEPT !.superseded = TRUE]}
      BY DEF Supersede, State
    <3>3. ASSUME s.pending[i] \in Action
          PROVE  [s.pending[i] EXCEPT !.superseded = TRUE].kind = s.pending[i].kind
      BY <3>3 DEF Action
    <3>4. CASE s.pending[i] = None
      BY <3>4, <2>1 DEF Supersede, State
    <3> QED
      BY <2>1, <3>1, <3>2, <3>3, <3>4, OptionAssumption DEF HasKind
  <2> QED
    BY <2>1 DEF Retreats, WorkRetreats, LeaseKept, IsCapture, Supersede, State
<1>2. ASSUME NEW slot \in Slots PROVE Retreats(s, Take(s, slot))
  BY DEF Retreats, WorkRetreats, LeaseKept, IsCapture, HasKind, Take, State
<1> QED
  BY <1>1, <1>2

\* What a helper does to the lease and the paste.
LEMMA DegradeRetreats ==
  ASSUME NEW s \in State
  PROVE  /\ Retreats(s, DemoteCapture(s)) /\ NotEnabled(DemoteCapture(s))
         /\ Retreats(s, CancelUnclaimedPaste(s))
         /\ CancelUnclaimedPaste(s).controller = s.controller
         /\ Retreats(s, Degrade(s)) /\ NotEnabled(Degrade(s))
<1>1. Retreats(s, DemoteCapture(s)) /\ NotEnabled(DemoteCapture(s))
  BY DEF DemoteCapture, NotEnabled, Retreats, WorkRetreats, LeaseKept, IsCapture, CaptureKinds,
         State, Controller
<1>2. ASSUME NEW t \in State
      PROVE  /\ Retreats(t, CancelUnclaimedPaste(t))
             /\ CancelUnclaimedPaste(t).controller = t.controller
  <2>1. [t EXCEPT !.pastePhase.cancel = TRUE] \in State
    BY CancelUnclaimedPasteType
  <2>2. Retreats(t, [t EXCEPT !.pastePhase.cancel = TRUE])
    BY DEF Retreats, WorkRetreats, LeaseKept, IsCapture, State
  <2>3. Retreats(t, [t EXCEPT !.pastePhase.kind = "Cancelling", !.ownership.paste = "Cancelling",
                              !.plan.paste = TRUE])
    BY DEF Retreats, WorkRetreats, LeaseKept, IsCapture, State, DependentPlan
  <2>4. Retreats(t, t)
    BY DEF Retreats, WorkRetreats, LeaseKept
  <2>5. Retreats(t, CancelUnclaimedPaste(t))
    BY <2>1, <2>2, <2>3, <2>4, PendingRetreats, RetreatsCompose DEF CancelUnclaimedPaste
  <2>6. CancelUnclaimedPaste(t).controller = t.controller
    BY DEF CancelUnclaimedPaste, Supersede, State
  <2> QED
    BY <2>5, <2>6
<1>3. Retreats(s, Degrade(s)) /\ NotEnabled(Degrade(s))
  <2> DEFINE c == CancelUnclaimedPaste(DemoteCapture(s))
  <2>1. c \in State /\ Retreats(s, c) /\ NotEnabled(c)
    BY <1>1, <1>2, DemoteType, CancelUnclaimedPasteType, RetreatsCompose DEF NotEnabled
  <2> HIDE DEF c
  <2>2. Retreats(c, Degrade(s)) /\ NotEnabled(Degrade(s))
    BY <2>1 DEF Degrade, c, Retreats, WorkRetreats, LeaseKept, IsCapture, NotEnabled, Settle, State
  <2> QED
    BY <2>1, <2>2, RetreatsCompose
<1> QED
  BY <1>1, <1>2, <1>3

\* Keeping or ending an enablement composes.
LEMMA EnabledKeptComposes ==
  ASSUME NEW s, NEW t, EnabledKept(s, t)
  PROVE  /\ \A u : EnabledKept(t, u) => EnabledKept(s, u)
         /\ EnabledStays(s) => EnabledStays(t)
         /\ NotEnabled(s) => NotEnabled(t)
         /\ EnabledKept(s, s)
BY DEF EnabledKept, Steady, NotEnabled, EnabledStays, KeyboardEligible

-----------------------------------------------------------------------------
(* Tokens                                                                  *)

\* A token that cannot be allocated costs the lease its enablement.
LEMMA AllocationErrorCore ==
  ASSUME NEW s, Core(s)
  PROVE  Core(AllocationError(s)) /\ NotEnabled(AllocationError(s))
<1> DEFINE d == Degrade(s)
<1>1. s \in State
  BY DEF Core
<1>2. d \in State /\ Retreats(s, d) /\ NotEnabled(d)
  BY <1>1, DegradeType, DegradeRetreats
<1> HIDE DEF d
<1>3. ASSUME NEW b \in BOOLEAN
      PROVE  Retreats(d, [d EXCEPT !.emergency = @ \/ b]) /\ NotEnabled([d EXCEPT !.emergency = @ \/ b])
  BY <1>2 DEF Retreats, WorkRetreats, LeaseKept, IsCapture, NotEnabled, State
<1>4. Retreats(d, AllocationError(s)) /\ NotEnabled(AllocationError(s))
  BY <1>3 DEF AllocationError, d
<1>5. AllocationError(s) \in State
  BY <1>1, AllocationErrorType
<1> QED
  BY <1>2, <1>4, <1>5, RetreatsCompose, RetreatsCore DEF Retreats

\* A token other than that of the native stop is issued under the condition
\* the core of the invariant puts on its kind.
LEMMA IssueCore ==
  ASSUME NEW s, Core(s), NEW kind \in ActionKinds \ {"StopNative"}, NEW arg, NEW config,
         [kind |-> kind, arg |-> arg, config |-> config, superseded |-> FALSE] \in Action,
         kind = "Configuration" => s.admission \notin {"Opening", "Open"},
         kind = "Persist" => s.maintenance.phase # "None"
  PROVE  /\ Core(Issue(s, kind, arg, config))
         /\ EnabledKept(s, Issue(s, kind, arg, config))
<1>1. CASE ~Allocatable(s)
  BY <1>1, AllocationErrorCore DEF Issue, EnabledKept
<1>2. CASE Allocatable(s)
  <2> DEFINE slot == CHOOSE i \in Slots : s.pending[i] = None
             act  == [kind |-> kind, arg |-> arg, config |-> config, superseded |-> FALSE]
             t    == [s EXCEPT !.pending[slot] = act]
  <2>1. slot \in Slots /\ s \in State
    BY <1>2 DEF Allocatable, Core
  <2>2. Issue(s, kind, arg, config) = t
    BY <1>2 DEF Issue
  <2> HIDE DEF slot
  <2>3. t \in State
    BY <2>1, PendingType
  <2>4. Steady(s, t)
    BY <2>1 DEF Steady, State
  <2>5. /\ t.plan = s.plan /\ t.maintenance = s.maintenance
        /\ t.requested = s.requested /\ t.highWater = s.highWater
        /\ \A i \in Slots : t.pending[i] = IF i = slot THEN act ELSE s.pending[i]
    BY <2>1 DEF State
  <2>6. act.kind = kind
    OBVIOUS
  <2> HIDE DEF t, act
  <2>7. GateHoldsConfiguration(t) /\ StopsOnce(t) /\ PersistsTransaction(t)
    BY <2>4, <2>5, <2>6
       DEF Core, Steady, GateHoldsConfiguration, StopsOnce, PersistsTransaction, HasKind
  <2>8. SealExcludesCapture(t) /\ RollbackExcludesCapture(t) /\ ReconciledForLease(t)
    BY <2>4, <2>5 DEF Core, Steady, SealExcludesCapture, RollbackExcludesCapture,
                      ReconciledForLease, IsCapture
  <2> QED
    BY <2>2, <2>3, <2>4, <2>7, <2>8 DEF Core, EnabledKept
<1> QED
  BY <1>1, <1>2

\* The native stop begins once, and without a capture lease.
LEMMA BeginNativeStopCore ==
  ASSUME NEW s, Core(s), NEW purpose \in StopPurposes, ~IsCapture(s)
  PROVE  Core(BeginNativeStop(s, purpose)) /\ NotEnabled(BeginNativeStop(s, purpose))
<1>1. NotEnabled(s) /\ s \in State
  BY DEF NotEnabled, IsCapture, CaptureKinds, Core
<1>2. CASE s.exit # "Running" \/ ~Allocatable(s)
  BY <1>1, <1>2, AllocationErrorCore DEF BeginNativeStop
<1>3. CASE s.exit = "Running" /\ Allocatable(s)
  <2> DEFINE slot == CHOOSE i \in Slots : s.pending[i] = None
             act  == [kind |-> "StopNative", arg |-> None, config |-> None, superseded |-> FALSE]
             u    == [s EXCEPT !.pending[slot] = act]
             t    == [u EXCEPT !.exit = purpose]
  <2>1. slot \in Slots
    BY <1>3 DEF Allocatable
  <2>2. BeginNativeStop(s, purpose) = t
    BY <1>3 DEF BeginNativeStop, Issue
  <2> HIDE DEF slot
  <2>3. act \in Action
    BY ActionTypes
  <2> HIDE DEF act
  <2>4. u \in State
    BY <1>1, <2>1, <2>3, PendingType
  <2>5. /\ t.plan = s.plan /\ t.maintenance = s.maintenance /\ t.controller = s.controller
        /\ t.requested = s.requested /\ t.highWater = s.highWater /\ t.applied = s.applied
        /\ t.rollback = s.rollback /\ t.admission = s.admission /\ t.exit = purpose
        /\ \A i \in Slots : t.pending[i] = IF i = slot THEN act ELSE s.pending[i]
    BY <1>1, <2>1, <2>4 DEF State
  <2>6. t \in State /\ act.kind = "StopNative" /\ purpose # "Running"
    BY <2>4, LifeUpdates DEF act, ExitStates, StopPurposes
  <2> HIDE DEF t
  <2>7. GateHoldsConfiguration(t) /\ StopsOnce(t) /\ PersistsTransaction(t)
    BY <1>3, <2>5, <2>6
       DEF Core, GateHoldsConfiguration, StopsOnce, PersistsTransaction, HasKind
  <2>8. SealExcludesCapture(t) /\ RollbackExcludesCapture(t) /\ ReconciledForLease(t)
    BY <2>5 DEF Core, SealExcludesCapture, RollbackExcludesCapture, ReconciledForLease, IsCapture
  <2> QED
    BY <1>1, <2>2, <2>5, <2>6, <2>7, <2>8 DEF Core, NotEnabled
<1> QED
  BY <1>2, <1>3

\* The exit of a degraded owner begins only when nobody holds a capture lease.
LEMMA MaybeBeginDegradedExitCore ==
  ASSUME NEW s, Core(s)
  PROVE  /\ Core(MaybeBeginDegradedExit(s))
         /\ EnabledKept(s, MaybeBeginDegradedExit(s))
<1>1. "StopDegraded" \in StopPurposes
  BY DEF StopPurposes
<1>2. EnabledKept(s, s)
  BY DEF EnabledKept, Steady
<1> QED
  BY <1>1, <1>2, BeginNativeStopCore DEF MaybeBeginDegradedExit, EnabledKept

-----------------------------------------------------------------------------
(* Dependent work and closing                                              *)

\* A helper that only retreats, and leaves an enabled lease its ground,
\* preserves the core.
LEMMA SteadyCore ==
  ASSUME NEW s, NEW t, Core(s), t \in State, Retreats(s, t), EnabledKept(s, t)
  PROVE  Core(t) /\ EnabledKept(s, t)
BY RetreatsCore DEF Retreats

\* The next step of the dependent plan preserves the core.
LEMMA DispatchPlanCore ==
  ASSUME NEW s, Core(s)
  PROVE  Core(DispatchPlan(s)) /\ EnabledKept(s, DispatchPlan(s))
<1>1. /\ s \in State /\ s.plan \in DependentPlan /\ s.ownership \in Ownership
      /\ s.pastePhase \in PastePhase /\ s.maintenance \in Maintenance
  BY FieldTypes DEF Core
<1>2. /\ Core(CancelCandidateNext(s))
      /\ EnabledKept(s, CancelCandidateNext(s))
  <2> DEFINE pl == [s.plan EXCEPT !.candidate = FALSE]
             ow == [s.ownership EXCEPT !.candidate = "Cancelling"]
             t  == [[s EXCEPT !.plan = pl] EXCEPT !.ownership = ow]
  <2>1. pl \in DependentPlan /\ ow \in Ownership /\ pl.config = s.plan.config
    BY <1>1 DEF DependentPlan, Ownership, Candidates
  <2>2. t = [s EXCEPT !.plan.candidate = FALSE, !.ownership.candidate = "Cancelling"]
    BY <1>1 DEF State
  <2> HIDE DEF pl, ow
  <2>3. t \in State
    BY <1>1, <2>1, WorkUpdates, NativeUpdates
  <2>4. Retreats(s, t) /\ EnabledKept(s, t)
    BY <1>1, <2>1
       DEF State, Retreats, WorkRetreats, LeaseKept, EnabledKept, Steady, IsCapture
  <2> HIDE DEF t
  <2>5. Core(t)
    BY <2>3, <2>4, SteadyCore
  <2>6. "CancelCandidate" \in ActionKinds \ {"StopNative"}
    BY DEF ActionKinds, DependentKinds
  <2> QED
    BY <2>2, <2>4, <2>5, <2>6, IssueCore, ActionTypes, EnabledKeptComposes DEF CancelCandidateNext
<1>3. Core(CancelPasteNext(s)) /\ EnabledKept(s, CancelPasteNext(s))
  <2> DEFINE pl == [s.plan EXCEPT !.paste = FALSE]
             ow == [s.ownership EXCEPT !.paste = "Cancelling"]
             ph == [s.pastePhase EXCEPT !.kind = "Cancelling"]
             u  == [s EXCEPT !.plan = pl]
             t  == [[u EXCEPT !.pastePhase = ph] EXCEPT !.ownership = ow]
  <2>1. pl \in DependentPlan /\ ow \in Ownership /\ pl.config = s.plan.config
    BY <1>1 DEF DependentPlan, Ownership, PasteOwnerships
  <2>2. /\ u = [s EXCEPT !.plan.paste = FALSE]
        /\ t = [s EXCEPT !.plan.paste = FALSE, !.pastePhase.kind = "Cancelling",
                         !.ownership.paste = "Cancelling"]
    BY <1>1 DEF State
  <2> HIDE DEF pl, ow
  <2>3. u \in State
    BY <1>1, <2>1, WorkUpdates
  <2>4. CASE s.pastePhase.auth = None
    <3>1. Retreats(s, u) /\ EnabledKept(s, u)
      BY <1>1, <2>1
         DEF State, Retreats, WorkRetreats, LeaseKept, EnabledKept, Steady, IsCapture
    <3> HIDE DEF u
    <3> QED
      BY <2>2, <2>3, <2>4, <3>1, SteadyCore DEF CancelPasteNext
  <2>5. CASE s.pastePhase.auth # None
    <3>1. ph \in PastePhase /\ s.pastePhase.auth \in Pastes
      BY <1>1, <2>5 DEF PastePhase, PasteOwnerships
    <3> HIDE DEF ph
    <3>2. Retreats(s, t) /\ EnabledKept(s, t)
      BY <1>1, <2>1
         DEF State, Retreats, WorkRetreats, LeaseKept, EnabledKept, Steady, IsCapture
    <3> HIDE DEF u
    <3>3. t \in State
      BY <2>1, <2>3, <3>1, NativeUpdates
    <3> HIDE DEF t
    <3>4. Core(t)
      BY <3>2, <3>3, SteadyCore
    <3>5. "CancelPaste" \in ActionKinds \ {"StopNative"}
      BY DEF ActionKinds, DependentKinds
    <3> DEFINE issued == Issue(t, "CancelPaste", s.pastePhase.auth, None)
    <3>6. Core(issued) /\ EnabledKept(t, issued)
      BY <3>1, <3>4, <3>5, IssueCore, ActionTypes
    <3>7. CancelPasteNext(s) = issued
      BY <2>2, <2>5 DEF CancelPasteNext
    <3> HIDE DEF issued
    <3> QED
      BY <3>2, <3>6, <3>7, EnabledKeptComposes
  <2> QED
    BY <2>4, <2>5
<1>4. ASSUME NEW u, Core(u)
      PROVE  Core(PersistNext(u)) /\ EnabledKept(u, PersistNext(u))
  <2> DEFINE pl == [u.plan EXCEPT !.persist = FALSE]
             ma == [u.maintenance EXCEPT !.phase = "Persisting"]
             v  == [u EXCEPT !.plan = pl]
             t  == [v EXCEPT !.maintenance = ma]
  <2>1. u \in State /\ u.plan \in DependentPlan /\ u.maintenance \in Maintenance
    BY <1>4, FieldTypes DEF Core
  <2>2. pl \in DependentPlan /\ pl.config = u.plan.config
    BY <2>1 DEF DependentPlan
  <2>3. /\ v = [u EXCEPT !.plan.persist = FALSE]
        /\ t = [u EXCEPT !.plan.persist = FALSE, !.maintenance.phase = "Persisting"]
    BY <2>1 DEF State
  <2> HIDE DEF pl
  <2>4. v \in State
    BY <2>1, <2>2, WorkUpdates
  <2>5. CASE u.maintenance.phase # "Sealing"
    <3>1. Retreats(u, v) /\ EnabledKept(u, v)
      BY <2>1, <2>2
         DEF State, Retreats, WorkRetreats, LeaseKept, EnabledKept, Steady, IsCapture
    <3> HIDE DEF v
    <3> QED
      BY <1>4, <2>3, <2>4, <2>5, <3>1, SteadyCore DEF PersistNext
  <2>6. CASE u.maintenance.phase = "Sealing"
    <3>1. ma \in Maintenance /\ u.maintenance.request \in Requests /\ ma.phase = "Persisting"
      BY <2>1, <2>6 DEF Maintenance, MaintenancePhases
    <3> HIDE DEF ma
    <3>2. Retreats(u, t) /\ EnabledKept(u, t) /\ t.maintenance.phase # "None"
      BY <2>1, <2>2, <2>6, <3>1
         DEF State, Retreats, WorkRetreats, LeaseKept, EnabledKept, Steady, IsCapture
    <3> HIDE DEF v
    <3>3. t \in State
      BY <2>4, <3>1, LifeUpdates
    <3> HIDE DEF t
    <3>4. Core(t)
      BY <1>4, <3>2, <3>3, SteadyCore
    <3>5. "Persist" \in ActionKinds \ {"StopNative"}
      BY DEF ActionKinds, DependentKinds
    <3> DEFINE issued == Issue(t, "Persist", u.maintenance.request, None)
    <3>6. Core(issued) /\ EnabledKept(t, issued)
      BY <3>1, <3>2, <3>4, <3>5, IssueCore, ActionTypes
    <3>7. PersistNext(u) = issued
      BY <2>3, <2>6 DEF PersistNext
    <3> HIDE DEF issued
    <3> QED
      BY <3>2, <3>6, <3>7, EnabledKeptComposes
  <2> QED
    BY <2>5, <2>6
<1>5. ASSUME s.plan.config # None
      PROVE  LET issued == Issue([s EXCEPT !.plan.config = None], "Configuration", None, s.plan.config)
             IN  Core(issued) /\ EnabledKept(s, issued)
  <2> DEFINE pl == [s.plan EXCEPT !.config = None]
             t  == [s EXCEPT !.plan = pl]
  <2>1. pl \in DependentPlan /\ pl.config = None /\ s.plan.config \in Configuration
    BY <1>1, <1>5 DEF DependentPlan
  <2>2. t = [s EXCEPT !.plan.config = None]
    BY <1>1 DEF State
  <2> HIDE DEF pl
  <2>3. t \in State
    BY <1>1, <2>1, WorkUpdates
  <2>4. Retreats(s, t) /\ EnabledKept(s, t) /\ t.admission = s.admission
    BY <1>1, <2>1
       DEF State, Retreats, WorkRetreats, LeaseKept, EnabledKept, Steady, IsCapture
  <2> HIDE DEF t
  <2>5. Core(t) /\ t.admission \notin {"Opening", "Open"}
    BY <1>5, <2>3, <2>4, SteadyCore DEF Core, GateHoldsConfiguration
  <2>6. "Configuration" \in ActionKinds \ {"StopNative"}
    BY DEF ActionKinds, DependentKinds
  <2> DEFINE issued == Issue(t, "Configuration", None, s.plan.config)
  <2>7. Core(issued) /\ EnabledKept(t, issued)
    BY <2>1, <2>5, <2>6, IssueCore, ActionTypes
  <2>8. Issue([s EXCEPT !.plan.config = None], "Configuration", None, s.plan.config) = issued
    BY <2>2
  <2> HIDE DEF issued
  <2> QED
    BY <2>4, <2>7, <2>8, EnabledKeptComposes
<1>6. \A t \in {[s EXCEPT !.plan.drain = FALSE], [s EXCEPT !.plan = NoDependents]} :
        Core(t) /\ EnabledKept(s, t)
  <2> DEFINE pl == [s.plan EXCEPT !.drain = FALSE]
  <2>1. /\ pl \in DependentPlan /\ pl.config = s.plan.config
        /\ NoDependents \in DependentPlan /\ NoDependents.config = None
    BY <1>1 DEF DependentPlan, NoDependents
  <2>2. [s EXCEPT !.plan.drain = FALSE] = [s EXCEPT !.plan = pl]
    BY <1>1 DEF State
  <2> HIDE DEF pl
  <2>3. ASSUME NEW x \in {pl, NoDependents}
        PROVE  LET t == [s EXCEPT !.plan = x]
               IN  t \in State /\ Retreats(s, t) /\ EnabledKept(s, t)
    <3>1. [s EXCEPT !.plan = x] \in State
      BY <1>1, <2>1, WorkUpdates
    <3>2. Retreats(s, [s EXCEPT !.plan = x]) /\ EnabledKept(s, [s EXCEPT !.plan = x])
      BY <1>1, <2>1
         DEF State, Retreats, WorkRetreats, LeaseKept, EnabledKept, Steady, IsCapture
    <3> QED
      BY <3>1, <3>2
  <2> QED
    BY <2>2, <2>3, SteadyCore
<1>7. EnabledKept(s, s)
  BY DEF EnabledKept, Steady
<1> QED
  BY <1>2, <1>3, <1>4, <1>5, <1>6, <1>7, EnabledKeptComposes DEF DispatchPlan

\* The close that asks for nothing more is a close.
LEMMA DefaultCloseType == DefaultClose \in ClosePlan
BY DEF DefaultClose, ClosePlan

\* Merged closes are a close.
LEMMA MergeCloseType ==
  ASSUME NEW s \in State, NEW close \in ClosePlan
  PROVE  MergeClose(s.closePlan, close) \in ClosePlan
BY FieldTypes DEF MergeClose, ClosePlan

\* What a close adds to the plan behind a closed gate preserves the core.
LEMMA AddDependentsCore ==
  ASSUME NEW s, Core(s), NEW close \in ClosePlan, s.admission = "Closed"
  PROVE  Core(AddDependents(s, close)) /\ EnabledKept(s, AddDependents(s, close))
<1> DEFINE known == [candidate |-> s.plan.candidate \/ s.ownership.candidate = "Active",
                     paste     |-> s.plan.paste \/ s.pastePhase.kind = "Waiting",
                     config    |-> IF close.release THEN None
                                   ELSE IF close.config # None THEN close.config
                                   ELSE s.plan.config,
                     persist   |-> s.plan.persist \/ close.persist,
                     drain     |-> s.plan.drain \/ ~NativeNeutral(s.ownership)]
           doubted == [s.plan EXCEPT
                         !.config = IF close.release THEN None ELSE @,
                         !.drain  = @ \/ (~s.poisoned /\ ~NativeNeutral(s.ownership))]
<1>1. s \in State /\ s.plan \in DependentPlan
  BY FieldTypes DEF Core
<1>2. known \in DependentPlan /\ doubted \in DependentPlan
  BY <1>1 DEF DependentPlan, ClosePlan
<1>3. \/ AddDependents(s, close) = [s EXCEPT !.plan = known]
      \/ AddDependents(s, close) = [s EXCEPT !.plan = doubted]
  <2>1. CASE ~s.unknown
    BY <1>1, <2>1 DEF AddDependents, State
  <2>2. CASE s.unknown
    BY <1>1, <2>2 DEF AddDependents, State
  <2> QED
    BY <2>1, <2>2
<1> HIDE DEF known, doubted
<1>4. ASSUME NEW plan \in DependentPlan
      PROVE  Core([s EXCEPT !.plan = plan]) /\ EnabledKept(s, [s EXCEPT !.plan = plan])
  <2> DEFINE t == [s EXCEPT !.plan = plan]
  <2>1. t \in State
    BY <1>1, WorkUpdates
  <2>2. /\ t.admission = "Closed" /\ Steady(s, t)
        /\ t.pending = s.pending /\ t.maintenance = s.maintenance
        /\ t.requested = s.requested /\ t.highWater = s.highWater
    BY <1>1 DEF State, Steady
  <2> HIDE DEF t
  <2>3. GateHoldsConfiguration(t) /\ StopsOnce(t) /\ PersistsTransaction(t)
    BY <2>2 DEF Core, Steady, GateHoldsConfiguration, StopsOnce, PersistsTransaction
  <2>4. SealExcludesCapture(t) /\ RollbackExcludesCapture(t) /\ ReconciledForLease(t)
    BY <2>2 DEF Core, Steady, SealExcludesCapture, RollbackExcludesCapture, ReconciledForLease,
                IsCapture
  <2> QED
    BY <2>1, <2>2, <2>3, <2>4 DEF Core, EnabledKept, t
<1> QED
  BY <1>2, <1>3, <1>4

\* The close through the native barrier, of a lease no longer enabled.
LEMMA CloseBarrierCore ==
  ASSUME NEW s, Core(s), NEW close \in ClosePlan, NotEnabled(s)
  PROVE  Core(CloseBarrier(s, close)) /\ NotEnabled(CloseBarrier(s, close))
<1> DEFINE plan   == MergeClose(s.closePlan, close)
           held   == [s EXCEPT !.closePlan = plan]
           merged == Supersede(held, {"Open"})
<1>1. s \in State /\ plan \in ClosePlan
  BY MergeCloseType DEF Core
<1>2. merged = Supersede([s EXCEPT !.closePlan = MergeClose(@, close)], {"Open"})
  BY <1>1 DEF State
<1> HIDE DEF plan
<1>3. held \in State
  BY <1>1, WorkUpdates
<1>4. Retreats(s, held) /\ EnabledKept(s, held)
  BY <1>1 DEF State, Retreats, WorkRetreats, LeaseKept, EnabledKept, Steady, IsCapture
<1> HIDE DEF held
<1>5. merged \in State /\ Retreats(s, merged)
  BY <1>3, <1>4, SupersedeType, PendingRetreats, RetreatsCompose
<1>6. Core(merged) /\ NotEnabled(merged)
  BY <1>5, RetreatsCore DEF Retreats, LeaseKept, NotEnabled
<1> HIDE DEF merged
<1>7. "Close" \in ActionKinds \ {"StopNative"}
  BY DEF ActionKinds
<1>8. /\ Core(Issue(merged, "Close", None, None)) /\ NotEnabled(Issue(merged, "Close", None, None))
      /\ Core(AllocationError(merged)) /\ NotEnabled(AllocationError(merged))
  BY <1>6, <1>7, IssueCore, ActionTypes, EnabledKeptComposes, AllocationErrorCore
<1>9. ASSUME NEW t, Core(t), NotEnabled(t), NEW gate \in {"Closing", "Unknown"}
      PROVE  Core([t EXCEPT !.admission = gate]) /\ NotEnabled([t EXCEPT !.admission = gate])
  <2>1. t \in State
    BY <1>9 DEF Core
  <2>2. [t EXCEPT !.admission = gate] \in State
    BY <2>1, WorkUpdates
  <2>3. Retreats(t, [t EXCEPT !.admission = gate])
    BY <2>1 DEF State, Retreats, WorkRetreats, LeaseKept, EnabledKept, Steady, IsCapture
  <2> QED
    BY <1>9, <2>2, <2>3, RetreatsCore DEF Retreats, LeaseKept, NotEnabled
<1> QED
  BY <1>2, <1>6, <1>8, <1>9 DEF CloseBarrier

\* issue_next_dependent, its fault included.
LEMMA IssueNextDependentCore ==
  ASSUME NEW s, Core(s)
  PROVE  Core(IssueNextDependent(s)) /\ EnabledKept(s, IssueNextDependent(s))
<1> DEFINE dispatched == DispatchPlan(s)
           faulted    == Degrade(dispatched)
<1>1. Core(dispatched) /\ EnabledKept(s, dispatched)
  BY DispatchPlanCore
<1> HIDE DEF dispatched
<1>2. Core(faulted) /\ NotEnabled(faulted)
  BY <1>1, DegradeType, DegradeRetreats, RetreatsCore DEF Core, Retreats
<1> HIDE DEF faulted
<1>3. ASSUME faulted.admission = "Closed"
      PROVE  LET t == DispatchPlan(AddDependents(faulted, DefaultClose))
             IN  Core(t) /\ NotEnabled(t)
  BY <1>2, <1>3, AddDependentsCore, DefaultCloseType, DispatchPlanCore, EnabledKeptComposes
<1>4. Core(CloseBarrier(faulted, DefaultClose)) /\ NotEnabled(CloseBarrier(faulted, DefaultClose))
  BY <1>2, CloseBarrierCore, DefaultCloseType
<1> QED
  BY <1>1, <1>3, <1>4 DEF IssueNextDependent, dispatched, faulted, EnabledKept

\* request_close and the fault of a contradicted confirmation end the
\* enablement of the lease.
LEMMA RequestCloseCore ==
  ASSUME NEW s, Core(s), NEW close \in ClosePlan
  PROVE  /\ s.admission = "Closed" /\ NotEnabled(s) =>
              Core(AfterAdmissionClosed(s, close)) /\ NotEnabled(AfterAdmissionClosed(s, close))
         /\ Core(RequestClose(s, close)) /\ NotEnabled(RequestClose(s, close))
<1>1. ASSUME NEW t, Core(t), NotEnabled(t), t.admission = "Closed"
      PROVE  Core(AfterAdmissionClosed(t, close)) /\ NotEnabled(AfterAdmissionClosed(t, close))
  <2> DEFINE added  == AddDependents(t, close)
             issued == IssueNextDependent(added)
  <2>1. Core(added) /\ NotEnabled(added)
    BY <1>1, AddDependentsCore, EnabledKeptComposes
  <2> HIDE DEF added
  <2>2. Core(issued) /\ NotEnabled(issued)
    BY <2>1, IssueNextDependentCore, EnabledKeptComposes
  <2> HIDE DEF issued
  <2>3. Core(MaybeBeginDegradedExit(issued)) /\ NotEnabled(MaybeBeginDegradedExit(issued))
    BY <2>2, MaybeBeginDegradedExitCore, EnabledKeptComposes
  <2> QED
    BY <2>3 DEF AfterAdmissionClosed, issued, added
<1>2. Core(DemoteCapture(s)) /\ NotEnabled(DemoteCapture(s))
  BY DemoteType, DegradeRetreats, RetreatsCore DEF Core, Retreats
<1> QED
  BY <1>1, <1>2, CloseBarrierCore DEF RequestClose

\* The fault of a contradicted confirmation degrades, and closes the gate.
LEMMA NativeConfirmationFaultCore ==
  ASSUME NEW s, Core(s)
  PROVE  /\ Core(Degrade(s)) /\ NotEnabled(Degrade(s))
         /\ Core(NativeConfirmationFault(s)) /\ NotEnabled(NativeConfirmationFault(s))
<1>1. Core(Degrade(s)) /\ NotEnabled(Degrade(s))
  BY DegradeType, DegradeRetreats, RetreatsCore DEF Core, Retreats
<1> QED
  BY <1>1, RequestCloseCore, DefaultCloseType DEF NativeConfirmationFault

-----------------------------------------------------------------------------
(* Retiring a controller                                                   *)

\* Offers and snapshots touch the predecessor alone.
LEMMA SnapshotPredecessorRetreats ==
  ASSUME NEW s \in State
  PROVE  /\ \A event \in TerminalEvents : Offer(s, event) \in State /\ Retreats(s, Offer(s, event))
         /\ SnapshotPredecessor(s) \in State /\ Retreats(s, SnapshotPredecessor(s))
         /\ SnapshotPredecessor(s).controller = s.controller
<1>1. ASSUME NEW t \in State, NEW pr \in Predecessor \cup {None}
      PROVE  /\ [t EXCEPT !.predecessor = pr] \in State
             /\ Retreats(t, [t EXCEPT !.predecessor = pr])
             /\ [t EXCEPT !.predecessor = pr].controller = t.controller
  <2>1. [t EXCEPT !.predecessor = pr] \in State
    BY AuthorityUpdates
  <2>2. /\ Retreats(t, [t EXCEPT !.predecessor = pr])
        /\ [t EXCEPT !.predecessor = pr].controller = t.controller
    BY DEF State, Retreats, WorkRetreats, LeaseKept, IsCapture
  <2> QED
    BY <2>1, <2>2
<1>2. ASSUME NEW t \in State
      PROVE  Retreats(t, t)
  BY DEF Retreats, WorkRetreats, LeaseKept
<1>3. ASSUME NEW t \in State, NEW event \in TerminalEvents
      PROVE  /\ Offer(t, event) \in State /\ Retreats(t, Offer(t, event))
             /\ Offer(t, event).controller = t.controller
  <2> DEFINE pr == [t.predecessor EXCEPT !.revoked  = TRUE,
                                         !.final    = event \in {"Neutral", "Unavailable"},
                                         !.inFlight = event]
  <2>1. CASE CanOffer(t, event)
    <3>1. t.predecessor \in Predecessor
      BY <2>1, FieldTypes DEF CanOffer
    <3>2. pr \in Predecessor
      <4>1. ASSUME NEW q \in Predecessor, NEW b \in BOOLEAN
            PROVE  [q EXCEPT !.revoked = TRUE, !.final = b, !.inFlight = event] \in Predecessor
        BY DEF Predecessor
      <4>2. (event \in {"Neutral", "Unavailable"}) \in BOOLEAN
        OBVIOUS
      <4> QED
        BY <3>1, <4>1, <4>2
    <3>3. Offer(t, event) = [t EXCEPT !.predecessor = pr]
      BY <2>1 DEF Offer, State
    <3> HIDE DEF pr
    <3> QED
      BY <1>1, <3>2, <3>3
  <2>2. CASE ~CanOffer(t, event)
    BY <1>2, <2>2 DEF Offer
  <2> QED
    BY <2>1, <2>2
<1>4. /\ SnapshotPredecessor(s) \in State /\ Retreats(s, SnapshotPredecessor(s))
      /\ SnapshotPredecessor(s).controller = s.controller
  <2> DEFINE pr   == [conn |-> s.controller.conn, epoch |-> s.controller.epoch,
                      revoked |-> FALSE, final |-> FALSE, inFlight |-> "None"]
             held == IF s.predecessor = None /\ IsCapture(s)
                     THEN [s EXCEPT !.predecessor = pr] ELSE s
  <2>1. ASSUME IsCapture(s) PROVE pr \in Predecessor
    BY <2>1, FieldTypes DEF IsCapture, CaptureKinds, Controller, Predecessor
  <2>2. SnapshotPredecessor(s) = Offer(held, "Revoked")
    BY DEF SnapshotPredecessor
  <2> HIDE DEF pr
  <2>3. held \in State /\ Retreats(s, held) /\ held.controller = s.controller
    BY <1>1, <1>2, <2>1
  <2> HIDE DEF held
  <2>4. "Revoked" \in TerminalEvents
    BY DEF TerminalEvents
  <2> QED
    BY <1>3, <2>2, <2>3, <2>4, RetreatsCompose
<1> QED
  BY <1>3, <1>4

\* The maintenance and exit phases that outlive their connection.
LEMMA SealWithoutRequesterRetreats ==
  ASSUME NEW s \in State
  PROVE  /\ SealWithoutRequester(s) \in State
         /\ Retreats(s, SealWithoutRequester(s))
         /\ SealWithoutRequester(s).controller = s.controller
<1> DEFINE ex == CASE s.exit = "StopPrepare" -> "StopAbandoned"
                   [] s.exit \in {"ResponseReady", "Flushing"} -> "StoppedSealed"
                   [] OTHER -> s.exit
           ma == [s.maintenance EXCEPT
                    !.requester = IF s.maintenance.phase \in {"Sealing", "Persisting"}
                                  THEN None ELSE @,
                    !.phase     = IF @ = "Exclusive" THEN "Sealed" ELSE @]
           u  == [s EXCEPT !.exit = ex]
           t  == [u EXCEPT !.maintenance = ma]
<1>1. ex \in ExitStates /\ (ex = "Running" <=> s.exit = "Running")
  BY FieldTypes DEF ExitStates, StopPurposes
<1>2. ma \in Maintenance /\ (ma.phase = "None" <=> s.maintenance.phase = "None")
  <2>1. s.maintenance \in Maintenance
    BY FieldTypes
  <2>2. ASSUME NEW m \in Maintenance
        PROVE  /\ [m EXCEPT !.requester = None] \in Maintenance
               /\ [m EXCEPT !.requester = None].phase = m.phase
               /\ m.phase = "Exclusive" => [m EXCEPT !.phase = "Sealed"] \in Maintenance
               /\ [m EXCEPT !.phase = "Sealed"].phase = "Sealed"
    BY DEF Maintenance, MaintenancePhases
  <2>3. CASE s.maintenance.phase \in {"Sealing", "Persisting"}
    <3>1. ma = [s.maintenance EXCEPT !.requester = None]
      BY <2>1, <2>3 DEF Maintenance
    <3> QED
      BY <2>1, <2>2, <3>1
  <2>4. CASE s.maintenance.phase = "Exclusive"
    <3>1. ma = [s.maintenance EXCEPT !.phase = "Sealed"]
      BY <2>1, <2>4 DEF Maintenance
    <3> QED
      BY <2>1, <2>2, <2>4, <3>1
  <2>5. CASE s.maintenance.phase \notin {"Sealing", "Persisting", "Exclusive"}
    <3>1. ma = s.maintenance
      BY <2>1, <2>5 DEF Maintenance
    <3> QED
      BY <2>1, <3>1
  <2> QED
    BY <2>3, <2>4, <2>5
<1>3. SealWithoutRequester(s) = t
  <2>1. ma = [s.maintenance EXCEPT
                !.requester = IF s.maintenance.phase \in {"Sealing", "Persisting"}
                              THEN None ELSE s.maintenance.requester,
                !.phase     = IF s.maintenance.phase = "Exclusive"
                              THEN "Sealed" ELSE s.maintenance.phase]
    OBVIOUS
  <2>2. ASSUME NEW x, NEW r, NEW ph
        PROVE  [s EXCEPT !.exit = x, !.maintenance.requester = r, !.maintenance.phase = ph]
                 = [[s EXCEPT !.exit = x]
                      EXCEPT !.maintenance = [s.maintenance EXCEPT !.requester = r, !.phase = ph]]
    BY DEF State
  <2>3. t = [s EXCEPT !.exit = ex,
                      !.maintenance.requester = ma.requester, !.maintenance.phase = ma.phase]
    <3>1. ASSUME NEW m \in Maintenance, NEW r, NEW ph
          PROVE  /\ [m EXCEPT !.requester = r, !.phase = ph].requester = r
                 /\ [m EXCEPT !.requester = r, !.phase = ph].phase = ph
      BY DEF Maintenance
    <3>2. ma = [s.maintenance EXCEPT !.requester = ma.requester, !.phase = ma.phase]
      BY <2>1, <3>1, FieldTypes
    <3> HIDE DEF ma, ex
    <3> QED
      BY <2>2, <3>2
  <2>4. /\ ma.requester = IF s.maintenance.phase \in {"Sealing", "Persisting"}
                          THEN None ELSE s.maintenance.requester
        /\ ma.phase = IF s.maintenance.phase = "Exclusive" THEN "Sealed" ELSE s.maintenance.phase
    BY FieldTypes DEF Maintenance
  <2> QED
    BY <2>3, <2>4, Zenon DEF SealWithoutRequester, ex
<1> HIDE DEF ex, ma
<1>4. u \in State
  BY <1>1, LifeUpdates
<1>5. Retreats(s, t) /\ t.controller = s.controller
  BY <1>1, <1>2 DEF State, Retreats, WorkRetreats, LeaseKept, IsCapture
<1> HIDE DEF u
<1>6. t \in State
  BY <1>2, <1>4, LifeUpdates
<1> QED
  BY <1>3, <1>5, <1>6

\* Losing the reconciled configuration preserves the core.
LEMMA InvalidateReconciliationCore ==
  ASSUME NEW s, Core(s)
  PROVE  Core(InvalidateReconciliation(s))
<1> DEFINE t == InvalidateReconciliation(s)
<1>1. s \in State
  BY DEF Core
<1>2. t \in State
  BY <1>1, DemoteType
<1>3. /\ WorkRetreats(s, t) /\ t.requested = None /\ t.applied = None
      /\ t.controller = s.controller /\ t.maintenance = s.maintenance /\ t.rollback = s.rollback
  BY <1>1 DEF InvalidateReconciliation, WorkRetreats, State
<1> HIDE DEF t
<1>4. {"Configuration", "StopNative", "Persist"} \subseteq ActionKinds
  BY DEF ActionKinds, DependentKinds, SemanticKinds
<1>5. GateHoldsConfiguration(t) /\ StopsOnce(t) /\ PersistsTransaction(t)
  BY <1>3, <1>4 DEF Core, WorkRetreats, GateHoldsConfiguration, StopsOnce, PersistsTransaction
<1>6. SealExcludesCapture(t) /\ RollbackExcludesCapture(t) /\ ReconciledForLease(t)
  BY <1>3 DEF Core, SealExcludesCapture, RollbackExcludesCapture, ReconciledForLease, IsCapture
<1>7. Core(t)
  BY <1>2, <1>5, <1>6 DEF Core
<1> QED
  BY <1>7 DEF t

\* Taking the controller away, with what it had configured.
LEMMA RevokeCore ==
  ASSUME NEW s, Core(s)
  PROVE  LET t == InvalidateReconciliation([s EXCEPT !.controller = NoController])
         IN  Core(t) /\ ~IsCapture(t)
<1> DEFINE u == [s EXCEPT !.controller = NoController]
           t == InvalidateReconciliation(u)
<1>1. s \in State /\ NoController \in Controller
  BY DEF Core, NoController, Controller, ControllerKinds
<1>2. u \in State
  BY <1>1, AuthorityUpdates
<1>3. /\ u.admission = s.admission /\ u.plan = s.plan /\ u.pending = s.pending
      /\ u.exit = s.exit /\ u.maintenance = s.maintenance /\ ~IsCapture(u)
  BY <1>1 DEF State, IsCapture, CaptureKinds, NoController
<1> HIDE DEF u
<1>4. t \in State
  BY <1>2, DemoteType
<1>5. WorkRetreats(s, t) /\ LeaseGone(t)
  BY <1>2, <1>3 DEF InvalidateReconciliation, WorkRetreats, LeaseGone, IsCapture, State
<1> HIDE DEF t
<1>6. Core(t) /\ ~IsCapture(t)
  BY <1>4, <1>5, RetreatsCore DEF LeaseGone
<1> QED
  BY <1>6 DEF t, u

\* lose_active_controller leaves nobody enabled.
LEMMA LoseActiveControllerCore ==
  ASSUME NEW s, Core(s)
  PROVE  Core(LoseActiveController(s)) /\ NotEnabled(LoseActiveController(s))
<1>1. s \in State
  BY DEF Core
<1>2. CASE IsCapture(s)
  <2> DEFINE shot   == SnapshotPredecessor(s)
             sealed == SealWithoutRequester(shot)
             gone   == InvalidateReconciliation([sealed EXCEPT !.controller = NoController])
             idle   == CancelUnclaimedPaste(gone)
  <2>1. shot \in State /\ Retreats(s, shot)
    BY <1>1, SnapshotPredecessorRetreats
  <2> HIDE DEF shot
  <2>2. sealed \in State /\ Retreats(s, sealed)
    BY <2>1, SealWithoutRequesterRetreats, RetreatsCompose
  <2> HIDE DEF sealed
  <2>3. Core(sealed)
    BY <2>2, RetreatsCore DEF Retreats
  <2>4. Core(gone)
    BY <2>3, RevokeCore
  <2> HIDE DEF gone
  <2>5. Core(idle)
    BY <2>4, CancelUnclaimedPasteType, DegradeRetreats, RetreatsCore DEF Core, Retreats
  <2> HIDE DEF idle
  <2>6. Core(RequestClose(idle, DefaultClose)) /\ NotEnabled(RequestClose(idle, DefaultClose))
    BY <2>5, RequestCloseCore, DefaultCloseType
  <2> QED
    BY <1>2, <2>6 DEF LoseActiveController, idle, gone, sealed, shot
<1>3. CASE ~IsCapture(s)
  <2> DEFINE sealed == SealWithoutRequester(s)
             t      == [sealed EXCEPT !.controller = NoController]
  <2>1. sealed \in State /\ Retreats(s, sealed)
    BY <1>1, SealWithoutRequesterRetreats
  <2>2. NoController \in Controller
    BY DEF NoController, Controller, ControllerKinds
  <2>3. s.requested = None /\ s.applied = None
    BY <1>3 DEF Core, ReconciledForLease
  <2> HIDE DEF sealed
  <2>4. t \in State
    BY <2>1, <2>2, AuthorityUpdates
  <2>5. WorkRetreats(s, t) /\ LeaseGone(t) /\ NotEnabled(t)
    BY <2>1, <2>3 DEF WorkRetreats, LeaseGone, Retreats, LeaseKept, IsCapture, CaptureKinds,
                      NoController, NotEnabled, State
  <2> QED
    BY <1>3, <2>4, <2>5, RetreatsCore DEF LoseActiveController, t, sealed
<1> QED
  BY <1>2, <1>3

\* apply_priority_rollback: between its steps rollback is latched and the
\* lease still there, so the core is followed from end to end.
LEMMA PriorityRollbackCore ==
  ASSUME NEW s, Core(s)
  PROVE  Core(PriorityRollback(s)) /\ NotEnabled(PriorityRollback(s))
<1> DEFINE up      == [s EXCEPT !.rollback = TRUE]
           shot    == SnapshotPredecessor(up)
           bare    == InvalidateReconciliation(shot)
           pl      == [bare.plan EXCEPT !.config = None]
           revoked == [[bare EXCEPT !.controller = NoController] EXCEPT !.plan = pl]
           past    == Supersede(revoked, SemanticKinds)
           idle    == CancelUnclaimedPaste(past)
<1>1. s \in State /\ NoController \in Controller
  BY DEF Core, NoController, Controller, ControllerKinds
<1>2. up \in State /\ WorkRetreats(s, up)
  <2>1. up \in State
    BY <1>1, LifeUpdates
  <2>2. WorkRetreats(s, up)
    BY <1>1 DEF WorkRetreats, State
  <2> QED
    BY <2>1, <2>2
<1> HIDE DEF up
<1>3. shot \in State /\ WorkRetreats(s, shot)
  BY <1>2, SnapshotPredecessorRetreats DEF Retreats, WorkRetreats
<1> HIDE DEF shot
<1>4. bare \in State /\ WorkRetreats(s, bare) /\ bare.requested = None /\ bare.applied = None
  <2>1. bare \in State
    BY <1>3, DemoteType
  <2>2. WorkRetreats(s, bare) /\ bare.requested = None /\ bare.applied = None
    BY <1>3 DEF InvalidateReconciliation, WorkRetreats, State
  <2> QED
    BY <2>1, <2>2
<1>5. revoked = [InvalidateReconciliation(shot) EXCEPT !.controller  = NoController,
                                                       !.plan.config = None]
  BY <1>4 DEF State
<1> HIDE DEF bare
<1>6. pl \in DependentPlan /\ pl.config = None
  BY <1>4, FieldTypes DEF DependentPlan
<1> HIDE DEF pl
<1>7. revoked \in State /\ WorkRetreats(s, revoked) /\ LeaseGone(revoked)
  <2>1. revoked \in State
    BY <1>1, <1>4, <1>6, AuthorityUpdates, WorkUpdates
  <2>2. WorkRetreats(s, revoked) /\ LeaseGone(revoked)
    BY <1>4, <1>6 DEF WorkRetreats, LeaseGone, IsCapture, CaptureKinds, NoController, State
  <2> QED
    BY <2>1, <2>2
<1> HIDE DEF revoked
<1>8. Core(revoked)
  BY <1>7, RetreatsCore
<1>9. past \in State /\ Core(past)
  BY <1>7, <1>8, SupersedeType, PendingRetreats, RetreatsCore DEF Retreats
<1> HIDE DEF past
<1>10. Core(idle)
  BY <1>9, CancelUnclaimedPasteType, DegradeRetreats, RetreatsCore DEF Retreats
<1> HIDE DEF idle
<1>11. Core(RequestClose(idle, DefaultClose)) /\ NotEnabled(RequestClose(idle, DefaultClose))
  BY <1>10, RequestCloseCore, DefaultCloseType
<1> QED
  BY <1>5, <1>11 DEF PriorityRollback, idle, past, bare, shot, up

-----------------------------------------------------------------------------
(* The actions                                                             *)

\* What every action shows of the state it leaves.
Kept(t) == Core(t) /\ EnabledKept(owner, t)

\* A state that keeps the core, and the enablement or ends it, satisfies the
\* invariant.
LEMMA KeptInvariant ==
  ASSUME InductiveInvariant, NEW t
  PROVE  /\ Kept(t) => Core(t) /\ EnabledStays(t)
         /\ Core(t) /\ NotEnabled(t) => Kept(t)
         /\ owner \in State /\ Core(owner) /\ Kept(owner)
<1>1. Core(owner) /\ EnabledStays(owner) /\ owner \in State
  BY DEF InductiveInvariant, Core
<1>2. EnabledKept(owner, owner)
  BY DEF EnabledKept, Steady
<1> QED
  BY <1>1, <1>2, EnabledKeptComposes DEF Kept, EnabledKept

\* The steps between two states of one action.
LEMMA KeptSteps ==
  ASSUME NEW t, Kept(t)
  PROVE  /\ t \in State
         /\ \A u : u \in State /\ Retreats(t, u) /\ EnabledKept(t, u) => Kept(u)
         /\ Kept(IssueNextDependent(t))
         /\ Kept(MaybeBeginDegradedExit(t))
         /\ \A slot \in Slots : Kept(Take(t, slot))
         /\ \A close \in ClosePlan : Kept(RequestClose(t, close))
         /\ Kept(NativeConfirmationFault(t))
         /\ Kept(CancelUnclaimedPaste(t))
<1>1. Core(t) /\ t \in State /\ EnabledKept(owner, t)
  BY DEF Kept, Core
<1>2. ASSUME NEW u, Core(u), EnabledKept(t, u) PROVE Kept(u)
  BY <1>1, <1>2, EnabledKeptComposes DEF Kept
<1>3. ASSUME NEW u, u \in State, Retreats(t, u), EnabledKept(t, u) PROVE Kept(u)
  BY <1>1, <1>2, <1>3, SteadyCore
<1>4. Kept(IssueNextDependent(t)) /\ Kept(MaybeBeginDegradedExit(t))
  BY <1>1, <1>2, IssueNextDependentCore, MaybeBeginDegradedExitCore
<1>5. ASSUME NEW slot \in Slots PROVE Kept(Take(t, slot))
  <2>1. Take(t, slot) \in State /\ Retreats(t, Take(t, slot))
    BY <1>1, TakeType, PendingRetreats
  <2>2. EnabledKept(t, Take(t, slot))
    BY <1>1 DEF Take, EnabledKept, Steady, State
  <2> QED
    BY <1>3, <2>1, <2>2
<1>6. /\ \A close \in ClosePlan : Kept(RequestClose(t, close))
      /\ Kept(NativeConfirmationFault(t))
  BY <1>1, <1>2, RequestCloseCore, NativeConfirmationFaultCore DEF EnabledKept
<1>7. Kept(CancelUnclaimedPaste(t))
  <2>1. CancelUnclaimedPaste(t) \in State /\ Retreats(t, CancelUnclaimedPaste(t))
    BY <1>1, CancelUnclaimedPasteType, DegradeRetreats
  <2>2. EnabledKept(t, CancelUnclaimedPaste(t))
    BY <1>1 DEF CancelUnclaimedPaste, Supersede, EnabledKept, Steady, State
  <2> QED
    BY <1>3, <2>1, <2>2
<1> QED
  BY <1>1, <1>3, <1>4, <1>5, <1>6, <1>7

\* Fields that neither the core nor an enablement depends on.
LEMMA InertUpdates ==
  ASSUME NEW t, Kept(t)
  PROVE  /\ \A x \in SessionModes \cup {"Off", None} : Kept([t EXCEPT !.mode = x])
         /\ \A x \in PastePhase : Kept([t EXCEPT !.pastePhase = x])
         /\ \A x \in Ownership : Kept([t EXCEPT !.ownership = x])
         /\ \A x \in BOOLEAN : Kept([t EXCEPT !.emergency = x])
         /\ \A x \in ClosePlan \cup {None} : Kept([t EXCEPT !.closePlan = x])
         /\ \A x \in BOOLEAN : Kept([t EXCEPT !.idsLeft = x])
<1>1. t \in State
  BY DEF Kept, Core
<1>2. \A u : u \in State /\ Retreats(t, u) /\ EnabledKept(t, u) => Kept(u)
  BY KeptSteps
<1>3. \A x \in SessionModes \cup {"Off", None} :
        Retreats(t, [t EXCEPT !.mode = x]) /\ EnabledKept(t, [t EXCEPT !.mode = x])
  BY <1>1 DEF Retreats, WorkRetreats, LeaseKept, IsCapture, EnabledKept, Steady, State
<1>4. \A x \in PastePhase :
        Retreats(t, [t EXCEPT !.pastePhase = x]) /\ EnabledKept(t, [t EXCEPT !.pastePhase = x])
  BY <1>1 DEF Retreats, WorkRetreats, LeaseKept, IsCapture, EnabledKept, Steady, State
<1>5. \A x \in Ownership :
        Retreats(t, [t EXCEPT !.ownership = x]) /\ EnabledKept(t, [t EXCEPT !.ownership = x])
  BY <1>1 DEF Retreats, WorkRetreats, LeaseKept, IsCapture, EnabledKept, Steady, State
<1>6. \A x \in BOOLEAN :
        Retreats(t, [t EXCEPT !.emergency = x]) /\ EnabledKept(t, [t EXCEPT !.emergency = x])
  BY <1>1 DEF Retreats, WorkRetreats, LeaseKept, IsCapture, EnabledKept, Steady, State
<1>7. \A x \in ClosePlan \cup {None} :
        Retreats(t, [t EXCEPT !.closePlan = x]) /\ EnabledKept(t, [t EXCEPT !.closePlan = x])
  BY <1>1 DEF Retreats, WorkRetreats, LeaseKept, IsCapture, EnabledKept, Steady, State
<1>8. \A x \in BOOLEAN :
        Retreats(t, [t EXCEPT !.idsLeft = x]) /\ EnabledKept(t, [t EXCEPT !.idsLeft = x])
  BY <1>1 DEF Retreats, WorkRetreats, LeaseKept, IsCapture, EnabledKept, Steady, State
<1>9. /\ \A x \in SessionModes \cup {"Off", None} : [t EXCEPT !.mode = x] \in State
      /\ \A x \in PastePhase : [t EXCEPT !.pastePhase = x] \in State
      /\ \A x \in Ownership : [t EXCEPT !.ownership = x] \in State
  BY <1>1, AuthorityUpdates, NativeUpdates
<1>10. /\ \A x \in BOOLEAN : [t EXCEPT !.emergency = x] \in State
       /\ \A x \in ClosePlan \cup {None} : [t EXCEPT !.closePlan = x] \in State
       /\ \A x \in BOOLEAN : [t EXCEPT !.idsLeft = x] \in State
  BY <1>1, WorkUpdates, LifeUpdates
<1> QED
  BY <1>2, <1>3, <1>4, <1>5, <1>6, <1>7, <1>8, <1>9, <1>10

-----------------------------------------------------------------------------
(* Startup and readiness                                                   *)

\* Startup, and the readiness of the native side: a prerequisite that is lost
\* takes the enablement with it.
LEMMA StartupStep ==
  ASSUME InductiveInvariant, Startup
  PROVE  InductiveInvariant'
<1>1. owner \in State /\ Core(owner) /\ EnabledStays(owner) /\ Kept(owner)
  BY KeptInvariant DEF InductiveInvariant
<1>2. CASE ConfirmStartupSnapshotSeeded
  <2> DEFINE t == [owner EXCEPT !.seeded = TRUE]
  <2>1. t \in State
    BY <1>1, LifeUpdates
  <2>2. Retreats(owner, t) /\ EnabledKept(owner, t)
    BY <1>1 DEF Retreats, WorkRetreats, LeaseKept, IsCapture, EnabledKept, Steady, State
  <2>3. owner' = t
    BY <1>2 DEF ConfirmStartupSnapshotSeeded
  <2> HIDE DEF t
  <2> QED
    BY <1>1, <2>1, <2>2, <2>3, KeptSteps, KeptInvariant DEF InductiveInvariant
<1>3. CASE StartupCompleted
  <2> DEFINE t == [owner EXCEPT !.health = "Healthy"]
  <2>1. t \in State
    BY <1>1, LifeUpdates
  <2>2. Retreats(owner, t)
    BY <1>1 DEF Retreats, WorkRetreats, LeaseKept, IsCapture, State
  <2>3. NotEnabled(t)
    BY <1>1, <1>3 DEF StartupCompleted, EnabledStays, NotEnabled, State
  <2>4. owner' = t
    BY <1>3 DEF StartupCompleted
  <2> HIDE DEF t
  <2> QED
    BY <1>1, <2>1, <2>2, <2>3, <2>4, KeptSteps, KeptInvariant DEF InductiveInvariant, EnabledKept
<1>4. ASSUME NEW ready \in SUBSET Prerequisites, NEW pasteReady \in BOOLEAN,
             ObserveNativeReadiness(ready, pasteReady)
      PROVE  InductiveInvariant'
  <2> DEFINE keyboardLost == owner.ready \ ready # {}
             pasteLost    == owner.pasteReady /\ ~pasteReady
             u            == [owner EXCEPT !.ready = ready]
             seen         == [u EXCEPT !.pasteReady = pasteReady]
             invalidated  == IF keyboardLost THEN InvalidateReconciliation(seen) ELSE seen
             cancelled    == IF pasteLost THEN CancelUnclaimedPaste(invalidated) ELSE invalidated
  <2>1. owner' = IF keyboardLost /\ owner.admission # "Closed"
                 THEN RequestClose(cancelled, DefaultClose)
                 ELSE IssueNextDependent(cancelled)
    BY <1>4 DEF ObserveNativeReadiness
  <2>2. seen \in State
    <3>1. u \in State
      BY <1>1, NativeUpdates
    <3> HIDE DEF u
    <3> QED
      BY <3>1, NativeUpdates
  <2>3. /\ Retreats(owner, seen)
        /\ seen.controller = owner.controller /\ seen.ready = ready
        /\ (seen.ready = owner.ready => Steady(owner, seen))
    BY <1>1 DEF Retreats, WorkRetreats, LeaseKept, IsCapture, Steady, State
  <2> HIDE DEF seen
  <2>4. Core(seen)
    BY <1>1, <2>2, <2>3, RetreatsCore DEF Retreats
  <2>5. Core(invalidated) /\ invalidated.controller = owner.controller
    <3>1. InvalidateReconciliation(seen).controller = seen.controller
      BY <2>2 DEF InvalidateReconciliation, State
    <3> QED
      BY <2>3, <2>4, <3>1, InvalidateReconciliationCore
  <2>6. keyboardLost \/ EnabledKept(owner, invalidated)
    <3>1. CASE NotEnabled(owner)
      BY <2>5, <3>1 DEF EnabledKept, NotEnabled
    <3>2. CASE ~NotEnabled(owner)
      BY <1>1, <2>3, <3>2, FieldTypes DEF EnabledKept, EnabledStays, NotEnabled, KeyboardEligible
    <3> QED
      BY <3>1, <3>2
  <2>7. keyboardLost /\ owner.admission = "Closed" => EnabledKept(owner, invalidated)
    BY <1>1, <2>5 DEF EnabledStays, EnabledKept, NotEnabled
  <2> HIDE DEF invalidated
  <2>8. /\ Core(cancelled)
        /\ Core(RequestClose(cancelled, DefaultClose))
        /\ NotEnabled(RequestClose(cancelled, DefaultClose))
    <3>1. Core(CancelUnclaimedPaste(invalidated))
      BY <2>5, CancelUnclaimedPasteType, DegradeRetreats, RetreatsCore DEF Core, Retreats
    <3>2. Core(cancelled)
      BY <2>5, <3>1
    <3> HIDE DEF cancelled
    <3> QED
      BY <3>2, RequestCloseCore, DefaultCloseType
  <2>9. EnabledKept(owner, invalidated) => Kept(IssueNextDependent(cancelled))
    <3>1. EnabledKept(owner, invalidated) => Kept(invalidated)
      BY <2>5 DEF Kept
    <3>2. EnabledKept(owner, invalidated) => Kept(cancelled)
      BY <3>1, KeptSteps
    <3> HIDE DEF cancelled
    <3> QED
      BY <3>2, KeptSteps
  <2> HIDE DEF cancelled, keyboardLost
  <2> QED
    BY <2>1, <2>6, <2>7, <2>8, <2>9, KeptInvariant DEF InductiveInvariant
<1> QED
  BY <1>2, <1>3, <1>4 DEF Startup

-----------------------------------------------------------------------------
(* Capture authority                                                       *)

\* Granting a lease.
LEMMA GrantStep ==
  ASSUME InductiveInvariant, NEW conn \in Connections,
         AuthenticateObserver(conn) \/ AcquireCaptureLease(conn)
  PROVE  InductiveInvariant'
<1>1. owner \in State /\ Core(owner)
  BY KeptInvariant
<1>2. CASE AuthenticateObserver(conn)
  <2> DEFINE c == [kind |-> "Observer", conn |-> conn, epoch |-> 0]
             t == [owner EXCEPT !.controller = c]
  <2>1. c \in Controller
    BY DEF Controller, ControllerKinds
  <2>2. t \in State
    BY <1>1, <2>1, AuthorityUpdates
  <2>3. owner.requested = None /\ owner.applied = None
    BY <1>1, <1>2 DEF AuthenticateObserver, Core, ReconciledForLease, IsCapture, CaptureKinds
  <2>4. WorkRetreats(owner, t) /\ LeaseGone(t) /\ NotEnabled(t)
    BY <1>1, <2>3 DEF WorkRetreats, LeaseGone, IsCapture, CaptureKinds, NotEnabled, State
  <2>5. owner' = t
    BY <1>2 DEF AuthenticateObserver
  <2> HIDE DEF t
  <2> QED
    BY <1>1, <2>2, <2>4, <2>5, RetreatsCore, KeptInvariant DEF InductiveInvariant
<1>3. CASE AcquireCaptureLease(conn)
  <2> DEFINE bare == InvalidateReconciliation(owner)
             c    == [kind |-> "Disabled", conn |-> conn, epoch |-> owner.captureEpoch + 1]
             u    == [bare EXCEPT !.captureEpoch = bare.captureEpoch + 1]
             v    == [u EXCEPT !.controller = c]
             t    == [v EXCEPT !.highWater = 0]
  <2>1. Core(bare) /\ bare \in State
    BY <1>1, InvalidateReconciliationCore DEF Core
  <2>2. bare.requested = None /\ bare.applied = None
        /\ bare.maintenance.phase = "None" /\ ~bare.rollback
    BY <1>1, <1>3 DEF AcquireCaptureLease, InvalidateReconciliation, State
  <2>3. owner' = t
    BY <1>3 DEF AcquireCaptureLease
  <2> HIDE DEF bare
  <2>4. c \in Controller /\ c.kind = "Disabled"
    BY <1>1, FieldTypes DEF Controller, ControllerKinds, CaptureKinds
  <2> HIDE DEF c
  <2>5. /\ t.admission = bare.admission /\ t.plan = bare.plan /\ t.pending = bare.pending
        /\ t.exit = bare.exit /\ t.maintenance = bare.maintenance /\ t.rollback = bare.rollback
        /\ t.requested = bare.requested /\ t.applied = bare.applied /\ t.controller = c
    BY <2>1 DEF State
  <2>6. u \in State
    BY <2>1, FieldTypes, EpochUpdates
  <2> HIDE DEF u
  <2>7. t \in State
    BY <2>4, <2>6, AuthorityUpdates
  <2> HIDE DEF t
  <2>8. GateHoldsConfiguration(t) /\ StopsOnce(t) /\ PersistsTransaction(t)
    BY <2>1, <2>5 DEF Core, GateHoldsConfiguration, StopsOnce, PersistsTransaction
  <2>9. SealExcludesCapture(t) /\ RollbackExcludesCapture(t) /\ ReconciledForLease(t)
    BY <2>2, <2>5 DEF SealExcludesCapture, RollbackExcludesCapture, ReconciledForLease
  <2>10. NotEnabled(t)
    BY <2>4, <2>5 DEF NotEnabled
  <2> QED
    BY <2>3, <2>7, <2>8, <2>9, <2>10, KeptInvariant DEF InductiveInvariant, Core
<1> QED
  BY <1>2, <1>3

\* Commands that issue a token.
LEMMA IssueStep ==
  ASSUME InductiveInvariant,
         \/ \E mode \in SessionModes \cup {"Off"} : SetSessionMode(mode)
         \/ \E paste \in Pastes : BeginPaste(paste)
  PROVE  InductiveInvariant'
<1>1. Core(owner) /\ {"SessionMode", "AdmitPaste"} \subseteq ActionKinds \ {"StopNative"}
  BY KeptInvariant DEF ActionKinds, SemanticKinds
<1>2. ASSUME NEW mode \in SessionModes \cup {"Off"}, SetSessionMode(mode)
      PROVE  InductiveInvariant'
  <2> DEFINE issued == Issue(owner, "SessionMode", mode, None)
  <2>1. Kept(issued)
    BY <1>1, IssueCore, ActionTypes DEF Kept
  <2>2. owner' \in {issued, [issued EXCEPT !.mode = None]}
    BY <1>2 DEF SetSessionMode
  <2> HIDE DEF issued
  <2> QED
    BY <2>1, <2>2, InertUpdates, KeptInvariant DEF InductiveInvariant
<1>3. ASSUME NEW paste \in Pastes, BeginPaste(paste)
      PROVE  InductiveInvariant'
  <2> DEFINE issued == Issue(owner, "AdmitPaste", paste, None)
             phase  == [kind |-> "Admitting", auth |-> paste, cancel |-> FALSE]
  <2>1. Kept(issued)
    BY <1>1, IssueCore, ActionTypes DEF Kept
  <2>2. owner' \in {issued, [issued EXCEPT !.pastePhase = phase]}
    BY <1>3 DEF BeginPaste
  <2> HIDE DEF issued
  <2>3. phase \in PastePhase
    BY NoneAssumption DEF PastePhase, PasteOwnerships
  <2> HIDE DEF phase
  <2> QED
    BY <2>1, <2>2, <2>3, InertUpdates, KeptInvariant DEF InductiveInvariant
<1> QED
  BY <1>2, <1>3

\* A replacement of the configuration closes the gate.
LEMMA ReplaceConfigurationStep ==
  ASSUME InductiveInvariant, NEW revision \in Revisions, ReplaceConfiguration(revision)
  PROVE  InductiveInvariant'
<1> DEFINE request == [epoch |-> owner.controller.epoch, revision |-> revision]
           u == [owner EXCEPT !.highWater = revision]
           v == [u EXCEPT !.requested = request]
           t == [v EXCEPT !.applied = None]
           close == [DefaultClose EXCEPT !.config = request]
<1>1. owner \in State /\ Core(owner) /\ IsCapture(owner)
  BY KeptInvariant DEF ReplaceConfiguration, SemanticCommandAllowed, CommandAllowed
<1>2. request \in Configuration /\ revision \in Nat
  BY <1>1, FieldTypes, BoundsAssumption
     DEF Configuration, Controller, NoController
<1>3. close \in ClosePlan
  BY <1>2 DEF DefaultClose, ClosePlan
<1>4. owner' = RequestClose(t, close)
  BY DEF ReplaceConfiguration
<1> HIDE DEF close
<1>5. /\ t.admission = owner.admission /\ t.plan = owner.plan /\ t.pending = owner.pending
      /\ t.exit = owner.exit /\ t.maintenance = owner.maintenance
      /\ t.rollback = owner.rollback /\ t.controller = owner.controller
      /\ t.highWater = revision /\ t.requested = request /\ t.applied = None
  BY <1>1 DEF State
<1>6. ReconciledForLease(t)
  BY <1>1, <1>5 DEF ReconciledForLease, IsCapture
<1> HIDE DEF request
<1>7. t \in State
  <2>1. u \in State
    BY <1>1, <1>2, AuthorityUpdates
  <2> HIDE DEF u
  <2>2. v \in State
    BY <1>2, <2>1, AuthorityUpdates
  <2> HIDE DEF v
  <2> QED
    BY <2>2, AuthorityUpdates
<1> HIDE DEF t
<1>8. GateHoldsConfiguration(t) /\ StopsOnce(t) /\ PersistsTransaction(t)
  BY <1>1, <1>5 DEF Core, GateHoldsConfiguration, StopsOnce, PersistsTransaction
<1>9. SealExcludesCapture(t) /\ RollbackExcludesCapture(t)
  BY <1>1, <1>5 DEF Core, SealExcludesCapture, RollbackExcludesCapture, IsCapture
<1>10. Core(t)
  BY <1>6, <1>7, <1>8, <1>9 DEF Core
<1> QED
  BY <1>3, <1>4, <1>10, RequestCloseCore, KeptInvariant DEF InductiveInvariant

\* The gate begins to open with nothing planned and nothing under way.
LEMMA EnableStep ==
  ASSUME InductiveInvariant, Enable
  PROVE  InductiveInvariant'
<1> DEFINE issued == Issue(owner, "Open", None, None)
           t      == [issued EXCEPT !.admission = "Opening"]
<1>1. owner \in State /\ Core(owner) /\ "Open" \in ActionKinds \ {"StopNative"}
  BY KeptInvariant DEF ActionKinds, SemanticKinds
<1>2. /\ PendingEmpty(owner) /\ owner.plan = NoDependents /\ NotEnabled(owner)
      /\ owner' = IF Allocatable(owner) THEN t ELSE issued
  BY DEF Enable, SemanticCommandAllowed, CanOpenKeyboard, EnablePrerequisites, NotEnabled
<1>3. Kept(issued) /\ NotEnabled(issued)
  BY <1>1, <1>2, IssueCore, ActionTypes, EnabledKeptComposes DEF Kept
<1>4. CASE ~Allocatable(owner)
  BY <1>2, <1>3, <1>4, KeptInvariant DEF InductiveInvariant
<1>5. CASE Allocatable(owner)
  <2> DEFINE slot == CHOOSE i \in Slots : owner.pending[i] = None
             act  == [kind |-> "Open", arg |-> None, config |-> None, superseded |-> FALSE]
  <2>1. slot \in Slots /\ issued = [owner EXCEPT !.pending[slot] = act]
    BY <1>5 DEF Allocatable, Issue
  <2> HIDE DEF slot
  <2>2. issued.plan = NoDependents
        /\ \A i \in Slots : issued.pending[i] \in {None, act}
    BY <1>1, <1>2, <2>1 DEF PendingEmpty, State
  <2>3. issued \in State /\ Core(issued)
    BY <1>3 DEF Kept, Core
  <2>4. act.kind # "Configuration"
    OBVIOUS
  <2> HIDE DEF issued, act
  <2>5. /\ t.plan = issued.plan /\ t.pending = issued.pending
        /\ t.exit = issued.exit /\ t.maintenance = issued.maintenance
        /\ t.rollback = issued.rollback /\ t.controller = issued.controller
        /\ t.highWater = issued.highWater /\ t.requested = issued.requested
        /\ t.applied = issued.applied
    BY <2>3 DEF State
  <2>6. t \in State
    BY <2>3, WorkUpdates
  <2> HIDE DEF t
  <2>7. GateHoldsConfiguration(t)
    BY <2>2, <2>4, <2>5 DEF GateHoldsConfiguration, HasKind, NoDependents
  <2>8. StopsOnce(t) /\ PersistsTransaction(t)
    BY <2>3, <2>5 DEF Core, StopsOnce, PersistsTransaction
  <2>9. SealExcludesCapture(t) /\ RollbackExcludesCapture(t) /\ ReconciledForLease(t)
    BY <2>3, <2>5 DEF Core, SealExcludesCapture, RollbackExcludesCapture, ReconciledForLease,
                      IsCapture
  <2>10. NotEnabled(t) /\ Core(t)
    BY <1>3, <2>5, <2>6, <2>7, <2>8, <2>9 DEF NotEnabled, Core
  <2> QED
    BY <1>2, <1>5, <2>10, KeptInvariant DEF InductiveInvariant
<1> QED
  BY <1>4, <1>5

\* Releasing a lease.
LEMMA ReleaseStep ==
  ASSUME InductiveInvariant, Release
  PROVE  InductiveInvariant'
<1> DEFINE shot      == SnapshotPredecessor(owner)
           cancelled == CancelUnclaimedPaste(shot)
           released  == InvalidateReconciliation([cancelled EXCEPT !.controller = NoController])
           close     == [DefaultClose EXCEPT !.release = TRUE]
<1>1. owner \in State /\ Core(owner)
  BY KeptInvariant
<1>2. owner' = RequestClose(released, close)
  BY DEF Release
<1>3. close \in ClosePlan
  BY DEF DefaultClose, ClosePlan
<1> HIDE DEF close
<1>4. Core(shot)
  BY <1>1, SnapshotPredecessorRetreats, RetreatsCore DEF Retreats
<1> HIDE DEF shot
<1>5. Core(cancelled)
  BY <1>4, CancelUnclaimedPasteType, DegradeRetreats, RetreatsCore DEF Core, Retreats
<1> HIDE DEF cancelled
<1>6. Core(released)
  BY <1>5, RevokeCore
<1> HIDE DEF released
<1> QED
  BY <1>2, <1>3, <1>6, RequestCloseCore, KeptInvariant DEF InductiveInvariant

\* The commands of a controller.
LEMMA CaptureStep ==
  ASSUME InductiveInvariant, Capture
  PROVE  InductiveInvariant'
<1>1. CASE Disable
  BY <1>1, DefaultCloseType, KeptInvariant, KeptSteps DEF Disable, InductiveInvariant
<1> QED
  BY <1>1, GrantStep, IssueStep, ReplaceConfigurationStep, EnableStep, ReleaseStep DEF Capture

-----------------------------------------------------------------------------
(* Retiring a controller                                                   *)

\* The predecessor's terminal events: an enabled lease has no predecessor.
LEMMA PredecessorStep ==
  ASSUME InductiveInvariant,
         \/ \E event \in TerminalEvents : OfferPredecessorTerminal(event)
         \/ ConfirmPredecessorTerminalWritten
         \/ FailPredecessorTerminalWrite
  PROVE  InductiveInvariant'
<1>1. owner \in State /\ Core(owner)
  BY KeptInvariant
<1>2. owner.predecessor # None /\ NotEnabled(owner)
  BY DEF OfferPredecessorTerminal, CanOffer, ConfirmPredecessorTerminalWritten,
         FailPredecessorTerminalWrite, InductiveInvariant, EnabledStays, NotEnabled
<1>3. ASSUME NEW t \in State, Retreats(owner, t) PROVE Kept(t)
  BY <1>1, <1>2, <1>3, RetreatsCore DEF Kept, EnabledKept, NotEnabled, Retreats, LeaseKept
<1>4. ASSUME NEW event \in TerminalEvents, OfferPredecessorTerminal(event)
      PROVE  Kept(owner')
  BY <1>1, <1>3, <1>4, SnapshotPredecessorRetreats DEF OfferPredecessorTerminal
<1>5. ASSUME NEW pr \in Predecessor \cup {None}
      PROVE  Kept([owner EXCEPT !.predecessor = pr])
  <2>1. [owner EXCEPT !.predecessor = pr] \in State
    BY <1>1, AuthorityUpdates
  <2>2. Retreats(owner, [owner EXCEPT !.predecessor = pr])
    BY <1>1 DEF State, Retreats, WorkRetreats, LeaseKept, IsCapture
  <2> QED
    BY <1>3, <2>1, <2>2
<1>6. ASSUME ConfirmPredecessorTerminalWritten \/ FailPredecessorTerminalWrite
      PROVE  Kept(owner')
  <2> DEFINE pr == [owner.predecessor EXCEPT !.inFlight = "None"]
  <2>1. pr \in Predecessor
    BY <1>1, <1>2, FieldTypes DEF Predecessor
  <2>2. [owner EXCEPT !.predecessor.inFlight = "None"] = [owner EXCEPT !.predecessor = pr]
    BY <1>1 DEF State
  <2>3. owner' \in {[owner EXCEPT !.predecessor = None], [owner EXCEPT !.predecessor = pr]}
    BY <1>6, <2>2 DEF ConfirmPredecessorTerminalWritten, FailPredecessorTerminalWrite
  <2> HIDE DEF pr
  <2> QED
    BY <1>5, <2>1, <2>3
<1>7. Kept(owner')
  BY <1>4, <1>6
<1> QED
  BY <1>7, KeptInvariant DEF InductiveInvariant

\* The loss of a controller, or of the requester of a maintenance seal.
LEMMA RetireStep ==
  ASSUME InductiveInvariant, Retire
  PROVE  InductiveInvariant'
<1>1. owner \in State /\ Core(owner) /\ Kept(owner)
  BY KeptInvariant
<1>2. CASE LatchRuntimeRollback
  BY <1>1, <1>2, PriorityRollbackCore, KeptInvariant DEF LatchRuntimeRollback, InductiveInvariant
<1>3. ASSUME owner' = LoseActiveController(owner) PROVE InductiveInvariant'
  BY <1>1, <1>3, LoseActiveControllerCore, KeptInvariant DEF InductiveInvariant
<1>4. ASSUME owner' = [owner EXCEPT !.maintenance.requester = None] PROVE InductiveInvariant'
  <2> DEFINE ma == [owner.maintenance EXCEPT !.requester = None]
             t  == [owner EXCEPT !.maintenance = ma]
  <2>1. ma \in Maintenance /\ ma.phase = owner.maintenance.phase
    BY <1>1, FieldTypes DEF Maintenance
  <2>2. owner' = t
    BY <1>1, <1>4 DEF State
  <2> HIDE DEF ma
  <2>3. t \in State
    BY <1>1, <2>1, LifeUpdates
  <2>4. Retreats(owner, t) /\ EnabledKept(owner, t)
    BY <1>1, <2>1 DEF Retreats, WorkRetreats, LeaseKept, IsCapture, EnabledKept, Steady, State
  <2> HIDE DEF t
  <2> QED
    BY <1>1, <2>2, <2>3, <2>4, KeptSteps, KeptInvariant DEF InductiveInvariant
<1> QED
  BY <1>2, <1>3, <1>4, PredecessorStep DEF Retire, ProtocolFault, ControllerLost

-----------------------------------------------------------------------------
(* Native observations and faults                                          *)

\* A close that is confirmed with its barrier passed.
LEMMA CloseConfirmedCore ==
  ASSUME NEW s, Core(s), NotEnabled(s)
  PROVE  Core(CloseConfirmed(s)) /\ NotEnabled(CloseConfirmed(s))
<1> DEFINE u     == [s EXCEPT !.admission = "Closed"]
           t     == [u EXCEPT !.closePlan = None]
           close == IF s.closePlan = None THEN DefaultClose ELSE s.closePlan
<1>1. s \in State
  BY DEF Core
<1>2. close \in ClosePlan
  BY <1>1, FieldTypes, DefaultCloseType
<1>3. CloseConfirmed(s) = AfterAdmissionClosed(t, close)
  BY DEF CloseConfirmed
<1> HIDE DEF close
<1>4. u \in State
  BY <1>1, WorkUpdates
<1>5. Retreats(s, t) /\ t.admission = "Closed" /\ NotEnabled(t)
  BY <1>1 DEF Retreats, WorkRetreats, LeaseKept, IsCapture, NotEnabled, State
<1> HIDE DEF u
<1>6. t \in State
  BY <1>4, WorkUpdates
<1> HIDE DEF t
<1>7. Core(t)
  BY <1>5, <1>6, RetreatsCore DEF Retreats
<1> QED
  BY <1>2, <1>3, <1>5, <1>7, RequestCloseCore

\* The paste and what the native side owns of it change together.
LEMMA PasteUpdates ==
  ASSUME NEW t, Kept(t)
  PROVE  /\ Kept(WithoutPaste(t))
         /\ \A kind \in PasteOwnerships \ {"None"} :
              t.pastePhase.auth # None =>
                Kept([t EXCEPT !.pastePhase.kind = kind, !.ownership.paste = kind])
         /\ \A phase \in PastePhase, kind \in PasteOwnerships :
              Kept([t EXCEPT !.pastePhase = phase, !.ownership.paste = kind])
<1>1. t \in State /\ t.pastePhase \in PastePhase /\ t.ownership \in Ownership
  BY FieldTypes DEF Kept, Core
<1>2. ASSUME NEW phase \in PastePhase, NEW kind \in PasteOwnerships
      PROVE  Kept([t EXCEPT !.pastePhase = phase, !.ownership.paste = kind])
  <2> DEFINE own == [t.ownership EXCEPT !.paste = kind]
             u   == [t EXCEPT !.pastePhase = phase]
  <2>1. own \in Ownership
    BY <1>1 DEF Ownership
  <2>2. [t EXCEPT !.pastePhase = phase, !.ownership.paste = kind] = [u EXCEPT !.ownership = own]
    BY <1>1 DEF State
  <2> HIDE DEF own
  <2>3. Kept(u)
    BY InertUpdates
  <2> HIDE DEF u
  <2> QED
    BY <2>1, <2>2, <2>3, InertUpdates
<1>3. Kept(WithoutPaste(t))
  <2>1. NoPaste \in PastePhase /\ "None" \in PasteOwnerships
    BY DEF NoPaste, PastePhase, PasteOwnerships
  <2> QED
    BY <1>2, <2>1 DEF WithoutPaste
<1>4. ASSUME NEW kind \in PasteOwnerships \ {"None"}, t.pastePhase.auth # None
      PROVE  Kept([t EXCEPT !.pastePhase.kind = kind, !.ownership.paste = kind])
  <2> DEFINE phase == [t.pastePhase EXCEPT !.kind = kind]
  <2>1. phase \in PastePhase
    BY <1>1, <1>4 DEF PastePhase
  <2>2. [t EXCEPT !.pastePhase.kind = kind, !.ownership.paste = kind]
          = [t EXCEPT !.pastePhase = phase, !.ownership.paste = kind]
    BY <1>1 DEF State
  <2> HIDE DEF phase
  <2> QED
    BY <1>2, <2>1, <2>2
<1> QED
  BY <1>2, <1>3, <1>4

\* What the adapter reports of native ownership.
LEMMA ObserveStep ==
  ASSUME InductiveInvariant,
         \/ \E seen \in Observations : ObserveNative(seen) \/ ObserveImpossible(seen)
         \/ \E effects \in 0..EffectCapacity + 1 : SetAdmittedEffects(effects)
  PROVE  InductiveInvariant'
<1>1. owner \in State /\ Core(owner) /\ Kept(owner) /\ owner.ownership \in Ownership
  BY KeptInvariant, FieldTypes
<1>2. ASSUME NEW seen \in Observations, ObserveNative(seen) \/ ObserveImpossible(seen)
      PROVE  Kept(owner')
  <2> DEFINE now      == Reported(seen)
             recorded == [owner EXCEPT !.ownership = now]
  <2>1. now \in Ownership
    BY <1>1, ObservationsAssumption DEF Reported, Ownership
  <2>2. owner' \in {MaybeBeginDegradedExit(recorded), NativeConfirmationFault(recorded)}
    BY <1>2 DEF ObserveNative, ObserveImpossible, NativeConfirmationFault
  <2> HIDE DEF now
  <2>3. Kept(recorded)
    BY <1>1, <2>1, InertUpdates
  <2> HIDE DEF recorded
  <2> QED
    BY <2>2, <2>3, KeptSteps
<1>3. ASSUME NEW effects \in 0..EffectCapacity + 1, SetAdmittedEffects(effects)
      PROVE  Kept(owner')
  <2> DEFINE own     == [owner.ownership EXCEPT !.effects = effects]
             counted == [owner EXCEPT !.ownership = own]
  <2>1. [owner EXCEPT !.ownership.effects = effects] = counted
    BY <1>1 DEF State
  <2>2. \/ owner' = NativeConfirmationFault(owner)
        \/ /\ ~(effects > EffectCapacity)
           /\ owner' \in {MaybeBeginDegradedExit(counted), counted}
    BY <1>3, <2>1 DEF SetAdmittedEffects
  <2>3. ASSUME ~(effects > EffectCapacity) PROVE own \in Ownership
    BY <1>1, <2>3, BoundsAssumption DEF Ownership
  <2> HIDE DEF own
  <2>4. ~(effects > EffectCapacity) => Kept(counted)
    BY <1>1, <2>3, InertUpdates
  <2> HIDE DEF counted
  <2> QED
    BY <1>1, <2>2, <2>4, KeptSteps
<1>4. Kept(owner')
  BY <1>2, <1>3
<1> QED
  BY <1>4, KeptInvariant DEF InductiveInvariant

\* What the native side does to a paste on its own.
LEMMA PasteStep ==
  ASSUME InductiveInvariant,
         ConfirmPasteClaimed \/ ConfirmPasteIndeterminate \/ ConfirmPasteCompleted
  PROVE  InductiveInvariant'
<1>1. Kept(owner) /\ owner.pastePhase.auth # None
  BY KeptInvariant DEF ConfirmPasteClaimed, ConfirmPasteIndeterminate, ConfirmPasteCompleted
<1>2. /\ Kept(NativeConfirmationFault(owner))
      /\ Kept(WithoutPaste(owner)) /\ Kept(MaybeBeginDegradedExit(WithoutPaste(owner)))
  BY <1>1, PasteUpdates, KeptSteps
<1>3. ASSUME NEW kind \in {"Claimed", "Indeterminate"}
      PROVE  Kept([owner EXCEPT !.pastePhase.kind = kind, !.ownership.paste = kind])
  BY <1>1, PasteUpdates DEF PasteOwnerships
<1>4. Kept(owner')
  BY <1>2, <1>3 DEF ConfirmPasteClaimed, ConfirmPasteIndeterminate, ConfirmPasteCompleted
<1> QED
  BY <1>4, KeptInvariant DEF InductiveInvariant

\* Observations, native faults and the late answers of the native side.
LEMMA NativeStep ==
  ASSUME InductiveInvariant, Native
  PROVE  InductiveInvariant'
<1>1. owner \in State /\ Core(owner) /\ Kept(owner) /\ EnabledStays(owner)
  BY KeptInvariant DEF InductiveInvariant
<1>2. CASE owner' = NativeConfirmationFault(owner)
  BY <1>1, <1>2, KeptSteps, KeptInvariant DEF InductiveInvariant
<1>3. CASE ActionIdsExhausted
  BY <1>1, <1>3, InertUpdates, KeptInvariant DEF ActionIdsExhausted, InductiveInvariant
<1>4. CASE RecoverableNativeFault
  <2> DEFINE reason   == IF owner.unknown THEN owner.unavailable ELSE "NativeFault"
             ill      == [owner EXCEPT !.health = "Degraded"]
             degraded == [ill EXCEPT !.unavailable = reason]
             idle     == CancelUnclaimedPaste(degraded)
             closed   == RequestClose(idle, DefaultClose)
  <2>1. owner' = MaybeBeginDegradedExit(closed)
    BY <1>1, <1>4 DEF RecoverableNativeFault
  <2>2. reason \in {"None", "NativeFault", "OwnershipUnknown"}
    BY <1>1, FieldTypes
  <2> HIDE DEF reason
  <2>3. ill \in State
    BY <1>1, LifeUpdates
  <2>4. Retreats(owner, degraded)
    BY <1>1 DEF Retreats, WorkRetreats, LeaseKept, IsCapture, State
  <2> HIDE DEF ill
  <2>5. degraded \in State
    BY <2>2, <2>3, NativeUpdates
  <2> HIDE DEF degraded
  <2>6. Core(idle)
    <3>1. Core(degraded)
      BY <1>1, <2>4, <2>5, RetreatsCore DEF Retreats
    <3> QED
      BY <2>5, <3>1, CancelUnclaimedPasteType, DegradeRetreats, RetreatsCore DEF Retreats
  <2> HIDE DEF idle
  <2>7. Core(closed) /\ NotEnabled(closed)
    BY <2>6, RequestCloseCore, DefaultCloseType
  <2> HIDE DEF closed
  <2> QED
    BY <2>1, <2>7, KeptInvariant, KeptSteps DEF InductiveInvariant
<1>5. CASE ConfirmEmergencyAdmissionClosed /\ BarrierClosed(owner)
  <2> DEFINE t == [owner EXCEPT !.emergency = FALSE]
  <2>1. owner' = CloseConfirmed(t)
    BY <1>5 DEF ConfirmEmergencyAdmissionClosed
  <2>2. Kept(t)
    BY <1>1, InertUpdates
  <2>3. NotEnabled(t)
    BY <1>1, <1>5 DEF BarrierClosed, EnabledStays, NotEnabled, State
  <2> HIDE DEF t
  <2> QED
    BY <2>1, <2>2, <2>3, CloseConfirmedCore, KeptInvariant DEF Kept, InductiveInvariant
<1> QED
  BY <1>2, <1>3, <1>4, <1>5, ObserveStep, PasteStep
     DEF Native, ConfirmEmergencyAdmissionClosed, AdapterStreamDesynchronized, StaleConfirmation

-----------------------------------------------------------------------------
(* Maintenance and exit                                                    *)

\* A maintenance transaction takes the lease, and a later connection takes
\* a sealed transaction over.
LEMMA MaintenanceStep ==
  ASSUME InductiveInvariant, NEW conn \in Connections, NEW request \in Requests,
         AcquireMaintenance(conn, request) \/ ReacquireMaintenance(conn, request)
  PROVE  InductiveInvariant'
<1>1. owner \in State /\ Core(owner) /\ owner.maintenanceEpoch + 1 \in Nat
  BY KeptInvariant, FieldTypes
<1> DEFINE epoch == owner.maintenanceEpoch + 1
           begun == [owner EXCEPT !.maintenanceEpoch = epoch]
<1>2. begun \in State /\ Retreats(owner, begun)
  <2>1. begun \in State
    BY <1>1, EpochUpdates
  <2>2. Retreats(owner, begun)
    BY <1>1 DEF Retreats, WorkRetreats, LeaseKept, IsCapture, State
  <2> QED
    BY <2>1, <2>2
<1>3. CASE AcquireMaintenance(conn, request)
  <2> DEFINE shot      == SnapshotPredecessor(begun)
             cancelled == CancelUnclaimedPaste(shot)
             ma        == [phase |-> "Sealing", request |-> request,
                           requester |-> conn, epoch |-> epoch]
             u         == [cancelled EXCEPT !.maintenance = ma]
             sealing   == [u EXCEPT !.controller = NoController]
             bare      == InvalidateReconciliation(sealing)
             close     == [DefaultClose EXCEPT !.persist = TRUE]
  <2>1. owner' = RequestClose(bare, close)
    BY <1>3 DEF AcquireMaintenance
  <2> HIDE DEF begun
  <2>2. shot \in State /\ Retreats(owner, shot)
    BY <1>2, SnapshotPredecessorRetreats, RetreatsCompose
  <2> HIDE DEF shot
  <2>3. cancelled \in State /\ Retreats(owner, cancelled)
    BY <2>2, CancelUnclaimedPasteType, DegradeRetreats, RetreatsCompose
  <2> HIDE DEF cancelled
  <2>4. Core(cancelled)
    BY <1>1, <2>3, RetreatsCore DEF Retreats
  <2>5. ma \in Maintenance /\ ma.phase = "Sealing"
    BY <1>1 DEF Maintenance, MaintenancePhases
  <2> HIDE DEF ma
  <2>6. u \in State
    BY <2>3, <2>5, LifeUpdates
  <2>7. NoController \in Controller
    BY DEF NoController, Controller, ControllerKinds
  <2>8. /\ sealing.admission = cancelled.admission /\ sealing.plan = cancelled.plan
        /\ sealing.pending = cancelled.pending /\ sealing.exit = cancelled.exit
        /\ sealing.maintenance = ma /\ sealing.controller = NoController
    BY <2>3 DEF State
  <2> HIDE DEF u
  <2>9. sealing \in State
    BY <2>6, <2>7, AuthorityUpdates
  <2> HIDE DEF sealing
  <2>10. bare \in State
    BY <2>9, DemoteType
  <2>11. WorkRetreats(cancelled, bare) /\ LeaseGone(bare)
    BY <2>5, <2>8, <2>9 DEF InvalidateReconciliation, WorkRetreats, LeaseGone, IsCapture,
                            CaptureKinds, NoController, State
  <2> HIDE DEF bare
  <2>12. Core(bare)
    BY <2>4, <2>10, <2>11, RetreatsCore
  <2>13. close \in ClosePlan
    BY DEF DefaultClose, ClosePlan
  <2> HIDE DEF close
  <2> QED
    BY <2>1, <2>12, <2>13, RequestCloseCore, KeptInvariant DEF InductiveInvariant
<1>4. CASE ReacquireMaintenance(conn, request)
  <2> DEFINE c  == [kind |-> "Maintenance", conn |-> conn, epoch |-> epoch]
             ma == [owner.maintenance EXCEPT !.phase = "Exclusive"]
             u  == [begun EXCEPT !.controller = c]
             t  == [u EXCEPT !.maintenance = ma]
  <2>1. owner' = t
    BY <1>1, <1>4 DEF ReacquireMaintenance, State
  <2>2. owner.requested = None /\ owner.applied = None /\ owner.maintenance.phase = "Sealed"
    BY <1>1, <1>4 DEF ReacquireMaintenance, Core, SealExcludesCapture, ReconciledForLease
  <2>3. c \in Controller /\ c.kind = "Maintenance"
    BY <1>1 DEF Controller, ControllerKinds
  <2>4. ma \in Maintenance /\ ma.phase = "Exclusive"
    BY <1>1, <2>2, FieldTypes DEF Maintenance, MaintenancePhases
  <2> HIDE DEF c, ma
  <2>5. WorkRetreats(owner, t) /\ LeaseGone(t) /\ NotEnabled(t)
    BY <1>1, <2>2, <2>3, <2>4 DEF WorkRetreats, LeaseGone, IsCapture, CaptureKinds, NotEnabled, State
  <2> HIDE DEF begun
  <2>6. u \in State
    BY <1>2, <2>3, AuthorityUpdates
  <2> HIDE DEF u
  <2>7. t \in State
    BY <2>4, <2>6, LifeUpdates
  <2> HIDE DEF t
  <2> QED
    BY <1>1, <2>1, <2>5, <2>7, RetreatsCore, KeptInvariant DEF InductiveInvariant
<1> QED
  BY <1>3, <1>4

\* The ways the owner leaves.
LEMMA ExitStep ==
  ASSUME InductiveInvariant,
         \/ PrepareMaintenance \/ RequestIdleExit \/ MaintenanceGuardLost
         \/ BeginFinalResponseFlush \/ ConfirmFinalResponseFlushed
  PROVE  InductiveInvariant'
<1>1. owner \in State /\ Core(owner) /\ EnabledStays(owner)
  BY KeptInvariant DEF InductiveInvariant
<1>2. ASSUME NEW purpose \in {"StopPrepare", "StopIdle", "StopGuardLost"}, ~IsCapture(owner),
             owner' = BeginNativeStop(owner, purpose)
      PROVE  InductiveInvariant'
  <2>1. purpose \in StopPurposes
    BY DEF StopPurposes
  <2> QED
    BY <1>1, <1>2, <2>1, BeginNativeStopCore, KeptInvariant DEF InductiveInvariant
<1>3. ASSUME NEW exit \in {"Exiting", "Flushing"}, owner.exit # "Running",
             owner' = [owner EXCEPT !.exit = exit]
      PROVE  InductiveInvariant'
  <2> DEFINE t == [owner EXCEPT !.exit = exit]
  <2>1. exit \in ExitStates /\ exit # "Running"
    BY DEF ExitStates
  <2>2. t \in State
    BY <1>1, <2>1, LifeUpdates
  <2>3. Retreats(owner, t) /\ NotEnabled(t)
    BY <1>1, <1>3, <2>1 DEF Retreats, WorkRetreats, LeaseKept, IsCapture, NotEnabled, EnabledStays,
                            State
  <2>4. owner' = t
    BY <1>3
  <2> HIDE DEF t
  <2> QED
    BY <1>1, <2>2, <2>3, <2>4, RetreatsCore, KeptInvariant DEF Retreats, InductiveInvariant
<1>4. CASE PrepareMaintenance \/ RequestIdleExit
  BY <1>2, <1>4 DEF PrepareMaintenance, RequestIdleExit, IsCapture, CaptureKinds
<1>5. CASE MaintenanceGuardLost
  BY <1>1, <1>2, <1>3, <1>5 DEF MaintenanceGuardLost, Core, SealExcludesCapture
<1>6. CASE BeginFinalResponseFlush \/ ConfirmFinalResponseFlushed
  BY <1>3, <1>6 DEF BeginFinalResponseFlush, ConfirmFinalResponseFlushed
<1> QED
  BY <1>4, <1>5, <1>6

-----------------------------------------------------------------------------
(* Confirmations                                                           *)

\* The token a confirmation or a failure is about, and the state without it.
LEMMA HeldToken ==
  ASSUME InductiveInvariant, NEW slot \in Slots, Outstanding(slot)
  PROVE  /\ owner.pending[slot] \in Action
         /\ Kept(Take(owner, slot)) /\ Take(owner, slot) \in State
         /\ Take(owner, slot) = [owner EXCEPT !.pending = [@ EXCEPT ![slot] = None]]
<1>1. Kept(owner) /\ owner \in State
  BY KeptInvariant
<1>2. owner.pending[slot] \in Action
  BY <1>1, FieldTypes DEF Outstanding
<1>3. Kept(Take(owner, slot)) /\ Take(owner, slot) \in State
  BY <1>1, KeptSteps, TakeType
<1>4. Take(owner, slot) = [owner EXCEPT !.pending = [@ EXCEPT ![slot] = None]]
  BY <1>1 DEF Take, State
<1> QED
  BY <1>2, <1>3, <1>4

\* A session mode is remembered.
LEMMA ConfirmSessionModeStep ==
  ASSUME InductiveInvariant, NEW slot \in Slots, ConfirmSessionMode(slot)
  PROVE  Kept(owner')
<1> DEFINE taken == Take(owner, slot)
           mode  == owner.pending[slot].arg
<1>1. Kept(taken) /\ owner.pending[slot] \in Action /\ owner.pending[slot].kind = "SessionMode"
  BY HeldToken DEF ConfirmSessionMode, Held
<1>2. mode \in SessionModes \cup {"Off"}
  BY <1>1 DEF Action, ArgumentsOf
<1>3. owner' \in {taken, [taken EXCEPT !.mode = mode]}
  BY DEF ConfirmSessionMode
<1> HIDE DEF taken, mode
<1> QED
  BY <1>1, <1>2, <1>3, InertUpdates

\* A configuration that was applied is what was asked for, or is not taken.
LEMMA ConfirmConfigurationStep ==
  ASSUME InductiveInvariant, NEW slot \in Slots, ConfirmConfiguration(slot)
  PROVE  Kept(owner')
<1> DEFINE taken   == Take(owner, slot)
           request == owner.pending[slot].config
           matched == ~owner.pending[slot].superseded /\ owner.requested = request
           applied == IF matched THEN [taken EXCEPT !.applied = request] ELSE taken
<1>1. /\ owner \in State /\ EnabledStays(owner) /\ Kept(taken) /\ taken \in State
      /\ owner.pending[slot] \in Action /\ owner.pending[slot].kind = "Configuration"
  BY KeptInvariant, HeldToken DEF ConfirmConfiguration, Held, InductiveInvariant
<1>2. request \in Configuration
  BY <1>1 DEF Action
<1>3. taken.requested = owner.requested /\ taken.controller = owner.controller
      /\ (owner.admission = "Closed" => NotEnabled(taken))
  BY <1>1 DEF Take, EnabledStays, NotEnabled, State
<1>4. owner' = IF owner.admission # "Closed" THEN NativeConfirmationFault(taken)
               ELSE MaybeBeginDegradedExit(IssueNextDependent(applied))
  BY DEF ConfirmConfiguration
<1> HIDE DEF taken, request
<1>5. ASSUME owner.admission = "Closed", matched PROVE Kept([taken EXCEPT !.applied = request])
  <2> DEFINE t == [taken EXCEPT !.applied = request]
  <2>1. t \in State
    BY <1>1, <1>2, AuthorityUpdates
  <2>2. /\ t.admission = taken.admission /\ t.plan = taken.plan /\ t.pending = taken.pending
        /\ t.exit = taken.exit /\ t.maintenance = taken.maintenance
        /\ t.rollback = taken.rollback /\ t.controller = taken.controller
        /\ t.highWater = taken.highWater /\ t.requested = taken.requested /\ t.applied = request
    BY <1>1 DEF State
  <2> HIDE DEF t
  <2>3. Core(taken)
    BY <1>1 DEF Kept
  <2>4. GateHoldsConfiguration(t) /\ StopsOnce(t) /\ PersistsTransaction(t)
    BY <2>2, <2>3 DEF Core, GateHoldsConfiguration, StopsOnce, PersistsTransaction
  <2>5. SealExcludesCapture(t) /\ RollbackExcludesCapture(t)
    BY <2>2, <2>3 DEF Core, SealExcludesCapture, RollbackExcludesCapture, IsCapture
  <2>6. ReconciledForLease(t)
    BY <1>3, <1>5, <2>2, <2>3 DEF Core, ReconciledForLease, IsCapture
  <2>7. Core(t) /\ NotEnabled(t)
    BY <1>3, <1>5, <2>1, <2>2, <2>4, <2>5, <2>6 DEF Core, NotEnabled
  <2> QED
    BY <2>7, KeptInvariant DEF t
<1>6. owner.admission = "Closed" => Kept(applied)
  BY <1>1, <1>5
<1> HIDE DEF applied, matched
<1>7. owner.admission = "Closed" => Kept(MaybeBeginDegradedExit(IssueNextDependent(applied)))
  BY <1>6, KeptSteps
<1>8. Kept(NativeConfirmationFault(taken))
  BY <1>1, KeptSteps
<1> QED
  BY <1>4, <1>7, <1>8

\* The gate opens only for a lease that meets every prerequisite.
LEMMA ConfirmAdmissionOpenedStep ==
  ASSUME InductiveInvariant, NEW slot \in Slots, ConfirmAdmissionOpened(slot)
  PROVE  InductiveInvariant'
<1> DEFINE taken == Take(owner, slot)
           c     == [taken.controller EXCEPT !.kind = "Enabled"]
           u     == [taken EXCEPT !.admission = "Open"]
           t     == [u EXCEPT !.controller = c]
<1>1. owner \in State /\ Kept(taken) /\ taken \in State /\ taken.admission = owner.admission
  BY KeptInvariant, HeldToken DEF ConfirmAdmissionOpened, Held, Take, State
<1>2. [taken EXCEPT !.admission = "Open", !.controller.kind = "Enabled"] = t
  BY <1>1 DEF State
<1>3. \/ owner' = taken
      \/ owner' = NativeConfirmationFault(taken)
      \/ owner.admission = "Opening" /\ EnablePrerequisites(taken) /\ owner' = t
  BY <1>2 DEF ConfirmAdmissionOpened
<1> HIDE DEF taken
<1>4. CASE owner' = taken \/ owner' = NativeConfirmationFault(taken)
  BY <1>1, <1>4, KeptSteps, KeptInvariant DEF InductiveInvariant
<1>5. CASE owner.admission = "Opening" /\ EnablePrerequisites(taken) /\ owner' = t
  <2>1. /\ taken.health = "Healthy" /\ taken.exit = "Running" /\ ~taken.rollback
        /\ taken.maintenance.phase = "None" /\ taken.controller.kind = "Disabled"
        /\ ~taken.unknown /\ taken.predecessor = None /\ taken.applied # None
        /\ KeyboardEligible(taken) /\ taken.admission = "Opening"
    BY <1>1, <1>5 DEF EnablePrerequisites
  <2>2. c \in Controller /\ c.kind = "Enabled" /\ c.epoch = taken.controller.epoch
    BY <1>1, <2>1, FieldTypes DEF Controller, ControllerKinds, CaptureKinds
  <2> HIDE DEF c
  <2>3. u \in State
    BY <1>1, WorkUpdates
  <2>4. /\ t.admission = "Open" /\ t.controller = c
        /\ t.plan = taken.plan /\ t.pending = taken.pending
        /\ t.exit = taken.exit /\ t.maintenance = taken.maintenance
        /\ t.rollback = taken.rollback /\ t.highWater = taken.highWater
        /\ t.requested = taken.requested /\ t.applied = taken.applied
        /\ t.health = taken.health /\ t.unknown = taken.unknown
        /\ t.predecessor = taken.predecessor /\ t.ready = taken.ready
    BY <1>1 DEF State
  <2> HIDE DEF u
  <2>5. t \in State
    BY <2>2, <2>3, AuthorityUpdates
  <2> HIDE DEF t
  <2>6. Core(taken)
    BY <1>1 DEF Kept
  <2>7. GateHoldsConfiguration(t) /\ StopsOnce(t) /\ PersistsTransaction(t)
    BY <2>1, <2>4, <2>6 DEF Core, GateHoldsConfiguration, StopsOnce, PersistsTransaction
  <2>8. SealExcludesCapture(t) /\ RollbackExcludesCapture(t)
    BY <2>1, <2>4 DEF SealExcludesCapture, RollbackExcludesCapture
  <2>9. ReconciledForLease(t)
    BY <2>1, <2>2, <2>4, <2>6 DEF Core, ReconciledForLease, IsCapture, CaptureKinds
  <2>10. EnabledStays(t)
    BY <2>1, <2>4 DEF EnabledStays, KeyboardEligible
  <2> QED
    BY <1>5, <2>5, <2>7, <2>8, <2>9, <2>10 DEF Core, InductiveInvariant
<1> QED
  BY <1>3, <1>4, <1>5

\* The gate is shut.
LEMMA ConfirmAdmissionClosedStep ==
  ASSUME InductiveInvariant, NEW slot \in Slots, ConfirmAdmissionClosed(slot)
  PROVE  Kept(owner')
<1> DEFINE taken == Take(owner, slot)
<1>1. owner \in State /\ EnabledStays(owner) /\ Kept(taken) /\ taken \in State
  BY KeptInvariant, HeldToken DEF ConfirmAdmissionClosed, Held, InductiveInvariant
<1>2. taken.admission = owner.admission /\ taken.controller = owner.controller
  BY <1>1 DEF Take, State
<1>3. owner' = IF BarrierClosed(taken) THEN CloseConfirmed(taken)
               ELSE NativeConfirmationFault(taken)
  BY DEF ConfirmAdmissionClosed
<1> HIDE DEF taken
<1>4. BarrierClosed(taken) => NotEnabled(taken)
  BY <1>1, <1>2 DEF BarrierClosed, EnabledStays, NotEnabled
<1>5. BarrierClosed(taken) => Kept(CloseConfirmed(taken))
  BY <1>1, <1>4, CloseConfirmedCore, KeptInvariant DEF Kept
<1>6. Kept(NativeConfirmationFault(taken))
  BY <1>1, KeptSteps
<1> QED
  BY <1>3, <1>5, <1>6

\* Poisoning drops the dependent plan, and with it no fact of the core.
LEMMA PoisonKept ==
  ASSUME NEW s, Kept(s)
  PROVE  Kept(Poison(s)) /\ Kept(Degrade(s))
<1>1. s \in State
  BY DEF Kept, Core
<1> DEFINE u == [s EXCEPT !.plan = NoDependents]
           t == [u EXCEPT !.poisoned = TRUE]
<1>2. t \in State
  <2>1. u \in State
    BY <1>1, WorkUpdates DEF NoDependents, DependentPlan
  <2> HIDE DEF u
  <2> QED
    BY <2>1, WorkUpdates
<1>3. Retreats(s, t) /\ EnabledKept(s, t)
  BY <1>1 DEF Retreats, WorkRetreats, LeaseKept, IsCapture, EnabledKept, Steady, NoDependents, State
<1>4. Poison(s) = t
  BY DEF Poison
<1> HIDE DEF t
<1>5. Kept(Degrade(s))
  BY NativeConfirmationFaultCore DEF Kept, EnabledKept
<1> QED
  BY <1>2, <1>3, <1>4, <1>5, KeptSteps

\* A paste is admitted, refused, or was cancelled while it waited.
LEMMA ConfirmPasteStep ==
  ASSUME InductiveInvariant, NEW slot \in Slots,
         \/ ConfirmPasteWaiting(slot) \/ ConfirmPasteRefused(slot)
         \/ ConfirmWaitingPasteCancelled(slot)
  PROVE  Kept(owner')
<1> DEFINE taken  == Take(owner, slot)
           cancel == owner.pastePhase.cancel \/ owner.pending[slot].superseded
           kind   == IF cancel THEN "Cancelling" ELSE "Waiting"
           phase  == [kind |-> kind, auth |-> owner.pastePhase.auth, cancel |-> FALSE]
           waits  == [taken EXCEPT !.pastePhase = phase, !.ownership.paste = kind]
           plan   == [waits.plan EXCEPT !.paste = @ \/ cancel]
           t      == [waits EXCEPT !.plan = plan]
<1>1. /\ owner \in State /\ Kept(taken) /\ taken \in State
      /\ owner.pending[slot] \in Action
  BY KeptInvariant, HeldToken
     DEF ConfirmPasteWaiting, ConfirmPasteRefused, ConfirmWaitingPasteCancelled, Held
<1>2. owner.pastePhase \in PastePhase
  BY <1>1, FieldTypes
<1>3. /\ Kept(NativeConfirmationFault(taken))
      /\ Kept(IssueNextDependent(WithoutPaste(taken)))
      /\ Kept(MaybeBeginDegradedExit(IssueNextDependent(WithoutPaste(taken))))
  BY <1>1, PasteUpdates, KeptSteps
<1>4. Kept(Poison(taken)) /\ Kept(NativeConfirmationFault(Poison(taken)))
  BY <1>1, PoisonKept, KeptSteps
<1>5. CASE ConfirmPasteRefused(slot) \/ ConfirmWaitingPasteCancelled(slot)
  BY <1>3, <1>4, <1>5 DEF ConfirmPasteRefused, ConfirmWaitingPasteCancelled
<1>6. CASE ConfirmPasteWaiting(slot)
  <2>1. [taken EXCEPT !.pastePhase = phase, !.ownership.paste = kind, !.plan.paste = @ \/ cancel]
          = t
    BY <1>1 DEF State
  <2>2. \/ owner' = NativeConfirmationFault(taken)
        \/ owner.pastePhase.kind = "Admitting" /\ owner' = IssueNextDependent(t)
    BY <1>6, <2>1 DEF ConfirmPasteWaiting
  <2>3. CASE owner.pastePhase.kind = "Admitting"
    <3>1. phase \in PastePhase /\ kind \in PasteOwnerships
      BY <1>2, <2>3 DEF PastePhase, PasteOwnerships
    <3>2. cancel \in BOOLEAN
      BY <1>1, <1>2 DEF PastePhase, Action
    <3> HIDE DEF taken, cancel, kind, phase
    <3>3. Kept(waits) /\ waits \in State
      BY <1>1, <3>1, PasteUpdates DEF Kept, Core
    <3> HIDE DEF waits
    <3>4. plan \in DependentPlan /\ plan.config = waits.plan.config
      BY <3>2, <3>3, FieldTypes DEF DependentPlan
    <3> HIDE DEF plan
    <3>5. t \in State
      BY <3>3, <3>4, WorkUpdates
    <3>6. Retreats(waits, t) /\ EnabledKept(waits, t)
      BY <3>3, <3>4 DEF Retreats, WorkRetreats, LeaseKept, IsCapture, EnabledKept, Steady, State
    <3> HIDE DEF t
    <3>7. Kept(t)
      BY <3>3, <3>5, <3>6, KeptSteps
    <3> QED
      BY <1>3, <2>2, <3>7, KeptSteps DEF taken
  <2> QED
    BY <1>3, <2>2, <2>3
<1> QED
  BY <1>5, <1>6

\* The candidate was cancelled, and what was left of it is reported.
LEMMA ConfirmCandidateCancelledStep ==
  ASSUME InductiveInvariant, NEW slot \in Slots, NEW seen \in Observations,
         ConfirmCandidateCancelled(slot, seen)
  PROVE  Kept(owner')
<1> DEFINE taken    == Take(owner, slot)
           now      == Reported(seen)
           recorded == [taken EXCEPT !.ownership = now]
<1>1. owner \in State /\ owner.ownership \in Ownership /\ Kept(taken)
  BY KeptInvariant, HeldToken, FieldTypes DEF ConfirmCandidateCancelled, Held
<1>2. now \in Ownership
  BY <1>1, ObservationsAssumption DEF Reported, Ownership
<1>3. owner' \in {MaybeBeginDegradedExit(IssueNextDependent(recorded)),
                  NativeConfirmationFault(Poison(taken))}
  BY DEF ConfirmCandidateCancelled
<1> HIDE DEF taken, now
<1>4. Kept(recorded)
  BY <1>1, <1>2, InertUpdates
<1> HIDE DEF recorded
<1>5. Kept(MaybeBeginDegradedExit(IssueNextDependent(recorded)))
  BY <1>4, KeptSteps
<1>6. Kept(NativeConfirmationFault(Poison(taken)))
  BY <1>1, PoisonKept, KeptSteps
<1> QED
  BY <1>3, <1>5, <1>6

\* The maintenance record is on disk, and its transaction exclusive if its
\* requester is still there.
LEMMA ConfirmMaintenancePersistedStep ==
  ASSUME InductiveInvariant, NEW slot \in Slots, ConfirmMaintenancePersisted(slot)
  PROVE  Kept(owner')
<1> DEFINE taken == Take(owner, slot)
           held  == owner.maintenance.requester
           c     == IF held # None
                    THEN [kind |-> "Maintenance", conn |-> held, epoch |-> owner.maintenance.epoch]
                    ELSE NoController
           ma    == Settle(taken.maintenance, IF held # None THEN "Exclusive" ELSE "Sealed")
           u     == [taken EXCEPT !.controller = c]
           t     == [u EXCEPT !.maintenance = ma]
<1>1. owner \in State /\ Kept(taken) /\ taken \in State /\ taken.maintenance = owner.maintenance
  BY KeptInvariant, HeldToken DEF ConfirmMaintenancePersisted, Held, Take, State
<1>2. \/ owner' = NativeConfirmationFault(taken)
      \/ owner.maintenance.phase = "Persisting" /\ owner' = t
  <2>1. ASSUME NEW d, NEW phase
        PROVE  [taken EXCEPT !.controller = d, !.maintenance = Settle(@, phase)]
                 = [[taken EXCEPT !.controller = d]
                      EXCEPT !.maintenance = Settle(taken.maintenance, phase)]
    BY <1>1 DEF State
  <2> QED
    BY <2>1 DEF ConfirmMaintenancePersisted
<1>3. ASSUME owner.maintenance.phase = "Persisting" PROVE Kept(t)
  <2>1. owner.maintenance \in Maintenance /\ Core(taken)
    BY <1>1, FieldTypes DEF Kept
  <2>2. c \in Controller /\ c.kind \notin CaptureKinds
    BY <2>1 DEF Controller, ControllerKinds, CaptureKinds, NoController, Maintenance
  <2>3. ma \in Maintenance /\ ma.phase # "None"
    BY <1>1, <1>3, <2>1 DEF Settle, Maintenance, MaintenancePhases
  <2>4. taken.requested = None /\ taken.applied = None
    BY <1>1, <1>3, <2>1 DEF Core, SealExcludesCapture, ReconciledForLease
  <2> HIDE DEF taken, c, ma
  <2>5. WorkRetreats(taken, t) /\ LeaseGone(t) /\ NotEnabled(t)
    BY <1>1, <2>2, <2>3, <2>4 DEF WorkRetreats, LeaseGone, IsCapture, CaptureKinds, NotEnabled, State
  <2>6. u \in State
    BY <1>1, <2>2, AuthorityUpdates
  <2> HIDE DEF u
  <2>7. t \in State
    BY <2>3, <2>6, LifeUpdates
  <2> HIDE DEF t
  <2> QED
    BY <2>1, <2>5, <2>7, RetreatsCore, KeptInvariant
<1>4. Kept(NativeConfirmationFault(taken))
  BY <1>1, KeptSteps
<1> QED
  BY <1>2, <1>3, <1>4

\* The native side has stopped.
LEMMA ConfirmNativeStoppedStep ==
  ASSUME InductiveInvariant, NEW slot \in Slots, ConfirmNativeStopped(slot)
  PROVE  Kept(owner')
<1> DEFINE taken == Take(owner, slot)
<1>1. owner \in State /\ Kept(taken) /\ taken \in State /\ taken.exit = owner.exit
  BY KeptInvariant, HeldToken DEF ConfirmNativeStopped, Held, Take, State
<1>2. \/ owner' = NativeConfirmationFault(taken)
      \/ \E exit \in {"ResponseReady", "StoppedSealed", "Exiting"} :
           owner.exit # "Running" /\ owner' = [taken EXCEPT !.exit = exit]
  BY DEF ConfirmNativeStopped
<1>3. NotEnabled(taken) \/ owner.exit = "Running"
  BY <1>1, EnabledKeptComposes DEF InductiveInvariant, Kept, EnabledStays, NotEnabled
<1> HIDE DEF taken
<1>4. ASSUME NEW exit \in {"ResponseReady", "StoppedSealed", "Exiting"}, owner.exit # "Running"
      PROVE  Kept([taken EXCEPT !.exit = exit])
  <2> DEFINE t == [taken EXCEPT !.exit = exit]
  <2>1. exit \in ExitStates /\ exit # "Running"
    BY DEF ExitStates
  <2>2. t \in State
    BY <1>1, <2>1, LifeUpdates
  <2>3. Retreats(taken, t) /\ NotEnabled(t)
    BY <1>1, <1>3, <1>4, <2>1 DEF Retreats, WorkRetreats, LeaseKept, IsCapture, NotEnabled, State
  <2> HIDE DEF t
  <2>4. EnabledKept(taken, t)
    BY <2>3 DEF EnabledKept
  <2>5. Kept(t)
    BY <1>1, <2>2, <2>3, <2>4, KeptSteps
  <2> QED
    BY <2>5 DEF t
<1>5. Kept(NativeConfirmationFault(taken))
  BY <1>1, KeptSteps
<1> QED
  BY <1>2, <1>4, <1>5

-----------------------------------------------------------------------------
(* Failures                                                                *)

\* The failure of a close or of an open puts the gate in doubt.
LEMMA GateFailureKept ==
  ASSUME InductiveInvariant, NEW s, Kept(s)
  PROVE  Kept(UncertainBarrier(s)) /\ Kept(OpenNotApplied(s))
<1>1. s \in State /\ EnabledStays(s)
  BY KeptInvariant DEF Kept, Core
<1>2. Kept(UncertainBarrier(s))
  <2> DEFINE d     == Degrade(s)
             close == IF d.closePlan = None THEN DefaultClose ELSE d.closePlan
             u     == [d EXCEPT !.admission = "Unknown"]
             t     == [u EXCEPT !.closePlan = close]
  <2>1. Core(d) /\ NotEnabled(d) /\ d \in State
    BY NativeConfirmationFaultCore DEF Kept, Core
  <2>2. UncertainBarrier(s) = IF HasPending(t, "Close") THEN t ELSE Issue(t, "Close", None, None)
    BY <2>1 DEF UncertainBarrier, State
  <2> HIDE DEF d
  <2>3. close \in ClosePlan
    BY <2>1, FieldTypes, DefaultCloseType
  <2> HIDE DEF close
  <2>4. u \in State
    BY <2>1, WorkUpdates
  <2>5. Retreats(d, t) /\ NotEnabled(t)
    BY <2>1 DEF Retreats, WorkRetreats, LeaseKept, IsCapture, NotEnabled, State
  <2> HIDE DEF u
  <2>6. t \in State
    BY <2>3, <2>4, WorkUpdates
  <2> HIDE DEF t
  <2>7. Core(t)
    BY <2>1, <2>5, <2>6, RetreatsCore DEF Retreats
  <2>8. "Close" \in ActionKinds \ {"StopNative"}
    BY DEF ActionKinds
  <2>9. Core(Issue(t, "Close", None, None)) /\ NotEnabled(Issue(t, "Close", None, None))
    BY <2>5, <2>7, <2>8, IssueCore, ActionTypes, EnabledKeptComposes
  <2> QED
    BY <2>2, <2>5, <2>7, <2>9 DEF Kept, EnabledKept
<1>3. Kept(OpenNotApplied(s))
  <2> DEFINE gate == IF s.admission = "Opening" THEN "Closed" ELSE s.admission
             shut == [s EXCEPT !.admission = gate]
  <2>1. OpenNotApplied(s) = IF shut.closePlan # None THEN RequestClose(shut, DefaultClose) ELSE shut
    BY <1>1 DEF OpenNotApplied, State
  <2>2. gate \in {"Closed", "Opening", "Open", "Closing", "Unknown"}
    BY <1>1, FieldTypes
  <2>3. shut \in State
    BY <1>1, <2>2, WorkUpdates
  <2>4. Retreats(s, shut) /\ (gate = s.admission => EnabledKept(s, shut))
    BY <1>1 DEF Retreats, WorkRetreats, LeaseKept, IsCapture, EnabledKept, Steady, State
  <2>5. gate # s.admission => NotEnabled(shut)
    BY <1>1, EnabledKeptComposes DEF EnabledStays, NotEnabled, State
  <2> HIDE DEF gate, shut
  <2>6. Kept(shut)
    BY <2>3, <2>4, <2>5, KeptSteps DEF EnabledKept
  <2> QED
    BY <2>1, <2>6, KeptSteps, DefaultCloseType
<1> QED
  BY <1>2, <1>3

\* A failure outside the native ownership degrades without doubt of it.
LEMMA WithNativeFaultKept ==
  ASSUME NEW s, Kept(s), NotEnabled(s)
  PROVE  Kept(WithNativeFault(s))
<1> DEFINE reason == IF s.unknown THEN s.unavailable ELSE "NativeFault"
           u      == [s EXCEPT !.health = "Degraded"]
           t      == [u EXCEPT !.unavailable = reason]
<1>1. s \in State
  BY DEF Kept, Core
<1>2. WithNativeFault(s) = t
  BY <1>1 DEF WithNativeFault, State
<1>3. reason \in {"None", "NativeFault", "OwnershipUnknown"}
  BY <1>1, FieldTypes
<1> HIDE DEF reason
<1>4. u \in State
  BY <1>1, LifeUpdates
<1>5. Retreats(s, t) /\ NotEnabled(t)
  BY <1>1 DEF Retreats, WorkRetreats, LeaseKept, IsCapture, NotEnabled, State
<1> HIDE DEF u
<1>6. t \in State
  BY <1>3, <1>4, NativeUpdates
<1> HIDE DEF t
<1> QED
  BY <1>2, <1>5, <1>6, KeptSteps DEF EnabledKept

\* Every kind of token may fail.  The configuration, the persistence and the
\* native stop rest on the invariant: what they undo, no enabled lease has.
LEMMA FailedKept ==
  ASSUME InductiveInvariant, NEW slot \in Slots, Outstanding(slot), NEW failure
  PROVE  Kept(Failed(Take(owner, slot), owner.pending[slot], failure))
<1> DEFINE s      == Take(owner, slot)
           action == owner.pending[slot]
           failed == Failed(s, action, failure)
<1>1. /\ owner \in State /\ Core(owner) /\ EnabledStays(owner)
      /\ Kept(s) /\ s \in State /\ action \in Action
  BY KeptInvariant, HeldToken DEF InductiveInvariant
<1>2. /\ s.controller = owner.controller /\ s.admission = owner.admission
      /\ s.exit = owner.exit /\ s.maintenance = owner.maintenance
      /\ s.health = owner.health
      /\ \A i \in Slots : s.pending[i] = IF i = slot THEN None ELSE owner.pending[i]
  BY <1>1 DEF Take, State
<1>3. HasKind(owner.pending[slot], action.kind)
  BY DEF Outstanding, HasKind
<1>4. EnabledStays(s) /\ Core(s)
  BY <1>1, KeptInvariant DEF Kept
<1>5. CASE action.kind = "Close"
  <2>1. failed \in {Issue(s, "Close", None, None), UncertainBarrier(s)}
    BY <1>5 DEF Failed
  <2>2. "Close" \in ActionKinds \ {"StopNative"}
    BY DEF ActionKinds
  <2> HIDE DEF s
  <2>3. Kept(Issue(s, "Close", None, None))
    BY <1>1, <1>4, <2>2, IssueCore, ActionTypes, EnabledKeptComposes DEF Kept
  <2> QED
    BY <1>1, <2>1, <2>3, GateFailureKept DEF s
<1>6. CASE action.kind = "Open"
  BY <1>1, <1>6, GateFailureKept DEF Failed
<1>7. CASE action.kind = "SessionMode"
  <2>1. failed = [s EXCEPT !.mode = None]
    BY <1>7 DEF Failed
  <2> QED
    BY <1>1, <2>1, InertUpdates
<1>8. CASE action.kind = "Configuration"
  <2> DEFINE t == [s EXCEPT !.applied = None]
  <2>1. failed = IssueNextDependent(t)
    BY <1>8 DEF Failed
  <2>2. NotEnabled(s)
    BY <1>1, <1>2, <1>3, <1>8 DEF Core, GateHoldsConfiguration, EnabledStays, NotEnabled
  <2> HIDE DEF s
  <2>3. t \in State
    BY <1>1, AuthorityUpdates
  <2>4. /\ t.admission = s.admission /\ t.plan = s.plan /\ t.pending = s.pending
        /\ t.exit = s.exit /\ t.maintenance = s.maintenance /\ t.rollback = s.rollback
        /\ t.controller = s.controller /\ t.highWater = s.highWater
        /\ t.requested = s.requested /\ t.applied = None
    BY <1>1 DEF State
  <2> HIDE DEF t
  <2>5. GateHoldsConfiguration(t) /\ StopsOnce(t) /\ PersistsTransaction(t)
    BY <1>4, <2>4 DEF Core, GateHoldsConfiguration, StopsOnce, PersistsTransaction
  <2>6. SealExcludesCapture(t) /\ RollbackExcludesCapture(t) /\ ReconciledForLease(t)
    BY <1>4, <2>4 DEF Core, SealExcludesCapture, RollbackExcludesCapture, ReconciledForLease,
                      IsCapture
  <2>7. Core(t) /\ NotEnabled(t)
    BY <2>2, <2>3, <2>4, <2>5, <2>6 DEF Core, NotEnabled
  <2> QED
    BY <2>1, <2>7, KeptInvariant, KeptSteps DEF s
<1>9. CASE action.kind = "AdmitPaste"
  <2> DEFINE phase == [kind |-> "Indeterminate", auth |-> action.arg, cancel |-> FALSE]
  <2>1. failed \in {IssueNextDependent(WithoutPaste(s)), IssueNextDependent(s),
                    NativeConfirmationFault(
                      [s EXCEPT !.pastePhase = phase, !.ownership.paste = "Indeterminate"])}
    BY <1>9 DEF Failed
  <2>2. action.arg \in Pastes
    BY <1>1, <1>9 DEF Action, ArgumentsOf
  <2>3. phase \in PastePhase /\ "Indeterminate" \in PasteOwnerships
    BY <2>2, NoneAssumption DEF PastePhase, PasteOwnerships
  <2> HIDE DEF s, phase
  <2>4. Kept([s EXCEPT !.pastePhase = phase, !.ownership.paste = "Indeterminate"])
    BY <1>1, <2>3, PasteUpdates
  <2>5. Kept(NativeConfirmationFault(
               [s EXCEPT !.pastePhase = phase, !.ownership.paste = "Indeterminate"]))
    BY <2>4, KeptSteps
  <2>6. Kept(IssueNextDependent(WithoutPaste(s))) /\ Kept(IssueNextDependent(s))
    BY <1>1, PasteUpdates, KeptSteps
  <2> QED
    BY <2>1, <2>5, <2>6 DEF s
<1>10. CASE action.kind \in {"CancelCandidate", "CancelPaste"}
  <2>1. failed = Poison(Degrade(s))
    BY <1>10 DEF Failed
  <2> QED
    BY <1>1, <2>1, PoisonKept
<1>11. CASE action.kind = "Persist"
  <2> DEFINE ma       == [Settle(s.maintenance, "SealedFailed") EXCEPT !.request = action.arg]
             plan     == [s.plan EXCEPT !.persist = FALSE]
             u        == [s EXCEPT !.maintenance = ma]
             released == [u EXCEPT !.plan = plan]
  <2>1. s.maintenance.phase # "None" /\ NotEnabled(s)
    BY <1>1, <1>2, <1>3, <1>11 DEF Core, PersistsTransaction, EnabledStays, NotEnabled
  <2>2. failed = WithNativeFault(released)
    BY <1>1, <1>11 DEF Failed, State
  <2>3. action.arg \in Requests
    BY <1>1, <1>11 DEF Action, ArgumentsOf
  <2>4. ma \in Maintenance /\ ma.phase = "SealedFailed"
    BY <1>1, <2>3, FieldTypes DEF Settle, Maintenance, MaintenancePhases
  <2>5. plan \in DependentPlan /\ plan.config = s.plan.config
    BY <1>1, FieldTypes DEF DependentPlan
  <2> HIDE DEF s, ma, plan
  <2>6. u \in State
    BY <1>1, <2>4, LifeUpdates
  <2>7. Retreats(s, released) /\ NotEnabled(released)
    BY <1>1, <2>1, <2>4, <2>5 DEF Retreats, WorkRetreats, LeaseKept, IsCapture, NotEnabled, State
  <2> HIDE DEF u
  <2>8. released \in State
    BY <2>5, <2>6, WorkUpdates
  <2> HIDE DEF released
  <2>9. Kept(released)
    BY <1>1, <2>7, <2>8, KeptSteps DEF EnabledKept
  <2> QED
    BY <2>2, <2>7, <2>9, WithNativeFaultKept DEF s
<1>12. CASE action.kind = "StopNative"
  <2> DEFINE t == [s EXCEPT !.exit = "Running"]
  <2>1. failed = WithNativeFault(t)
    BY <1>12 DEF Failed
  <2>2. NotEnabled(s)
    BY <1>1, <1>2, <1>3, <1>12 DEF Core, StopsOnce, EnabledStays, NotEnabled
  <2>3. \A i \in Slots : ~HasKind(s.pending[i], "StopNative")
    BY <1>1, <1>2, <1>3, <1>12 DEF Core, StopsOnce, HasKind
  <2> HIDE DEF s
  <2>4. /\ t.admission = s.admission /\ t.plan = s.plan /\ t.pending = s.pending
        /\ t.maintenance = s.maintenance /\ t.rollback = s.rollback
        /\ t.controller = s.controller /\ t.highWater = s.highWater
        /\ t.requested = s.requested /\ t.applied = s.applied
    BY <1>1 DEF State
  <2>5. t \in State
    BY <1>1, LifeUpdates DEF ExitStates
  <2> HIDE DEF t
  <2>6. GateHoldsConfiguration(t) /\ StopsOnce(t) /\ PersistsTransaction(t)
    BY <1>4, <2>3, <2>4 DEF Core, GateHoldsConfiguration, StopsOnce, PersistsTransaction
  <2>7. SealExcludesCapture(t) /\ RollbackExcludesCapture(t) /\ ReconciledForLease(t)
    BY <1>4, <2>4 DEF Core, SealExcludesCapture, RollbackExcludesCapture, ReconciledForLease,
                      IsCapture
  <2>8. Core(t) /\ NotEnabled(t)
    BY <2>2, <2>4, <2>5, <2>6, <2>7 DEF Core, NotEnabled
  <2> QED
    BY <2>1, <2>8, KeptInvariant, WithNativeFaultKept DEF s
<1>13. action.kind \in {"Close", "Open", "SessionMode", "Configuration", "AdmitPaste",
                        "CancelCandidate", "CancelPaste", "Persist", "StopNative"}
  BY <1>1 DEF Action, ActionKinds, DependentKinds, SemanticKinds
<1> QED
  BY <1>5, <1>6, <1>7, <1>8, <1>9, <1>10, <1>11, <1>12, <1>13

\* A native action fails, or its adapter breaks its contract.
LEMMA FailStep ==
  ASSUME InductiveInvariant, NEW slot \in Slots, Fail(slot)
  PROVE  Kept(owner')
<1> DEFINE failed == Failed(Take(owner, slot), owner.pending[slot], "Indeterminate")
<1>1. ASSUME NEW failure \in Failures, FailNativeAction(slot, failure)
      PROVE  Kept(owner')
  BY <1>1, FailedKept DEF FailNativeAction
<1>2. CASE FailNativeAdapterContract(slot)
  <2>1. Outstanding(slot) /\ owner' \in {NativeConfirmationFault(failed), failed}
    BY <1>2 DEF FailNativeAdapterContract
  <2>2. Kept(failed)
    BY <2>1, FailedKept
  <2> HIDE DEF failed
  <2> QED
    BY <2>1, <2>2, KeptSteps
<1> QED
  BY <1>1, <1>2 DEF Fail

\* A token is confirmed.
LEMMA ConfirmStep ==
  ASSUME InductiveInvariant, NEW slot \in Slots, Confirm(slot)
  PROVE  InductiveInvariant'
<1>1. CASE ConfirmAdmissionOpened(slot)
  BY <1>1, ConfirmAdmissionOpenedStep
<1>2. CASE ~ConfirmAdmissionOpened(slot)
  <2>1. Kept(owner')
    BY <1>2, ConfirmSessionModeStep, ConfirmConfigurationStep, ConfirmAdmissionClosedStep,
       ConfirmPasteStep, ConfirmCandidateCancelledStep, ConfirmMaintenancePersistedStep,
       ConfirmNativeStoppedStep DEF Confirm
  <2> QED
    BY <2>1, KeptInvariant DEF InductiveInvariant
<1> QED
  BY <1>1, <1>2

-----------------------------------------------------------------------------
(* The specification                                                       *)

\* A new owner satisfies the invariant: nothing is held, asked for or begun.
LEMMA InitInvariant == Init => InductiveInvariant
<1>1. NewOwner \in State
  <2>1. /\ NoController \in Controller /\ Neutral \in Ownership /\ NoPaste \in PastePhase
        /\ NoDependents \in DependentPlan /\ NoMaintenance \in Maintenance
    BY BoundsAssumption
       DEF NoController, Controller, ControllerKinds, Neutral, Ownership, Candidates,
           PasteOwnerships, NoPaste, PastePhase, NoDependents, DependentPlan, NoMaintenance,
           Maintenance, MaintenancePhases
  <2>2. [i \in Slots |-> None] \in [Slots -> Action \cup {None}]
    OBVIOUS
  <2>3. "Running" \in ExitStates /\ {} \in SUBSET Prerequisites
    BY DEF ExitStates
  <2> QED
    BY <2>1, <2>2, <2>3 DEF NewOwner, State
<1>2. /\ NewOwner.admission = "Closed" /\ NewOwner.controller.kind = "NoController"
      /\ \A i \in Slots : NewOwner.pending[i] = None
      /\ NewOwner.requested = None /\ NewOwner.applied = None
  BY DEF NewOwner, NoController
<1>3. GateHoldsConfiguration(NewOwner) /\ StopsOnce(NewOwner) /\ PersistsTransaction(NewOwner)
  BY <1>2 DEF GateHoldsConfiguration, StopsOnce, PersistsTransaction, HasKind
<1>4. /\ SealExcludesCapture(NewOwner) /\ RollbackExcludesCapture(NewOwner)
      /\ ReconciledForLease(NewOwner) /\ EnabledStays(NewOwner)
  BY <1>2 DEF SealExcludesCapture, RollbackExcludesCapture, ReconciledForLease, EnabledStays,
              IsCapture, CaptureKinds
<1> QED
  BY <1>1, <1>3, <1>4 DEF Init, InductiveInvariant, Core

\* Every call of the reducer preserves the invariant.
LEMMA NextInvariant ==
  ASSUME InductiveInvariant, [Next]_vars
  PROVE  InductiveInvariant'
<1>1. CASE UNCHANGED vars
  BY <1>1 DEF vars, InductiveInvariant
<1>2. ASSUME NEW slot \in Slots, Fail(slot)
      PROVE  InductiveInvariant'
  BY <1>2, FailStep, KeptInvariant DEF InductiveInvariant
<1>3. CASE MaintainAndExit
  BY <1>3, MaintenanceStep, ExitStep DEF MaintainAndExit
<1> QED
  BY <1>1, <1>2, <1>3, StartupStep, CaptureStep, RetireStep, NativeStep, ConfirmStep DEF Next

\* The invariant holds in every reachable state of the reducer, for every
\* number of connections, tokens and revisions, whatever the adapter reports
\* and however its actions fail.
THEOREM OwnerInvariantHolds == Spec => []InductiveInvariant
<1>1. InductiveInvariant /\ [Next]_vars => InductiveInvariant'
  BY NextInvariant
<1> QED
  BY InitInvariant, <1>1, PTL DEF Spec

\* Every field of the reducer keeps to its type.
THEOREM OwnerTypeCorrect == Spec => []TypeOK
<1>1. InductiveInvariant => TypeOK
  BY DEF InductiveInvariant, Core, TypeOK
<1> QED
  BY <1>1, OwnerInvariantHolds, PTL

\* Fresh input is admitted to an enabled lease only while everything that
\* enabling demanded still holds.
THEOREM EnabledIsSound == Spec => []EnabledSound
<1>1. InductiveInvariant => EnabledSound
  BY DEF InductiveInvariant, Core, ReconciledForLease, EnabledStays, EnabledSound
<1> QED
  BY <1>1, OwnerInvariantHolds, PTL

\* A configuration counts as applied only for the lease that asked for it
\* last, at the highest revision it reserved.
THEOREM AppliedConfigurationIsCurrent == Spec => []AppliedBelongsToLease
<1>1. InductiveInvariant => AppliedBelongsToLease
  BY DEF InductiveInvariant, Core, ReconciledForLease, AppliedBelongsToLease
<1> QED
  BY <1>1, OwnerInvariantHolds, PTL

\* A capture lease and a maintenance transaction never coexist.
THEOREM SealAndCaptureExclude == Spec => []SealedNeverCaptures
<1>1. InductiveInvariant => SealedNeverCaptures
  BY DEF InductiveInvariant, Core, SealExcludesCapture, SealedNeverCaptures
<1> QED
  BY <1>1, OwnerInvariantHolds, PTL

\* Rollback retires every capture lease and what it had configured.
THEOREM RollbackIsFinal == Spec => []RollbackRetiresCapture
<1>1. InductiveInvariant => RollbackRetiresCapture
  BY DEF InductiveInvariant, Core, RollbackExcludesCapture, ReconciledForLease,
         RollbackRetiresCapture
<1> QED
  BY <1>1, OwnerInvariantHolds, PTL

-----------------------------------------------------------------------------
(* What latches.  The private helpers are followed one by one: each of     *)
(* them latches, whatever state it is called in, and so does a chain of    *)
(* them.  The methods that move the gate towards open, or begin a paste,   *)
(* rest on their guards.                                                   *)

GateFields == {"unknown", "rollback", "health", "admission", "ownership", "pastePhase"}

HasGate(s) ==
  /\ GateFields \subseteq DOMAIN s
  /\ "paste" \in DOMAIN s.ownership /\ {"kind", "cancel"} \subseteq DOMAIN s.pastePhase

\* PasteOwnershipAgrees of a state of the reducer.
PasteAgrees(s) ==
  ~s.unknown =>
    s.ownership.paste = IF s.pastePhase.kind = "Admitting" THEN "None" ELSE s.pastePhase.kind

Withdrawn(phase) == Revoked(phase) \/ phase.kind \in {"None", "Indeterminate"}

\* From s to t nothing that was latched is released, and the gate is not
\* moved towards open.
GateLatches(s, t) ==
  /\ HasGate(t)
  /\ s.unknown => t.unknown
  /\ s.rollback => t.rollback
  /\ s.health = "Degraded" => t.health = "Degraded"
  /\ t.admission \in {"Opening", "Open"} => s.admission = t.admission

\* Nor do the two records of a paste part, until native state is unknown, or
\* does a paste that cannot be claimed any more become claimable.
Latches(s, t) ==
  /\ GateLatches(s, t)
  /\ PasteAgrees(s) => PasteAgrees(t)
  /\ Withdrawn(s.pastePhase) => Withdrawn(t.pastePhase)

\* A chain of calls that latch latches.
LEMMA LatchesCompose ==
  ASSUME NEW s, NEW t, NEW u, Latches(s, t), Latches(t, u)
  PROVE  Latches(s, u)
BY DEF Latches, GateLatches

\* A call that leaves the state alone latches.
LEMMA LatchesSelf ==
  ASSUME NEW s, HasGate(s)
  PROVE  Latches(s, s)
BY DEF Latches, GateLatches

\* The helpers that touch none of the four fields.
LEMMA AuthorityLatches ==
  ASSUME NEW s, HasGate(s)
  PROVE  /\ Latches(s, DemoteCapture(s))
         /\ Latches(s, InvalidateReconciliation(s))
         /\ \A kinds : Latches(s, Supersede(s, kinds))
         /\ \A slot : Latches(s, Take(s, slot))
         /\ Latches(s, SealWithoutRequester(s))
         /\ Latches(s, WithoutPaste(s))
         /\ Latches(s, Poison(s))
<1>1. Latches(s, DemoteCapture(s)) /\ Latches(s, InvalidateReconciliation(s))
  BY DEF Latches, GateLatches, HasGate, GateFields, PasteAgrees, Withdrawn, Revoked, DemoteCapture, InvalidateReconciliation
<1>2. ASSUME NEW kinds PROVE Latches(s, Supersede(s, kinds))
  BY DEF Latches, GateLatches, HasGate, GateFields, PasteAgrees, Withdrawn, Revoked, Supersede
<1>3. ASSUME NEW slot PROVE Latches(s, Take(s, slot))
  BY DEF Latches, GateLatches, HasGate, GateFields, PasteAgrees, Withdrawn, Revoked, Take
<1>4. Latches(s, SealWithoutRequester(s))
  BY DEF Latches, GateLatches, HasGate, GateFields, PasteAgrees, Withdrawn, Revoked, SealWithoutRequester
<1>5. Latches(s, WithoutPaste(s)) /\ Latches(s, Poison(s))
  BY DEF Latches, GateLatches, HasGate, GateFields, PasteAgrees, Withdrawn, Revoked, WithoutPaste, Poison, NoPaste
<1> QED
  BY <1>1, <1>2, <1>3, <1>4, <1>5

\* Cancelling an unclaimed paste latches.
LEMMA CancelUnclaimedPasteLatches ==
  ASSUME NEW s, HasGate(s)
  PROVE  Latches(s, CancelUnclaimedPaste(s))
<1> DEFINE revoked == [s EXCEPT !.pastePhase.cancel = TRUE]
           planned == [s EXCEPT !.pastePhase.kind = "Cancelling",
                                !.ownership.paste = "Cancelling",
                                !.plan.paste      = TRUE]
<1>1. Latches(s, revoked) /\ Latches(s, planned)
  BY DEF Latches, GateLatches, HasGate, GateFields, PasteAgrees, Withdrawn, Revoked
<1>2. Latches(s, Supersede(revoked, {"AdmitPaste"}))
  <2>1. Latches(revoked, Supersede(revoked, {"AdmitPaste"}))
    BY <1>1, AuthorityLatches DEF Latches, GateLatches
  <2> QED
    BY <1>1, <2>1, LatchesCompose
<1>3. CancelUnclaimedPaste(s) \in {s, planned, Supersede(revoked, {"AdmitPaste"})}
  BY DEF CancelUnclaimedPaste
<1> QED
  BY <1>1, <1>2, <1>3, LatchesSelf

\* Degradation sets what it latches and leaves a closed gate closed.
LEMMA DegradeLatches ==
  ASSUME NEW s, HasGate(s)
  PROVE  /\ Latches(s, Degrade(s)) /\ Degrade(s).unknown
         /\ Latches(s, AllocationError(s))
<1> DEFINE demoted   == DemoteCapture(s)
           cancelled == CancelUnclaimedPaste(demoted)
           degraded  == Degrade(s)
<1>1. Latches(s, demoted) /\ HasGate(demoted)
  BY AuthorityLatches DEF Latches, GateLatches
<1>2. Latches(s, cancelled) /\ HasGate(cancelled)
  BY <1>1, CancelUnclaimedPasteLatches, LatchesCompose DEF Latches, GateLatches
<1>3. Latches(cancelled, degraded) /\ degraded.unknown
  <2> HIDE DEF cancelled
  <2> DEFINE m == IF cancelled.maintenance.phase \in {"Sealing", "Persisting"}
                  THEN Settle(cancelled.maintenance, "SealedFailed")
                  ELSE cancelled.maintenance
  <2>1. degraded = [cancelled EXCEPT
                      !.health      = "Degraded",
                      !.unknown     = TRUE,
                      !.unavailable = "OwnershipUnknown",
                      !.maintenance = m,
                      !.admission   = IF cancelled.admission = "Closed"
                                      THEN cancelled.admission ELSE "Unknown"]
    BY DEF degraded, Degrade, cancelled
  <2> HIDE DEF m, degraded
  <2> QED
    BY <1>2, <2>1 DEF Latches, GateLatches, HasGate, GateFields, PasteAgrees, Withdrawn, Revoked
<1>4. Latches(s, degraded) /\ HasGate(degraded)
  BY <1>2, <1>3, LatchesCompose DEF Latches, GateLatches
<1>5. Latches(degraded, AllocationError(s))
  <2> HIDE DEF degraded
  <2>1. \E x : AllocationError(s) = [degraded EXCEPT !.emergency = x]
    BY DEF AllocationError, degraded
  <2> QED
    BY <1>4, <2>1 DEF Latches, GateLatches, HasGate, GateFields, PasteAgrees, Withdrawn, Revoked
<1> QED
  BY <1>3, <1>4, <1>5, LatchesCompose

\* Allocating a token latches, whether or not there is one.
LEMMA IssueLatches ==
  ASSUME NEW s, HasGate(s)
  PROVE  /\ \A kind, arg, config : Latches(s, Issue(s, kind, arg, config))
         /\ \A purpose : Latches(s, BeginNativeStop(s, purpose))
         /\ Latches(s, MaybeBeginDegradedExit(s))
<1>1. ASSUME NEW kind, NEW arg, NEW config
      PROVE  Latches(s, Issue(s, kind, arg, config))
  <2> DEFINE slot   == CHOOSE i \in Slots : s.pending[i] = None
             action == [kind |-> kind, arg |-> arg, config |-> config, superseded |-> FALSE]
  <2>1. Issue(s, kind, arg, config) \in {[s EXCEPT !.pending[slot] = action], AllocationError(s)}
    BY DEF Issue
  <2> HIDE DEF slot, action
  <2>2. Latches(s, [s EXCEPT !.pending[slot] = action])
    BY DEF Latches, GateLatches, HasGate, GateFields, PasteAgrees, Withdrawn, Revoked
  <2> QED
    BY <2>1, <2>2, DegradeLatches
<1>2. ASSUME NEW purpose PROVE Latches(s, BeginNativeStop(s, purpose))
  <2> DEFINE issued == Issue(s, "StopNative", None, None)
  <2>1. Latches(s, issued)
    BY <1>1
  <2>2. BeginNativeStop(s, purpose) \in {s, [issued EXCEPT !.exit = purpose], AllocationError(s)}
    BY DEF BeginNativeStop
  <2> HIDE DEF issued
  <2>3. Latches(s, [issued EXCEPT !.exit = purpose])
    BY <2>1 DEF Latches, GateLatches, HasGate, GateFields, PasteAgrees, Withdrawn, Revoked
  <2> QED
    BY <2>2, <2>3, LatchesSelf, DegradeLatches
<1>3. Latches(s, MaybeBeginDegradedExit(s))
  BY <1>2, LatchesSelf DEF MaybeBeginDegradedExit
<1> QED
  BY <1>1, <1>2, <1>3

-----------------------------------------------------------------------------
(* Dependent work and closing                                              *)

\* The next step of the dependent plan, and what a close adds to it, latch.
LEMMA DispatchPlanLatches ==
  ASSUME NEW s, HasGate(s)
  PROVE  /\ Latches(s, DispatchPlan(s))
         /\ \A close : Latches(s, AddDependents(s, close))
<1>1. Latches(s, CancelCandidateNext(s))
  <2> DEFINE t == [s EXCEPT !.plan.candidate = FALSE, !.ownership.candidate = "Cancelling"]
  <2>1. Latches(s, t) /\ HasGate(t)
    BY DEF Latches, GateLatches, HasGate, GateFields, PasteAgrees, Withdrawn, Revoked
  <2> HIDE DEF t
  <2>2. Latches(t, Issue(t, "CancelCandidate", None, None))
    BY <2>1, IssueLatches
  <2> QED
    BY <2>1, <2>2, LatchesCompose DEF CancelCandidateNext, t
<1>2. Latches(s, CancelPasteNext(s))
  <2> DEFINE t       == [s EXCEPT !.plan.paste      = FALSE,
                                  !.pastePhase.kind = "Cancelling",
                                  !.ownership.paste = "Cancelling"]
             dropped == [s EXCEPT !.plan.paste = FALSE]
  <2>1. Latches(s, t) /\ HasGate(t) /\ Latches(s, dropped)
    BY DEF Latches, GateLatches, HasGate, GateFields, PasteAgrees, Withdrawn, Revoked
  <2>2. CancelPasteNext(s) \in {dropped, Issue(t, "CancelPaste", s.pastePhase.auth, None)}
    BY DEF CancelPasteNext
  <2> HIDE DEF t, dropped
  <2>3. Latches(t, Issue(t, "CancelPaste", s.pastePhase.auth, None))
    BY <2>1, IssueLatches
  <2> QED
    BY <2>1, <2>2, <2>3, LatchesCompose
<1>3. Latches(s, Issue([s EXCEPT !.plan.config = None], "Configuration", None, s.plan.config))
  <2> DEFINE t == [s EXCEPT !.plan.config = None]
  <2>1. Latches(s, t) /\ HasGate(t)
    BY DEF Latches, GateLatches, HasGate, GateFields, PasteAgrees, Withdrawn, Revoked
  <2> HIDE DEF t
  <2>2. Latches(t, Issue(t, "Configuration", None, s.plan.config))
    BY <2>1, IssueLatches
  <2> QED
    BY <2>1, <2>2, LatchesCompose DEF t
<1>4. ASSUME NEW u, HasGate(u)
      PROVE  Latches(u, PersistNext(u))
  <2> DEFINE t       == [u EXCEPT !.plan.persist = FALSE, !.maintenance.phase = "Persisting"]
             dropped == [u EXCEPT !.plan.persist = FALSE]
  <2>1. Latches(u, t) /\ HasGate(t) /\ Latches(u, dropped)
    BY <1>4 DEF Latches, GateLatches, HasGate, GateFields, PasteAgrees, Withdrawn, Revoked
  <2>2. PersistNext(u) \in {dropped, Issue(t, "Persist", u.maintenance.request, None)}
    BY DEF PersistNext
  <2> HIDE DEF t, dropped
  <2>3. Latches(t, Issue(t, "Persist", u.maintenance.request, None))
    BY <2>1, IssueLatches
  <2> QED
    BY <2>1, <2>2, <2>3, LatchesCompose
<1>5. Latches(s, DispatchPlan(s))
  <2> DEFINE drained == [s EXCEPT !.plan.drain = FALSE]
             emptied == [s EXCEPT !.plan = NoDependents]
  <2>1. Latches(s, drained) /\ HasGate(drained) /\ Latches(s, emptied)
    BY DEF Latches, GateLatches, HasGate, GateFields, PasteAgrees, Withdrawn, Revoked
  <2>2. DispatchPlan(s) \in
          {s, emptied, CancelCandidateNext(s), CancelPasteNext(s), drained, PersistNext(drained),
           Issue([s EXCEPT !.plan.config = None], "Configuration", None, s.plan.config)}
    BY DEF DispatchPlan
  <2> HIDE DEF drained, emptied
  <2>3. Latches(s, PersistNext(drained))
    BY <2>1, <1>4, LatchesCompose
  <2> QED
    BY <2>1, <2>2, <2>3, <1>1, <1>2, <1>3, LatchesSelf
<1>6. ASSUME NEW close PROVE Latches(s, AddDependents(s, close))
  BY DEF AddDependents, Latches, GateLatches, HasGate, GateFields, PasteAgrees, Withdrawn, Revoked
<1> QED
  BY <1>5, <1>6

\* Asking for a close latches: the gate it leaves is closed, closing or in
\* doubt.
LEMMA RequestCloseLatches ==
  ASSUME NEW s, HasGate(s), NEW close
  PROVE  /\ Latches(s, IssueNextDependent(s))
         /\ Latches(s, AfterAdmissionClosed(s, close))
         /\ Latches(s, RequestClose(s, close))
<1>1. ASSUME NEW u, HasGate(u), NEW c
      PROVE  Latches(u, CloseBarrier(u, c))
  <2> DEFINE held    == [u EXCEPT !.closePlan = MergeClose(@, c)]
             merged  == Supersede(held, {"Open"})
             issued  == Issue(merged, "Close", None, None)
             refused == AllocationError(merged)
  <2>1. Latches(u, held) /\ HasGate(held)
    BY <1>1 DEF Latches, GateLatches, HasGate, GateFields, PasteAgrees, Withdrawn, Revoked
  <2>2. Latches(u, merged) /\ HasGate(merged)
    <3> HIDE DEF held
    <3>1. \A kinds : Latches(held, Supersede(held, kinds))
      BY <2>1, AuthorityLatches
    <3>2. Latches(held, merged)
      BY <3>1
    <3> HIDE DEF merged
    <3> QED
      BY <2>1, <3>2, LatchesCompose DEF Latches, GateLatches
  <2>3. CloseBarrier(u, c) \in {[merged EXCEPT !.admission = "Closing"],
                                [merged EXCEPT !.admission = "Unknown"],
                                [issued EXCEPT !.admission = "Closing"],
                                [refused EXCEPT !.admission = "Unknown"]}
    BY DEF CloseBarrier
  <2> HIDE DEF held, merged
  <2>4. Latches(u, issued) /\ Latches(u, refused)
    BY <2>2, IssueLatches, DegradeLatches, LatchesCompose
  <2> HIDE DEF issued, refused
  <2>5. ASSUME NEW v, Latches(u, v)
        PROVE  /\ Latches(u, [v EXCEPT !.admission = "Closing"])
               /\ Latches(u, [v EXCEPT !.admission = "Unknown"])
    BY <2>5 DEF Latches, GateLatches, HasGate, GateFields, PasteAgrees, Withdrawn, Revoked
  <2> QED
    BY <2>2, <2>3, <2>4, <2>5
<1>2. ASSUME NEW u, HasGate(u)
      PROVE  Latches(u, IssueNextDependent(u))
  <2> DEFINE dispatched == DispatchPlan(u)
             faulted    == Degrade(dispatched)
             added      == AddDependents(faulted, DefaultClose)
  <2>1. IssueNextDependent(u) \in {dispatched, DispatchPlan(added),
                                   CloseBarrier(faulted, DefaultClose)}
    BY DEF IssueNextDependent
  <2>2. Latches(u, dispatched) /\ HasGate(dispatched)
    BY <1>2, DispatchPlanLatches DEF Latches, GateLatches
  <2>3. Latches(u, faulted) /\ HasGate(faulted)
    <3> HIDE DEF dispatched
    <3> QED
      BY <2>2, DegradeLatches, LatchesCompose DEF Latches, GateLatches
  <2> HIDE DEF dispatched, faulted
  <2>4. Latches(u, added) /\ HasGate(added)
    BY <2>3, DispatchPlanLatches, LatchesCompose DEF Latches, GateLatches
  <2> HIDE DEF added
  <2>5. Latches(u, DispatchPlan(added)) /\ Latches(u, CloseBarrier(faulted, DefaultClose))
    BY <2>3, <2>4, <1>1, DispatchPlanLatches, LatchesCompose
  <2> QED
    BY <2>1, <2>2, <2>5
<1>3. ASSUME NEW u, HasGate(u)
      PROVE  Latches(u, AfterAdmissionClosed(u, close))
  <2> DEFINE added  == AddDependents(u, close)
             issued == IssueNextDependent(added)
  <2>1. Latches(u, added) /\ HasGate(added)
    BY <1>3, DispatchPlanLatches DEF Latches, GateLatches
  <2> HIDE DEF added
  <2>2. Latches(u, issued) /\ HasGate(issued)
    BY <2>1, <1>2, LatchesCompose DEF Latches, GateLatches
  <2> HIDE DEF issued
  <2>3. Latches(u, MaybeBeginDegradedExit(issued))
    BY <2>2, IssueLatches, LatchesCompose
  <2> QED
    BY <2>3 DEF AfterAdmissionClosed, added, issued
<1>4. Latches(s, RequestClose(s, close))
  <2> DEFINE demoted == DemoteCapture(s)
  <2>1. Latches(s, demoted) /\ HasGate(demoted)
    BY AuthorityLatches DEF Latches, GateLatches
  <2>2. RequestClose(s, close) \in {AfterAdmissionClosed(demoted, close),
                                    CloseBarrier(demoted, close)}
    BY DEF RequestClose
  <2> HIDE DEF demoted
  <2> QED
    BY <2>1, <2>2, <1>1, <1>3, LatchesCompose
<1> QED
  BY <1>2, <1>3, <1>4

\* A native confirmation fault latches.
LEMMA ConfirmationFaultLatches ==
  ASSUME NEW s, HasGate(s)
  PROVE  Latches(s, NativeConfirmationFault(s))
<1> DEFINE degraded == Degrade(s)
<1>1. Latches(s, degraded) /\ HasGate(degraded)
  BY DegradeLatches DEF Latches, GateLatches
<1> HIDE DEF degraded
<1>2. Latches(degraded, RequestClose(degraded, DefaultClose))
  BY <1>1, RequestCloseLatches
<1> QED
  BY <1>1, <1>2, LatchesCompose DEF NativeConfirmationFault, degraded

-----------------------------------------------------------------------------
(* Retiring a controller                                                   *)

\* Offering an event to a predecessor, and making one, latch.
LEMMA PredecessorLatches ==
  ASSUME NEW s, HasGate(s)
  PROVE  /\ \A event : Latches(s, Offer(s, event))
         /\ Latches(s, SnapshotPredecessor(s))
<1>1. ASSUME NEW t, HasGate(t), NEW event PROVE Latches(t, Offer(t, event))
  <2> DEFINE offered == [t EXCEPT !.predecessor.revoked  = TRUE,
                                  !.predecessor.final    = event \in {"Neutral", "Unavailable"},
                                  !.predecessor.inFlight = event]
  <2>1. Latches(t, offered)
    BY <1>1 DEF Latches, GateLatches, HasGate, GateFields, PasteAgrees, Withdrawn, Revoked
  <2>2. Offer(t, event) \in {t, offered}
    BY DEF Offer
  <2> HIDE DEF offered
  <2> QED
    BY <1>1, <2>1, <2>2, LatchesSelf
<1>2. Latches(s, SnapshotPredecessor(s))
  <2> DEFINE snapshot == [conn |-> s.controller.conn, epoch |-> s.controller.epoch,
                          revoked |-> FALSE, final |-> FALSE, inFlight |-> "None"]
             held     == IF s.predecessor = None /\ IsCapture(s)
                         THEN [s EXCEPT !.predecessor = snapshot] ELSE s
  <2>1. Latches(s, held) /\ HasGate(held)
    <3> HIDE DEF snapshot
    <3> QED
      BY DEF Latches, GateLatches, HasGate, GateFields, PasteAgrees, Withdrawn, Revoked
  <2>2. SnapshotPredecessor(s) = Offer(held, "Revoked")
    BY DEF SnapshotPredecessor
  <2> HIDE DEF held
  <2> QED
    BY <1>1, <2>1, <2>2, LatchesCompose
<1> QED
  BY <1>1, <1>2

\* Cancelling what a paste has not claimed, and then closing, latches.
LEMMA CancelAndCloseLatches ==
  ASSUME NEW s, NEW t, Latches(s, t), NEW close
  PROVE  Latches(s, RequestClose(CancelUnclaimedPaste(t), close))
<1> DEFINE u == CancelUnclaimedPaste(t)
<1>1. Latches(t, u)
  BY CancelUnclaimedPasteLatches DEF Latches, GateLatches
<1> HIDE DEF u
<1>2. HasGate(u)
  BY <1>1 DEF Latches, GateLatches
<1>3. Latches(u, RequestClose(u, close))
  BY <1>2, RequestCloseLatches
<1>4. Latches(s, RequestClose(u, close))
  BY <1>1, <1>3, LatchesCompose
<1> QED
  BY <1>4 DEF u

\* Losing a controller, and the rollback that revokes it, latch.
LEMMA RetirementLatches ==
  ASSUME NEW s, HasGate(s)
  PROVE  Latches(s, LoseActiveController(s)) /\ Latches(s, PriorityRollback(s))
<1>1. Latches(s, LoseActiveController(s))
  <2> DEFINE shot     == SnapshotPredecessor(s)
             snapshot == SealWithoutRequester(shot)
             revoked  == [snapshot EXCEPT !.controller = NoController]
             bare     == InvalidateReconciliation(revoked)
             sealed   == SealWithoutRequester(s)
  <2>1. Latches(s, shot) /\ HasGate(shot)
    BY PredecessorLatches DEF Latches, GateLatches
  <2>2. Latches(s, snapshot) /\ HasGate(snapshot)
    <3> HIDE DEF shot
    <3>1. Latches(shot, snapshot)
      BY <2>1, AuthorityLatches
    <3> QED
      BY <2>1, <3>1, LatchesCompose DEF Latches, GateLatches
  <2>3. Latches(s, revoked) /\ HasGate(revoked)
    <3> HIDE DEF snapshot
    <3> QED
      BY <2>2 DEF Latches, GateLatches, HasGate, GateFields, PasteAgrees, Withdrawn, Revoked
  <2>4. Latches(s, bare)
    <3> HIDE DEF revoked
    <3>1. Latches(revoked, bare)
      BY <2>3, AuthorityLatches
    <3> QED
      BY <2>3, <3>1, LatchesCompose
  <2>5. Latches(s, sealed) /\ Latches(s, [sealed EXCEPT !.controller = NoController])
    <3>1. Latches(s, sealed)
      BY AuthorityLatches
    <3> HIDE DEF sealed
    <3> QED
      BY <3>1 DEF Latches, GateLatches, HasGate, GateFields, PasteAgrees, Withdrawn, Revoked
  <2>6. LoseActiveController(s) \in {RequestClose(CancelUnclaimedPaste(bare), DefaultClose),
                                     [sealed EXCEPT !.controller = NoController]}
    BY DEF LoseActiveController
  <2> HIDE DEF bare, sealed
  <2> QED
    BY <2>4, <2>5, <2>6, CancelAndCloseLatches
<1>2. Latches(s, PriorityRollback(s))
  <2> DEFINE up      == [s EXCEPT !.rollback = TRUE]
             latched == SnapshotPredecessor(up)
             bare    == InvalidateReconciliation(latched)
             revoked == [bare EXCEPT !.controller = NoController, !.plan.config = None]
             cleared == Supersede(revoked, SemanticKinds)
  <2>1. Latches(s, up) /\ HasGate(up)
    BY DEF Latches, GateLatches, HasGate, GateFields, PasteAgrees, Withdrawn, Revoked
  <2>2. Latches(s, latched) /\ HasGate(latched)
    <3> HIDE DEF up
    <3> QED
      BY <2>1, PredecessorLatches, LatchesCompose DEF Latches, GateLatches
  <2>3. Latches(s, bare) /\ HasGate(bare)
    <3> HIDE DEF latched
    <3>1. Latches(latched, bare)
      BY <2>2, AuthorityLatches
    <3> QED
      BY <2>2, <3>1, LatchesCompose DEF Latches, GateLatches
  <2>4. Latches(s, revoked) /\ HasGate(revoked)
    <3> HIDE DEF bare
    <3> QED
      BY <2>3 DEF Latches, GateLatches, HasGate, GateFields, PasteAgrees, Withdrawn, Revoked
  <2>5. Latches(s, cleared)
    <3> HIDE DEF revoked
    <3>1. \A kinds : Latches(revoked, Supersede(revoked, kinds))
      BY <2>4, AuthorityLatches
    <3> QED
      BY <2>4, <3>1, LatchesCompose
  <2>6. PriorityRollback(s) = RequestClose(CancelUnclaimedPaste(cleared), DefaultClose)
    BY DEF PriorityRollback
  <2> HIDE DEF cleared
  <2> QED
    BY <2>5, <2>6, CancelAndCloseLatches
<1> QED
  BY <1>1, <1>2

\* Confirming a close, and every way in which a native action fails, latch.
LEMMA FailureLatches ==
  ASSUME NEW s, HasGate(s)
  PROVE  /\ Latches(s, CloseConfirmed(s))
         /\ \A action, failure :
              action.kind \in ActionKinds => Latches(s, Failed(s, action, failure))
<1>1. Latches(s, CloseConfirmed(s))
  <2> DEFINE shut  == [s EXCEPT !.admission = "Closed", !.closePlan = None]
             close == IF s.closePlan = None THEN DefaultClose ELSE s.closePlan
  <2>1. Latches(s, shut) /\ HasGate(shut)
    BY DEF Latches, GateLatches, HasGate, GateFields, PasteAgrees, Withdrawn, Revoked
  <2> HIDE DEF shut, close
  <2>2. Latches(shut, AfterAdmissionClosed(shut, close))
    BY <2>1, RequestCloseLatches
  <2> QED
    BY <2>1, <2>2, LatchesCompose DEF CloseConfirmed, shut, close
<1>2. Latches(s, UncertainBarrier(s))
  <2> DEFINE degraded == Degrade(s)
             unknown  == [degraded EXCEPT
                            !.admission = "Unknown",
                            !.closePlan = IF @ = None THEN DefaultClose ELSE @]
  <2>1. Latches(s, degraded)
    BY DegradeLatches
  <2>2. UncertainBarrier(s) \in {unknown, Issue(unknown, "Close", None, None)}
    BY DEF UncertainBarrier
  <2> HIDE DEF degraded
  <2>3. Latches(s, unknown) /\ HasGate(unknown)
    BY <2>1 DEF Latches, GateLatches, HasGate, GateFields, PasteAgrees, Withdrawn, Revoked
  <2> HIDE DEF unknown
  <2>4. Latches(unknown, Issue(unknown, "Close", None, None))
    BY <2>3, IssueLatches
  <2> QED
    BY <2>2, <2>3, <2>4, LatchesCompose
<1>3. Latches(s, OpenNotApplied(s))
  <2> DEFINE shut == [s EXCEPT !.admission = IF @ = "Opening" THEN "Closed" ELSE @]
  <2>1. Latches(s, shut) /\ HasGate(shut)
    BY DEF Latches, GateLatches, HasGate, GateFields, PasteAgrees, Withdrawn, Revoked
  <2>2. OpenNotApplied(s) \in {shut, RequestClose(shut, DefaultClose)}
    BY DEF OpenNotApplied
  <2> HIDE DEF shut
  <2>3. Latches(shut, RequestClose(shut, DefaultClose))
    BY <2>1, RequestCloseLatches
  <2> QED
    BY <2>1, <2>2, <2>3, LatchesCompose
<1>4. ASSUME NEW u, HasGate(u) PROVE Latches(u, WithNativeFault(u))
  BY <1>4 DEF WithNativeFault, Latches, GateLatches, HasGate, GateFields, PasteAgrees, Withdrawn, Revoked
<1>5. ASSUME NEW action, NEW failure, action.kind \in ActionKinds
      PROVE  Latches(s, Failed(s, action, failure))
  <2> DEFINE failed == Failed(s, action, failure)
  <2> SUFFICES Latches(s, failed)
    OBVIOUS
  <2>1. CASE action.kind \in {"Close", "Open", "SessionMode"}
    <3>1. Latches(s, [s EXCEPT !.mode = None])
      BY DEF Latches, GateLatches, HasGate, GateFields, PasteAgrees, Withdrawn, Revoked
    <3>2. failed \in {Issue(s, "Close", None, None), UncertainBarrier(s), OpenNotApplied(s),
                      [s EXCEPT !.mode = None]}
      BY <2>1 DEF Failed
    <3> HIDE DEF failed
    <3> QED
      BY <3>1, <3>2, <1>2, <1>3, IssueLatches
  <2>2. CASE action.kind = "Configuration"
    <3> DEFINE t == [s EXCEPT !.applied = None]
    <3>1. Latches(s, t) /\ HasGate(t)
      BY DEF Latches, GateLatches, HasGate, GateFields, PasteAgrees, Withdrawn, Revoked
    <3>2. failed = IssueNextDependent(t)
      BY <2>2 DEF Failed
    <3> HIDE DEF t, failed
    <3> QED
      BY <3>1, <3>2, RequestCloseLatches, LatchesCompose
  <2>3. CASE action.kind = "AdmitPaste"
    <3> DEFINE t == IF s.pastePhase.auth = action.arg THEN WithoutPaste(s) ELSE s
               u == [s EXCEPT !.pastePhase = [kind |-> "Indeterminate", auth |-> action.arg,
                                              cancel |-> FALSE],
                              !.ownership.paste = "Indeterminate"]
    <3>1. Latches(s, t) /\ HasGate(t)
      BY AuthorityLatches, LatchesSelf DEF Latches, GateLatches
    <3>2. Latches(s, u) /\ HasGate(u)
      BY DEF Latches, GateLatches, HasGate, GateFields, PasteAgrees, Withdrawn, Revoked
    <3>3. failed \in {IssueNextDependent(t), NativeConfirmationFault(u)}
      BY <2>3 DEF Failed
    <3> HIDE DEF t, u, failed
    <3>4. Latches(t, IssueNextDependent(t)) /\ Latches(u, NativeConfirmationFault(u))
      BY <3>1, <3>2, RequestCloseLatches, ConfirmationFaultLatches
    <3> QED
      BY <3>1, <3>2, <3>3, <3>4, LatchesCompose
  <2>4. CASE action.kind \in {"CancelCandidate", "CancelPaste"}
    <3> DEFINE t == Degrade(s)
    <3>1. Latches(s, t) /\ HasGate(t)
      BY DegradeLatches DEF Latches, GateLatches
    <3>2. failed = Poison(t)
      BY <2>4 DEF Failed
    <3> HIDE DEF t, failed
    <3> QED
      BY <3>1, <3>2, AuthorityLatches, LatchesCompose
  <2>5. CASE action.kind = "Persist"
    <3> DEFINE m == [Settle(s.maintenance, "SealedFailed") EXCEPT !.request = action.arg]
               t == [s EXCEPT !.maintenance = m, !.plan.persist = FALSE]
    <3>1. failed = WithNativeFault(t)
      BY <2>5 DEF Failed
    <3>2. Latches(s, t) /\ HasGate(t)
      <4> HIDE DEF m
      <4> QED
        BY DEF Latches, GateLatches, HasGate, GateFields, PasteAgrees, Withdrawn, Revoked
    <3> HIDE DEF t, failed
    <3> QED
      BY <3>1, <3>2, <1>4, LatchesCompose
  <2>6. CASE action.kind = "StopNative"
    <3> DEFINE t == [s EXCEPT !.exit = "Running"]
    <3>1. failed = WithNativeFault(t)
      BY <2>6 DEF Failed
    <3>2. Latches(s, t) /\ HasGate(t)
      BY DEF Latches, GateLatches, HasGate, GateFields, PasteAgrees, Withdrawn, Revoked
    <3> HIDE DEF t, failed
    <3> QED
      BY <3>1, <3>2, <1>4, LatchesCompose
  <2> QED
    BY <1>5, <2>1, <2>2, <2>3, <2>4, <2>5, <2>6
       DEF ActionKinds, DependentKinds, SemanticKinds
<1> QED
  BY <1>1, <1>5

-----------------------------------------------------------------------------
(* The public methods                                                      *)

\* The chains the methods are made of.
LEMMA ChainLatches ==
  ASSUME NEW s, NEW t, Latches(s, t)
  PROVE  /\ HasGate(t)
         /\ Latches(s, IssueNextDependent(t))
         /\ Latches(s, MaybeBeginDegradedExit(t))
         /\ Latches(s, MaybeBeginDegradedExit(IssueNextDependent(t)))
         /\ \A close : Latches(s, RequestClose(t, close))
         /\ Latches(s, NativeConfirmationFault(t))
         /\ Latches(s, CancelUnclaimedPaste(t))
<1>1. HasGate(t)
  BY DEF Latches, GateLatches
<1>2. ASSUME NEW u, Latches(s, u) PROVE Latches(s, MaybeBeginDegradedExit(u))
  <2>1. HasGate(u)
    BY <1>2 DEF Latches, GateLatches
  <2> QED
    BY <1>2, <2>1, IssueLatches, LatchesCompose
<1>3. Latches(s, IssueNextDependent(t))
  BY <1>1, RequestCloseLatches, LatchesCompose
<1>4. ASSUME NEW close PROVE Latches(s, RequestClose(t, close))
  <2>1. Latches(t, RequestClose(t, close))
    BY <1>1, RequestCloseLatches
  <2> QED
    BY <2>1, LatchesCompose
<1>5. Latches(s, NativeConfirmationFault(t)) /\ Latches(s, CancelUnclaimedPaste(t))
  BY <1>1, ConfirmationFaultLatches, CancelUnclaimedPasteLatches, LatchesCompose
<1> QED
  BY <1>1, <1>2, <1>3, <1>4, <1>5

\* What the invariant says of the state a method is called in.
LEMMA OwnerHasGate ==
  ASSUME InductiveInvariant
  PROVE  /\ HasGate(owner) /\ Latches(owner, owner)
         /\ \A slot \in Slots : Outstanding(slot) =>
              /\ owner.pending[slot].kind \in ActionKinds
              /\ Latches(owner, Take(owner, slot)) /\ HasGate(Take(owner, slot))
<1>1. owner \in State
  BY KeptInvariant
<1>2. HasGate(owner)
  <2>1. owner.ownership \in Ownership /\ owner.pastePhase \in PastePhase
    BY <1>1, FieldTypes
  <2> QED
    BY <1>1, <2>1 DEF State, HasGate, GateFields, Ownership, PastePhase
<1>3. ASSUME NEW slot \in Slots, Outstanding(slot)
      PROVE  /\ owner.pending[slot].kind \in ActionKinds
             /\ Latches(owner, Take(owner, slot)) /\ HasGate(Take(owner, slot))
  <2>1. owner.pending[slot] \in Action
    BY <1>3, HeldToken
  <2>2. owner.pending[slot].kind \in ActionKinds
    BY <2>1 DEF Action
  <2>3. Latches(owner, Take(owner, slot))
    BY <1>2, AuthorityLatches
  <2> QED
    BY <2>2, <2>3 DEF Latches, GateLatches
<1> QED
  BY <1>2, <1>3, LatchesSelf

\* Startup latches: only an owner that is still starting becomes healthy.
LEMMA StartupLatches ==
  ASSUME InductiveInvariant, Startup
  PROVE  Latches(owner, owner')
<1>1. HasGate(owner)
  BY OwnerHasGate
<1>2. CASE ConfirmStartupSnapshotSeeded \/ StartupCompleted
  BY <1>1, <1>2
     DEF ConfirmStartupSnapshotSeeded, StartupCompleted, Latches, GateLatches, HasGate, GateFields, PasteAgrees, Withdrawn, Revoked
<1>3. ASSUME NEW ready, NEW pasteReady, ObserveNativeReadiness(ready, pasteReady)
      PROVE  Latches(owner, owner')
  <2> DEFINE seen        == [owner EXCEPT !.ready = ready, !.pasteReady = pasteReady]
             invalidated == IF owner.ready \ ready # {} THEN InvalidateReconciliation(seen)
                                                        ELSE seen
             cancelled   == IF owner.pasteReady /\ ~pasteReady
                            THEN CancelUnclaimedPaste(invalidated) ELSE invalidated
  <2>1. Latches(owner, seen) /\ HasGate(seen)
    BY <1>1 DEF Latches, GateLatches, HasGate, GateFields, PasteAgrees, Withdrawn, Revoked
  <2>2. Latches(owner, invalidated)
    <3> HIDE DEF seen
    <3>1. Latches(seen, InvalidateReconciliation(seen))
      BY <2>1, AuthorityLatches
    <3> QED
      BY <2>1, <3>1, LatchesCompose
  <2>3. Latches(owner, cancelled)
    <3> HIDE DEF invalidated
    <3> QED
      BY <2>2, ChainLatches
  <2>4. owner' \in {RequestClose(cancelled, DefaultClose), IssueNextDependent(cancelled)}
    BY <1>3 DEF ObserveNativeReadiness
  <2> HIDE DEF cancelled
  <2> QED
    BY <2>3, <2>4, ChainLatches
<1> QED
  BY <1>2, <1>3 DEF Startup

\* Every command of a controller but Enable and BeginPaste latches.
LEMMA CaptureLatches ==
  ASSUME InductiveInvariant, Capture, ~Enable, \A paste \in Pastes : ~BeginPaste(paste)
  PROVE  Latches(owner, owner')
<1>1. HasGate(owner) /\ Latches(owner, owner)
  BY OwnerHasGate
<1>2. ASSUME NEW conn, AuthenticateObserver(conn)
      PROVE  Latches(owner, owner')
  BY <1>1, <1>2 DEF AuthenticateObserver, Latches, GateLatches, HasGate, GateFields, PasteAgrees, Withdrawn, Revoked
<1>3. ASSUME NEW conn, AcquireCaptureLease(conn)
      PROVE  Latches(owner, owner')
  <2> DEFINE bare  == InvalidateReconciliation(owner)
             lease == [kind |-> "Disabled", conn |-> conn, epoch |-> owner.captureEpoch + 1]
  <2>1. Latches(owner, bare)
    BY <1>1, AuthorityLatches
  <2>2. \E epoch : owner' = [bare EXCEPT !.captureEpoch = epoch, !.controller = lease,
                                         !.highWater = 0]
    BY <1>3 DEF AcquireCaptureLease
  <2> HIDE DEF bare, lease
  <2> QED
    BY <2>1, <2>2 DEF Latches, GateLatches, HasGate, GateFields, PasteAgrees, Withdrawn, Revoked
<1>4. ASSUME NEW mode, SetSessionMode(mode)
      PROVE  Latches(owner, owner')
  <2> DEFINE issued == Issue(owner, "SessionMode", mode, None)
  <2>1. Latches(owner, issued)
    BY <1>1, IssueLatches
  <2>2. owner' \in {issued, [issued EXCEPT !.mode = None]}
    BY <1>4 DEF SetSessionMode
  <2> HIDE DEF issued
  <2> QED
    BY <2>1, <2>2 DEF Latches, GateLatches, HasGate, GateFields, PasteAgrees, Withdrawn, Revoked
<1>5. ASSUME NEW revision, ReplaceConfiguration(revision)
      PROVE  Latches(owner, owner')
  <2> DEFINE request == [epoch |-> owner.controller.epoch, revision |-> revision]
             asked   == [owner EXCEPT !.highWater = revision, !.requested = request,
                                      !.applied   = None]
             close   == [DefaultClose EXCEPT !.config = request]
  <2>1. owner' = RequestClose(asked, close)
    BY <1>5 DEF ReplaceConfiguration
  <2> HIDE DEF request
  <2>2. Latches(owner, asked)
    BY <1>1 DEF Latches, GateLatches, HasGate, GateFields, PasteAgrees, Withdrawn, Revoked
  <2> HIDE DEF asked, close
  <2> QED
    BY <2>1, <2>2, ChainLatches
<1>6. CASE Disable
  BY <1>1, <1>6, ChainLatches DEF Disable
<1>7. CASE Release
  <2> DEFINE shot      == SnapshotPredecessor(owner)
             cancelled == CancelUnclaimedPaste(shot)
             idle      == [cancelled EXCEPT !.controller = NoController]
             released  == InvalidateReconciliation(idle)
             close     == [DefaultClose EXCEPT !.release = TRUE]
  <2>1. owner' = RequestClose(released, close)
    BY <1>7 DEF Release
  <2>2. Latches(owner, shot)
    BY <1>1, PredecessorLatches
  <2>3. Latches(owner, cancelled)
    <3> HIDE DEF shot
    <3> QED
      BY <2>2, ChainLatches
  <2>4. Latches(owner, idle) /\ HasGate(idle)
    <3> HIDE DEF cancelled
    <3> QED
      BY <2>3 DEF Latches, GateLatches, HasGate, GateFields, PasteAgrees, Withdrawn, Revoked
  <2>5. Latches(owner, released)
    <3> HIDE DEF idle
    <3>1. Latches(idle, released)
      BY <2>4, AuthorityLatches
    <3> QED
      BY <2>4, <3>1, LatchesCompose
  <2> HIDE DEF released, close
  <2> QED
    BY <2>1, <2>5, ChainLatches
<1> QED
  BY <1>2, <1>3, <1>4, <1>5, <1>6, <1>7 DEF Capture

\* Losing, revoking and answering a controller latch.
LEMMA RetireLatches ==
  ASSUME InductiveInvariant, Retire
  PROVE  Latches(owner, owner')
<1>1. HasGate(owner) /\ Latches(owner, owner)
  BY OwnerHasGate
<1>2. CASE LatchRuntimeRollback \/ ProtocolFault
  BY <1>1, <1>2, RetirementLatches DEF LatchRuntimeRollback, ProtocolFault
<1>3. ASSUME NEW conn, ControllerLost(conn)
      PROVE  Latches(owner, owner')
  <2>1. Latches(owner, [owner EXCEPT !.maintenance.requester = None])
    BY <1>1 DEF Latches, GateLatches, HasGate, GateFields, PasteAgrees, Withdrawn, Revoked
  <2> QED
    BY <1>1, <1>3, <2>1, RetirementLatches DEF ControllerLost
<1>4. ASSUME NEW event, OfferPredecessorTerminal(event)
      PROVE  Latches(owner, owner')
  BY <1>1, <1>4, PredecessorLatches DEF OfferPredecessorTerminal
<1>5. CASE ConfirmPredecessorTerminalWritten \/ FailPredecessorTerminalWrite
  BY <1>1, <1>5 DEF ConfirmPredecessorTerminalWritten, FailPredecessorTerminalWrite,
                    Latches, GateLatches, HasGate, GateFields, PasteAgrees, Withdrawn, Revoked
<1> QED
  BY <1>2, <1>3, <1>4, <1>5 DEF Retire

\* What the adapter reports unasked latches.
LEMMA NativeLatches ==
  ASSUME InductiveInvariant, Native
  PROVE  Latches(owner, owner')
<1>1. HasGate(owner) /\ Latches(owner, owner)
  BY OwnerHasGate
<1>2. ASSUME NEW own, "paste" \in DOMAIN own
      PROVE  /\ GateLatches(owner, [owner EXCEPT !.ownership = own])
             /\ [owner EXCEPT !.ownership = own].pastePhase = owner.pastePhase
             /\ own.paste = owner.ownership.paste =>
                  Latches(owner, [owner EXCEPT !.ownership = own])
  BY <1>1, <1>2 DEF Latches, GateLatches, HasGate, GateFields, PasteAgrees, Withdrawn, Revoked
<1>3. ASSUME NEW seen, ObserveNative(seen) \/ ObserveImpossible(seen)
      PROVE  Latches(owner, owner')
  <2> DEFINE now      == Reported(seen)
             recorded == [owner EXCEPT !.ownership = now]
             degraded == Degrade(recorded)
  <2>1. "paste" \in DOMAIN now
    BY DEF Reported
  <2>2. \/ /\ owner' = MaybeBeginDegradedExit(recorded)
           /\ now.paste = owner.ownership.paste
        \/ owner' = RequestClose(degraded, DefaultClose)
    BY <1>3 DEF ObserveNative, ObserveImpossible, LegalObservation
  <2> HIDE DEF now
  <2>3. /\ GateLatches(owner, recorded) /\ recorded.pastePhase = owner.pastePhase
        /\ now.paste = owner.ownership.paste => Latches(owner, recorded)
    BY <1>2, <2>1
  <2>4. Latches(owner, degraded)
    <3> HIDE DEF recorded
    <3>1. Latches(recorded, degraded) /\ degraded.unknown
      BY <2>3, DegradeLatches DEF GateLatches
    <3> HIDE DEF degraded
    <3> QED
      BY <2>3, <3>1 DEF Latches, GateLatches, PasteAgrees
  <2> HIDE DEF recorded, degraded
  <2> QED
    BY <2>2, <2>3, <2>4, ChainLatches
<1>4. ASSUME NEW effects, SetAdmittedEffects(effects)
      PROVE  Latches(owner, owner')
  <2> DEFINE counted == [owner EXCEPT !.ownership.effects = effects]
  <2>1. Latches(owner, counted)
    BY <1>1 DEF Latches, GateLatches, HasGate, GateFields, PasteAgrees, Withdrawn, Revoked
  <2>2. owner' \in {NativeConfirmationFault(owner), MaybeBeginDegradedExit(counted), counted}
    BY <1>4 DEF SetAdmittedEffects
  <2> HIDE DEF counted
  <2> QED
    BY <1>1, <2>1, <2>2, ChainLatches
<1>5. CASE ConfirmEmergencyAdmissionClosed
  <2> DEFINE closed == [owner EXCEPT !.emergency = FALSE]
  <2>1. Latches(owner, closed) /\ HasGate(closed)
    BY <1>1 DEF Latches, GateLatches, HasGate, GateFields, PasteAgrees, Withdrawn, Revoked
  <2>2. owner' \in {CloseConfirmed(closed), NativeConfirmationFault(owner)}
    BY <1>5 DEF ConfirmEmergencyAdmissionClosed
  <2> HIDE DEF closed
  <2>3. Latches(closed, CloseConfirmed(closed))
    BY <2>1, FailureLatches
  <2> QED
    BY <1>1, <2>1, <2>2, <2>3, LatchesCompose, ChainLatches
<1>6. CASE ConfirmPasteClaimed \/ ConfirmPasteIndeterminate
  <2>1. ASSUME NEW kind,
               \/ kind = "Claimed" /\ owner.pastePhase.kind = "Waiting"
               \/ kind = "Indeterminate"
        PROVE  Latches(owner, [owner EXCEPT !.pastePhase.kind = kind, !.ownership.paste = kind])
    BY <1>1, <2>1 DEF Latches, GateLatches, HasGate, GateFields, PasteAgrees, Withdrawn, Revoked
  <2> QED
    BY <1>1, <1>6, <2>1, ChainLatches DEF ConfirmPasteClaimed, ConfirmPasteIndeterminate
<1>7. CASE ConfirmPasteCompleted
  <2>1. Latches(owner, WithoutPaste(owner))
    BY <1>1, AuthorityLatches
  <2> QED
    BY <1>1, <1>7, <2>1, ChainLatches DEF ConfirmPasteCompleted
<1>8. CASE AdapterStreamDesynchronized \/ StaleConfirmation
  BY <1>1, <1>8, ChainLatches DEF AdapterStreamDesynchronized, StaleConfirmation
<1>9. CASE RecoverableNativeFault
  <2> DEFINE degraded  == [owner EXCEPT
                             !.health      = "Degraded",
                             !.unavailable = IF owner.unknown THEN @ ELSE "NativeFault"]
             cancelled == CancelUnclaimedPaste(degraded)
             closed    == RequestClose(cancelled, DefaultClose)
  <2>1. Latches(owner, degraded)
    BY <1>1 DEF Latches, GateLatches, HasGate, GateFields, PasteAgrees, Withdrawn, Revoked
  <2>2. owner' = MaybeBeginDegradedExit(closed)
    BY <1>9 DEF RecoverableNativeFault
  <2> HIDE DEF degraded
  <2>3. Latches(owner, closed)
    BY <2>1, CancelAndCloseLatches
  <2> HIDE DEF closed
  <2> QED
    BY <2>2, <2>3, ChainLatches
<1>10. CASE ActionIdsExhausted
  BY <1>1, <1>10 DEF ActionIdsExhausted, Latches, GateLatches, HasGate, GateFields, PasteAgrees, Withdrawn, Revoked
<1> QED
  BY <1>3, <1>4, <1>5, <1>6, <1>7, <1>8, <1>9, <1>10 DEF Native

\* Maintenance and exit latch.
LEMMA MaintainLatches ==
  ASSUME InductiveInvariant, MaintainAndExit
  PROVE  Latches(owner, owner')
<1>1. HasGate(owner) /\ Latches(owner, owner)
  BY OwnerHasGate
<1>2. ASSUME NEW conn, NEW request, AcquireMaintenance(conn, request)
      PROVE  Latches(owner, owner')
  <2> DEFINE epoch     == owner.maintenanceEpoch + 1
             granted   == [owner EXCEPT !.maintenanceEpoch = epoch]
             shot      == SnapshotPredecessor(granted)
             cancelled == CancelUnclaimedPaste(shot)
             record    == [phase |-> "Sealing", request |-> request, requester |-> conn,
                           epoch |-> epoch]
             sealing   == [cancelled EXCEPT !.maintenance = record,
                                            !.controller  = NoController]
             bare      == InvalidateReconciliation(sealing)
             close     == [DefaultClose EXCEPT !.persist = TRUE]
  <2>1. owner' = RequestClose(bare, close)
    BY <1>2 DEF AcquireMaintenance
  <2> HIDE DEF epoch
  <2>2. Latches(owner, granted) /\ HasGate(granted)
    BY <1>1 DEF Latches, GateLatches, HasGate, GateFields, PasteAgrees, Withdrawn, Revoked
  <2>3. Latches(owner, shot)
    <3> HIDE DEF granted
    <3> QED
      BY <2>2, PredecessorLatches, LatchesCompose
  <2>4. Latches(owner, cancelled)
    <3> HIDE DEF shot
    <3> QED
      BY <2>3, ChainLatches
  <2>5. Latches(owner, sealing) /\ HasGate(sealing)
    <3> HIDE DEF cancelled, record
    <3> QED
      BY <2>4 DEF Latches, GateLatches, HasGate, GateFields, PasteAgrees, Withdrawn, Revoked
  <2>6. Latches(owner, bare)
    <3> HIDE DEF sealing
    <3>1. Latches(sealing, bare)
      BY <2>5, AuthorityLatches
    <3> QED
      BY <2>5, <3>1, LatchesCompose
  <2> HIDE DEF bare, close
  <2> QED
    BY <2>1, <2>6, ChainLatches
<1>3. ASSUME NEW conn, NEW request, ReacquireMaintenance(conn, request)
      PROVE  Latches(owner, owner')
  BY <1>1, <1>3 DEF ReacquireMaintenance, Latches, GateLatches, HasGate, GateFields, PasteAgrees, Withdrawn, Revoked
<1>4. CASE PrepareMaintenance \/ RequestIdleExit \/ MaintenanceGuardLost
  <2>1. Latches(owner, [owner EXCEPT !.exit = "Exiting"])
    BY <1>1 DEF Latches, GateLatches, HasGate, GateFields, PasteAgrees, Withdrawn, Revoked
  <2> QED
    BY <1>1, <1>4, <2>1, IssueLatches
       DEF PrepareMaintenance, RequestIdleExit, MaintenanceGuardLost
<1>5. CASE BeginFinalResponseFlush \/ ConfirmFinalResponseFlushed
  BY <1>1, <1>5 DEF BeginFinalResponseFlush, ConfirmFinalResponseFlushed,
                    Latches, GateLatches, HasGate, GateFields, PasteAgrees, Withdrawn, Revoked
<1> QED
  BY <1>2, <1>3, <1>4, <1>5 DEF MaintainAndExit

\* Every confirmation but that of an opened gate latches.
LEMMA ConfirmLatches ==
  ASSUME InductiveInvariant, NEW slot \in Slots, Confirm(slot), ~ConfirmAdmissionOpened(slot)
  PROVE  Latches(owner, owner')
<1> DEFINE taken == Take(owner, slot)
<1>1. HasGate(owner) /\ Latches(owner, taken) /\ HasGate(taken)
  <2>1. Outstanding(slot)
    BY DEF Confirm, Held, ConfirmSessionMode, ConfirmConfiguration, ConfirmAdmissionClosed,
           ConfirmPasteWaiting, ConfirmPasteRefused, ConfirmWaitingPasteCancelled,
           ConfirmMaintenancePersisted, ConfirmNativeStopped, ConfirmCandidateCancelled
  <2> QED
    BY <2>1, OwnerHasGate
<1>2. ASSUME NEW t, Latches(owner, t)
      PROVE  \A x : Latches(owner, [t EXCEPT !.applied = x])
  BY <1>2 DEF Latches, GateLatches, HasGate, GateFields, PasteAgrees, Withdrawn, Revoked
<1>3. CASE ConfirmSessionMode(slot)
  <2>1. owner' \in {taken, [taken EXCEPT !.mode = owner.pending[slot].arg]}
    BY <1>3 DEF ConfirmSessionMode
  <2> HIDE DEF taken
  <2>2. ASSUME NEW x PROVE Latches(owner, [taken EXCEPT !.mode = x])
    BY <1>1 DEF Latches, GateLatches, HasGate, GateFields, PasteAgrees, Withdrawn, Revoked
  <2> QED
    BY <1>1, <2>1, <2>2
<1>4. CASE ConfirmConfiguration(slot)
  <2> DEFINE request == owner.pending[slot].config
             applied == IF ~owner.pending[slot].superseded /\ owner.requested = request
                        THEN [taken EXCEPT !.applied = request] ELSE taken
  <2>1. owner' \in {NativeConfirmationFault(taken),
                    MaybeBeginDegradedExit(IssueNextDependent(applied))}
    BY <1>4 DEF ConfirmConfiguration
  <2>2. Latches(owner, applied)
    <3> HIDE DEF taken, request
    <3> QED
      BY <1>1, <1>2
  <2> HIDE DEF taken, applied
  <2> QED
    BY <1>1, <2>1, <2>2, ChainLatches
<1>5. CASE ConfirmAdmissionClosed(slot)
  <2>1. owner' \in {NativeConfirmationFault(taken), CloseConfirmed(taken)}
    BY <1>5 DEF ConfirmAdmissionClosed
  <2> HIDE DEF taken
  <2>2. Latches(taken, CloseConfirmed(taken))
    BY <1>1, FailureLatches
  <2> QED
    BY <1>1, <2>1, <2>2, LatchesCompose, ChainLatches
<1>6. CASE ConfirmPasteWaiting(slot)
  <2> DEFINE cancel  == owner.pastePhase.cancel \/ owner.pending[slot].superseded
             kind    == IF cancel THEN "Cancelling" ELSE "Waiting"
             phase   == [kind |-> kind, auth |-> owner.pastePhase.auth, cancel |-> FALSE]
             waiting == [taken EXCEPT !.pastePhase      = phase,
                                      !.ownership.paste = kind,
                                      !.plan.paste      = @ \/ cancel]
  <2>1. \/ owner' = NativeConfirmationFault(taken)
        \/ owner' = IssueNextDependent(waiting) /\ owner.pastePhase.kind = "Admitting"
    BY <1>6 DEF ConfirmPasteWaiting
  <2>2. owner.pastePhase.kind = "Admitting" => Latches(owner, waiting)
    <3>1. /\ kind \in {"Cancelling", "Waiting"} /\ phase.kind = kind
          /\ owner.pastePhase.cancel => kind = "Cancelling"
          /\ {"kind", "cancel"} \subseteq DOMAIN phase
      OBVIOUS
    <3> HIDE DEF taken, cancel, kind, phase
    <3> QED
      BY <1>1, <3>1 DEF Latches, GateLatches, HasGate, GateFields, PasteAgrees, Withdrawn, Revoked
  <2> HIDE DEF taken, waiting
  <2> QED
    BY <1>1, <2>1, <2>2, ChainLatches
<1>7. CASE ConfirmPasteRefused(slot) \/ ConfirmWaitingPasteCancelled(slot)
  <2> DEFINE bare     == WithoutPaste(taken)
             poisoned == Poison(taken)
  <2>1. owner' \in {NativeConfirmationFault(taken), IssueNextDependent(bare),
                    NativeConfirmationFault(poisoned),
                    MaybeBeginDegradedExit(IssueNextDependent(bare))}
    BY <1>7 DEF ConfirmPasteRefused, ConfirmWaitingPasteCancelled
  <2>2. Latches(owner, bare) /\ Latches(owner, poisoned)
    <3> HIDE DEF taken
    <3> QED
      BY <1>1, AuthorityLatches, LatchesCompose
  <2> HIDE DEF bare, poisoned, taken
  <2> QED
    BY <1>1, <2>1, <2>2, ChainLatches
<1>8. ASSUME NEW seen, ConfirmCandidateCancelled(slot, seen)
      PROVE  Latches(owner, owner')
  <2> DEFINE now      == Reported(seen)
             recorded == [taken EXCEPT !.ownership = now]
             poisoned == Poison(taken)
  <2>1. \/ owner' = NativeConfirmationFault(poisoned)
        \/ /\ owner' = MaybeBeginDegradedExit(IssueNextDependent(recorded))
           /\ now.paste = owner.ownership.paste
    BY <1>8 DEF ConfirmCandidateCancelled
  <2>2. "paste" \in DOMAIN now
    BY DEF Reported
  <2>3. taken.ownership = owner.ownership
    BY <1>1 DEF HasGate, GateFields, Take
  <2> HIDE DEF taken, now
  <2>4. Latches(owner, poisoned)
    BY <1>1, AuthorityLatches, LatchesCompose
  <2>5. now.paste = owner.ownership.paste => Latches(owner, recorded)
    BY <1>1, <2>2, <2>3 DEF Latches, GateLatches, HasGate, GateFields, PasteAgrees, Withdrawn, Revoked
  <2> HIDE DEF recorded, poisoned
  <2> QED
    BY <2>1, <2>4, <2>5, ChainLatches
<1>9. CASE ConfirmMaintenancePersisted(slot)
  <2> DEFINE held  == owner.maintenance.requester
             owned == [kind |-> "Maintenance", conn |-> held, epoch |-> owner.maintenance.epoch]
             exclusive == [taken EXCEPT !.controller = owned,
                                        !.maintenance = Settle(@, "Exclusive")]
             sealed    == [taken EXCEPT !.controller = NoController,
                                        !.maintenance = Settle(@, "Sealed")]
  <2>1. owner' \in {NativeConfirmationFault(taken), exclusive, sealed}
    BY <1>9 DEF ConfirmMaintenancePersisted
  <2>2. Latches(owner, exclusive) /\ Latches(owner, sealed)
    <3> HIDE DEF taken, owned
    <3> QED
      BY <1>1 DEF Latches, GateLatches, HasGate, GateFields, PasteAgrees, Withdrawn, Revoked
  <2>3. Latches(owner, NativeConfirmationFault(taken))
    <3> HIDE DEF taken
    <3> QED
      BY <1>1, ChainLatches
  <2> HIDE DEF exclusive, sealed
  <2> QED
    BY <2>1, <2>2, <2>3
<1>10. CASE ConfirmNativeStopped(slot)
  <2>1. \/ owner' = NativeConfirmationFault(taken)
        \/ \E x : owner' = [taken EXCEPT !.exit = x]
    BY <1>10 DEF ConfirmNativeStopped
  <2> HIDE DEF taken
  <2>2. ASSUME NEW x PROVE Latches(owner, [taken EXCEPT !.exit = x])
    BY <1>1 DEF Latches, GateLatches, HasGate, GateFields, PasteAgrees, Withdrawn, Revoked
  <2> QED
    BY <1>1, <2>1, <2>2, ChainLatches
<1> QED
  BY <1>3, <1>4, <1>5, <1>6, <1>7, <1>8, <1>9, <1>10 DEF Confirm

\* Every failure latches.
LEMMA FailLatches ==
  ASSUME InductiveInvariant, NEW slot \in Slots, Fail(slot)
  PROVE  Latches(owner, owner')
<1> DEFINE taken  == Take(owner, slot)
           action == owner.pending[slot]
<1>1. Outstanding(slot)
  BY DEF Fail, FailNativeAction, FailNativeAdapterContract
<1>2. Latches(owner, taken) /\ HasGate(taken) /\ action.kind \in ActionKinds
  BY <1>1, OwnerHasGate
<1>3. ASSUME NEW failure PROVE Latches(owner, Failed(taken, action, failure))
  <2> HIDE DEF taken, action
  <2>1. Latches(taken, Failed(taken, action, failure))
    BY <1>2, FailureLatches
  <2> QED
    BY <1>2, <2>1, LatchesCompose
<1>4. \E failure : owner' \in {Failed(taken, action, failure),
                               NativeConfirmationFault(Failed(taken, action, failure))}
  BY DEF Fail, FailNativeAction, FailNativeAdapterContract
<1> HIDE DEF taken, action
<1> QED
  BY <1>3, <1>4, ChainLatches

-----------------------------------------------------------------------------
(* The methods that begin a paste, or move the gate towards open           *)

\* What a step promises of the state it leads to.
StaysClosed(t) ==
  /\ owner.unknown => t.unknown
  /\ owner.rollback => t.rollback
  /\ owner.health = "Degraded" => t.health = "Degraded"
  /\ (owner.unknown \/ owner.rollback \/ owner.health = "Degraded") =>
       (t.admission \in {"Opening", "Open"} => owner.admission = t.admission)

StaysTrue(t) ==
  /\ StaysClosed(t)
  /\ PasteAgrees(owner) => PasteAgrees(t)
  /\ Revoked(owner.pastePhase) => Withdrawn(t.pastePhase)

\* A step that latches keeps the promises.
LEMMA LatchesStaysTrue ==
  ASSUME NEW t, Latches(owner, t)
  PROVE  StaysTrue(t)
BY DEF Latches, GateLatches, StaysTrue, StaysClosed, Withdrawn

\* A paste begins where there is none, and none of the native side.
LEMMA BeginPasteStaysTrue ==
  ASSUME InductiveInvariant, NEW paste, BeginPaste(paste)
  PROVE  StaysTrue(owner')
<1> DEFINE issued == Issue(owner, "AdmitPaste", paste, None)
           slot   == CHOOSE i \in Slots : owner.pending[i] = None
           action == [kind |-> "AdmitPaste", arg |-> paste, config |-> None,
                      superseded |-> FALSE]
           phase  == [kind |-> "Admitting", auth |-> paste, cancel |-> FALSE]
<1>1. HasGate(owner)
  BY OwnerHasGate
<1>2. CASE ~Allocatable(owner)
  BY <1>1, <1>2, IssueLatches, LatchesStaysTrue DEF BeginPaste
<1>3. CASE Allocatable(owner)
  <2>1. owner' = [issued EXCEPT !.pastePhase = phase]
    BY <1>3 DEF BeginPaste
  <2>2. issued = [owner EXCEPT !.pending[slot] = action]
    BY <1>3 DEF Issue
  <2>3. owner.pastePhase.kind = "None" /\ ~owner.unknown
    BY DEF BeginPaste
  <2> HIDE DEF issued, slot, action
  <2>4. Latches(owner, issued) /\ issued.ownership = owner.ownership
    BY <1>1, <2>2 DEF Latches, GateLatches, HasGate, GateFields, PasteAgrees, Withdrawn, Revoked
  <2> QED
    BY <2>1, <2>3, <2>4
       DEF Latches, GateLatches, HasGate, GateFields, PasteAgrees, Withdrawn, Revoked,
           StaysTrue, StaysClosed
<1> QED
  BY <1>2, <1>3

\* The gate begins to open only where nothing is latched.
LEMMA EnableStaysTrue ==
  ASSUME InductiveInvariant, Enable
  PROVE  StaysTrue(owner')
<1> DEFINE issued == Issue(owner, "Open", None, None)
<1>1. HasGate(owner)
  BY OwnerHasGate
<1>2. Latches(owner, issued)
  BY <1>1, IssueLatches
<1>3. owner' \in {issued, [issued EXCEPT !.admission = "Opening"]}
  BY DEF Enable
<1>4. ~owner.unknown /\ ~owner.rollback /\ owner.health = "Healthy"
  BY DEF Enable, CanOpenKeyboard, EnablePrerequisites
<1> HIDE DEF issued
<1> QED
  BY <1>2, <1>3, <1>4
     DEF Latches, GateLatches, HasGate, GateFields, PasteAgrees, Withdrawn, Revoked, StaysTrue, StaysClosed

\* The gate opens only where nothing is latched, asked again at the moment
\* the open is confirmed.
LEMMA ConfirmOpenedStaysTrue ==
  ASSUME InductiveInvariant, NEW slot \in Slots, ConfirmAdmissionOpened(slot)
  PROVE  StaysTrue(owner')
<1> DEFINE taken  == Take(owner, slot)
           opened == [taken EXCEPT !.admission = "Open", !.controller.kind = "Enabled"]
<1>1. Latches(owner, taken) /\ HasGate(taken)
  BY OwnerHasGate DEF ConfirmAdmissionOpened, Held
<1>2. \/ owner' \in {taken, NativeConfirmationFault(taken)}
      \/ owner' = opened /\ EnablePrerequisites(taken)
  BY DEF ConfirmAdmissionOpened
<1> HIDE DEF taken
<1>3. Latches(owner, NativeConfirmationFault(taken))
  BY <1>1, ChainLatches
<1>4. CASE owner' \in {taken, NativeConfirmationFault(taken)}
  BY <1>1, <1>3, <1>4, LatchesStaysTrue
<1>5. CASE owner' = opened /\ EnablePrerequisites(taken)
  <2>1. ~taken.unknown /\ ~taken.rollback /\ taken.health = "Healthy"
    BY <1>5 DEF EnablePrerequisites
  <2> QED
    BY <1>1, <1>5, <2>1
       DEF Latches, GateLatches, HasGate, GateFields, PasteAgrees, Withdrawn, Revoked, StaysTrue, StaysClosed
<1> QED
  BY <1>2, <1>4, <1>5

\* Every step keeps the promises.
LEMMA NextStaysTrue ==
  ASSUME InductiveInvariant, [Next]_vars
  PROVE  StaysTrue(owner')
<1>1. CASE UNCHANGED vars
  BY <1>1 DEF vars, StaysTrue, StaysClosed, Withdrawn
<1>2. CASE \/ Enable \/ \E slot \in Slots : ConfirmAdmissionOpened(slot)
           \/ \E paste \in Pastes : BeginPaste(paste)
  BY <1>2, EnableStaysTrue, ConfirmOpenedStaysTrue, BeginPasteStaysTrue
<1>3. CASE /\ Next /\ ~Enable /\ \A slot \in Slots : ~ConfirmAdmissionOpened(slot)
           /\ \A paste \in Pastes : ~BeginPaste(paste)
  <2>1. Latches(owner, owner')
    BY <1>3, StartupLatches, CaptureLatches, RetireLatches, NativeLatches,
       MaintainLatches, ConfirmLatches, FailLatches DEF Next
  <2> QED
    BY <2>1, LatchesStaysTrue
<1> QED
  BY <1>1, <1>2, <1>3

-----------------------------------------------------------------------------
\* Native uncertainty, degradation and rollback are one way, and none of
\* them lets a closed gate open: whatever the number of connections and
\* tokens, and in whatever order the adapter confirms, fails and reports.
THEOREM OwnerFailsClosed == Spec => FailClosed
<1>1. InductiveInvariant /\ [Next]_vars => [StaysClosed(owner')]_vars
  BY NextStaysTrue DEF StaysTrue
<1>2. [StaysClosed(owner')]_vars =>
        [/\ owner.unknown => owner'.unknown
         /\ owner.rollback => owner'.rollback
         /\ owner.health = "Degraded" => owner'.health = "Degraded"
         /\ (owner.unknown \/ owner.rollback \/ owner.health = "Degraded") =>
              (owner'.admission \in {"Opening", "Open"} => owner.admission = owner'.admission)]_vars
  BY DEF StaysClosed
<1> QED
  BY <1>1, <1>2, OwnerInvariantHolds, PTL DEF Spec, FailClosed

\* The phase of a paste and the native ownership agree until native state is
\* unknown, whatever order admission, cancellation, claim and loss come in.
THEOREM PasteRecordsAgree == Spec => []PasteOwnershipAgrees
<1>1. Init => PasteOwnershipAgrees
  BY DEF Init, NewOwner, Neutral, NoPaste, PasteOwnershipAgrees
<1>2. InductiveInvariant /\ PasteOwnershipAgrees /\ [Next]_vars => PasteOwnershipAgrees'
  BY NextStaysTrue DEF StaysTrue, PasteAgrees, PasteOwnershipAgrees
<1> QED
  BY <1>1, <1>2, OwnerInvariantHolds, PTL DEF Spec

\* A paste that was cancelled before it was claimed never becomes claimable
\* again, whatever the order in which its admission, its cancellation and
\* its claim are confirmed.
THEOREM CancelledPasteStaysCancelled == Spec => CancelledPasteNeverClaims
<1>1. InductiveInvariant /\ [Next]_vars =>
        [Revoked(owner.pastePhase) =>
           \/ Revoked(owner'.pastePhase)
           \/ owner'.pastePhase.kind \in {"None", "Indeterminate"}]_vars
  BY NextStaysTrue DEF StaysTrue, Withdrawn
<1> QED
  BY <1>1, OwnerInvariantHolds, PTL DEF Spec, CancelledPasteNeverClaims
=============================================================================
