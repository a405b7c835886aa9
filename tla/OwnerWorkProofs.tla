--------------------------- MODULE OwnerWorkProofs ---------------------------
(***************************************************************************)
(* The work behind the gate is in order: the dependent steps of a close    *)
(* reach the adapter one at a time, a close can always be issued, and what *)
(* is told to be neutral is.  The invariant is WorkInvariant of            *)
(* OwnerInvariant.  Its parts are followed through the private helpers as  *)
(* predicates of a state, in three grades: a state is tidy wherever a      *)
(* helper may be called, planned where the plan may be dispatched, and     *)
(* settled when it has been, which is where every public method ends.      *)
(***************************************************************************)
EXTENDS OwnerProofs, FiniteSetTheorems

\* The fields of which the invariant speaks.
WorkFields == {"controller", "ownership", "pastePhase", "exit", "admission", "pending",
               "emergency", "closePlan", "plan", "poisoned", "unknown", "maintenance",
               "predecessor"}

\* As much of the type of a state as the work behind the gate depends on.
Shape(s) ==
  /\ WorkFields \subseteq DOMAIN s
  /\ s.admission \in {"Closed", "Opening", "Open", "Closing", "Unknown"}
  /\ "kind" \in DOMAIN s.controller
  /\ {"candidate", "drain", "cleanup", "conservative", "paste", "effects"} \subseteq DOMAIN s.ownership
  /\ {"kind", "auth", "cancel"} \subseteq DOMAIN s.pastePhase
  /\ s.pastePhase.auth \in Pastes \cup {None}
  /\ s.pastePhase.kind = "None" <=> s.pastePhase.auth = None
  /\ {"candidate", "paste", "config", "persist", "drain"} \subseteq DOMAIN s.plan
  /\ s.plan.config \in Configuration \cup {None}
  /\ s.closePlan \in ClosePlan \cup {None}
  /\ {"phase", "request"} \subseteq DOMAIN s.maintenance
  /\ s.maintenance.phase # "None" => s.maintenance.request \in Requests
  /\ s.predecessor # None => {"revoked", "final", "inFlight"} \subseteq DOMAIN s.predecessor
  /\ DOMAIN s.pending = Slots
  /\ \A i \in Slots : s.pending[i] \in Action \cup {None}

\* What is left of the invariant when native state is unknown.
Tokened(s) == Shape(s) /\ OneOfAClass(s) /\ PoisonStops(s)

\* What every private helper preserves.
Tidy(s) == Tokened(s) /\ DoubtIsUnknown(s) /\ (~s.unknown => Orderly(s))

\* A state in which the plan may be dispatched, and one in which it has been.
Planned(s) ==
  Tidy(s) /\ CloseUnderway(s) /\ (~s.unknown => OpeningIsClear(s) /\ CandidateIsPlanned(s))
Settled(s) == Planned(s) /\ (~s.unknown => PlanContinues(s))

\* From s to t no token comes or goes.
SameTokens(s, t) ==
  \A i \in Slots :
    /\ t.pending[i] = None <=> s.pending[i] = None
    /\ s.pending[i] # None => /\ t.pending[i].kind = s.pending[i].kind
                              /\ t.pending[i].arg = s.pending[i].arg

\* From s to t nothing changes that the work behind the gate depends on,
\* except that an opening may be superseded.
Resembles(s, t) ==
  /\ SameTokens(s, t)
  /\ t.admission = s.admission /\ t.ownership = s.ownership /\ t.pastePhase = s.pastePhase
  /\ t.plan = s.plan /\ t.closePlan = s.closePlan
  /\ t.emergency = s.emergency /\ t.poisoned = s.poisoned /\ t.unknown = s.unknown
  /\ t.predecessor = s.predecessor
  /\ t.maintenance.phase # "None" => s.maintenance.phase # "None"
  /\ t.maintenance.phase \in {"Persisting", "Exclusive", "Sealed"} =>
       s.maintenance.phase \in {"Persisting", "Exclusive", "Sealed"}
  /\ t.exit = "Running" <=> s.exit = "Running"
  /\ IsCapture(t) => IsCapture(s) \/ (s.exit = "Running" /\ s.predecessor = None)

\* No opening is superseded either.
Alike(s, t) == Resembles(s, t) /\ (OpenIsWanted(s) => OpenIsWanted(t))

\* A state of the reducer has the shape.
LEMMA StateShape ==
  ASSUME NEW s \in State
  PROVE  Shape(s)
<1>1. /\ WorkFields \subseteq DOMAIN s
      /\ s.admission \in {"Closed", "Opening", "Open", "Closing", "Unknown"}
      /\ s.closePlan \in ClosePlan \cup {None}
  BY DEF State, WorkFields
<1>2. "kind" \in DOMAIN s.controller
  BY FieldTypes DEF Controller
<1>3. {"candidate", "drain", "cleanup", "conservative", "paste", "effects"} \subseteq DOMAIN s.ownership
  BY FieldTypes DEF Ownership
<1>4. /\ {"kind", "auth", "cancel"} \subseteq DOMAIN s.pastePhase
      /\ s.pastePhase.auth \in Pastes \cup {None}
      /\ s.pastePhase.kind = "None" <=> s.pastePhase.auth = None
  BY FieldTypes DEF PastePhase
<1>5. /\ {"candidate", "paste", "config", "persist", "drain"} \subseteq DOMAIN s.plan
      /\ s.plan.config \in Configuration \cup {None}
  BY FieldTypes DEF DependentPlan
<1>6. /\ {"phase", "request"} \subseteq DOMAIN s.maintenance
      /\ s.maintenance.phase # "None" => s.maintenance.request \in Requests
  BY FieldTypes DEF Maintenance
<1>7. s.predecessor # None => {"revoked", "final", "inFlight"} \subseteq DOMAIN s.predecessor
  BY FieldTypes DEF Predecessor
<1>8. s.pending \in [Slots -> Action \cup {None}]
  BY FieldTypes
<1> QED
  BY <1>1, <1>2, <1>3, <1>4, <1>5, <1>6, <1>7, <1>8 DEF Shape

\* The kinds of token, one by one.
LEMMA Kinds ==
  /\ ActionKinds = {"CancelCandidate", "CancelPaste", "Configuration", "Persist",
                    "Open", "SessionMode", "AdmitPaste", "Close", "StopNative"}
  /\ DependentKinds = {"CancelCandidate", "CancelPaste", "Configuration", "Persist"}
  /\ \A kind \in DependentKinds : ClassOf(kind) = "Dependent"
  /\ \A kind \in {"Open", "SessionMode", "AdmitPaste"} : ClassOf(kind) = "Semantic"
  /\ \A kind \in {"Close", "StopNative"} : ClassOf(kind) = kind
BY DEF ActionKinds, DependentKinds, SemanticKinds, ClassOf

\* What is said of tokens by their kind is the same when no token comes or goes.
LEMMA TokensAlike ==
  ASSUME NEW s, NEW t, SameTokens(s, t)
  PROVE  /\ \A kind : HasPending(t, kind) <=> HasPending(s, kind)
         /\ OneOfAClass(t) <=> OneOfAClass(s)
         /\ t.pastePhase = s.pastePhase => (AdmissionPends(t) <=> AdmissionPends(s))
         /\ t.pastePhase = s.pastePhase => (DependentsBlocked(t) <=> DependentsBlocked(s))
<1>1. \A kind : HasPending(t, kind) <=> HasPending(s, kind)
  BY DEF SameTokens, HasPending
<1>2. OneOfAClass(t) <=> OneOfAClass(s)
  BY DEF SameTokens, OneOfAClass
<1>3. t.pastePhase = s.pastePhase => (AdmissionPends(t) <=> AdmissionPends(s))
  BY DEF SameTokens, AdmissionPends, HasKind
<1>4. t.pastePhase = s.pastePhase => (DependentsBlocked(t) <=> DependentsBlocked(s))
  BY DEF SameTokens, DependentsBlocked
<1> QED
  BY <1>1, <1>2, <1>3, <1>4

\* Dependent work is blocked by a dependent token or by an admission.
LEMMA BlockedByKind ==
  ASSUME NEW s
  PROVE  /\ DependentsBlocked(s) <=> \/ \E kind \in DependentKinds : HasPending(s, kind)
                                     \/ s.pastePhase.kind = "Admitting"
         /\ Shape(s) => (PendingEmpty(s) <=> \A kind \in ActionKinds : ~HasPending(s, kind))
         /\ Shape(s) => \A i \in Slots : s.pending[i] # None => s.pending[i].kind \in ActionKinds
<1>1. DependentsBlocked(s) <=> \/ \E kind \in DependentKinds : HasPending(s, kind)
                               \/ s.pastePhase.kind = "Admitting"
  BY DEF DependentsBlocked, HasPending
<1>3. Shape(s) => \A i \in Slots : s.pending[i] # None => s.pending[i].kind \in ActionKinds
  BY DEF Shape, Action
<1>2. Shape(s) => (PendingEmpty(s) <=> \A kind \in ActionKinds : ~HasPending(s, kind))
  BY <1>3 DEF Shape, PendingEmpty, HasPending
<1> QED
  BY <1>1, <1>2, <1>3

\* States that are alike are tidy together.
LEMMA AlikeTidy ==
  ASSUME NEW s, NEW t, Shape(t), Resembles(s, t)
  PROVE  /\ Tokened(s) => Tokened(t)
         /\ Tidy(s) => Tidy(t)
         /\ Alike(s, t) /\ Planned(s) => Planned(t)
         /\ Alike(s, t) /\ Settled(s) => Settled(t)
<1>1. /\ \A kind : HasPending(t, kind) <=> HasPending(s, kind)
      /\ OneOfAClass(t) <=> OneOfAClass(s)
      /\ AdmissionPends(t) <=> AdmissionPends(s)
      /\ DependentsBlocked(t) <=> DependentsBlocked(s)
  BY TokensAlike DEF Resembles
<1>2. /\ PoisonStops(s) => PoisonStops(t)
      /\ DoubtIsUnknown(s) => DoubtIsUnknown(t)
      /\ CloseUnderway(s) => CloseUnderway(t)
      /\ CandidateIsPlanned(s) => CandidateIsPlanned(t)
      /\ PlanContinues(s) => PlanContinues(t)
      /\ Alike(s, t) /\ OpeningIsClear(s) => OpeningIsClear(t)
  BY <1>1 DEF Alike, Resembles, PoisonStops, DoubtIsUnknown, CloseUnderway, CandidateIsPlanned,
     PlanContinues, OpeningIsClear
<1>3. Orderly(s) => Orderly(t)
  <2>1. /\ WorkWaitsForGate(s) => WorkWaitsForGate(t)
        /\ AppliedWithoutCandidate(s) => AppliedWithoutCandidate(t)
    BY <1>1 DEF Resembles, WorkWaitsForGate, AppliedWithoutCandidate
  <2>2. /\ PasteRecords(s) => PasteRecords(t)
        /\ CancellationUnderway(s) => CancellationUnderway(t)
        /\ PersistIsLast(s) => PersistIsLast(t)
        /\ SealCancelsPaste(s) => SealCancelsPaste(t)
    BY <1>1 DEF Resembles, PasteRecords, CancellationUnderway, PersistIsLast, SealCancelsPaste
  <2>3. /\ StoppedIsDrained(s) => StoppedIsDrained(t)
        /\ NeutralStays(s) => NeutralStays(t)
    BY <1>1 DEF Resembles, StoppedIsDrained, NeutralStays
  <2> QED
    BY <1>1, <2>1, <2>2, <2>3 DEF Orderly
<1>4. t.unknown = s.unknown
  BY DEF Resembles
<1> QED
  BY <1>1, <1>2, <1>3, <1>4 DEF Tokened, Tidy, Planned, Settled

\* From s to t only the table of tokens changes.
Elsewhere(s, t) ==
  /\ t.controller = s.controller /\ t.ownership = s.ownership /\ t.pastePhase = s.pastePhase
  /\ t.exit = s.exit /\ t.admission = s.admission
  /\ t.emergency = s.emergency /\ t.closePlan = s.closePlan /\ t.plan = s.plan
  /\ t.poisoned = s.poisoned /\ t.unknown = s.unknown
  /\ t.maintenance = s.maintenance /\ t.predecessor = s.predecessor

\* From s to t nobody becomes a lease holder that a predecessor keeps waiting,
\* and no predecessor comes or goes.
SameAuthority(s, t) ==
  t.predecessor = s.predecessor /\ (IsCapture(t) => IsCapture(s) \/ s.predecessor = None)

\* Nobody becomes a lease holder in a chain of calls in none of which anybody does.
LEMMA SameAuthorityComposes ==
  /\ \A s : SameAuthority(s, s)
  /\ \A s, t, u : SameAuthority(s, t) /\ SameAuthority(t, u) => SameAuthority(s, u)
  /\ \A s, t : SameAuthority(s, t) /\ SuccessorWaits(s) => SuccessorWaits(t)
  /\ \A s, t : Resembles(s, t) => SameAuthority(s, t)
  /\ \A s, t : Elsewhere(s, t) => SameAuthority(s, t)
BY DEF SameAuthority, SuccessorWaits, Resembles, Elsewhere, IsCapture

\* Taking a token leaves none of its kind.
LEMMA TakeTokens ==
  ASSUME NEW s, Shape(s), OneOfAClass(s), NEW slot \in Slots, s.pending[slot] # None
  PROVE  /\ Shape(Take(s, slot)) /\ OneOfAClass(Take(s, slot))
         /\ Elsewhere(s, Take(s, slot))
         /\ \A kind : HasPending(Take(s, slot), kind) <=>
                        HasPending(s, kind) /\ kind # s.pending[slot].kind
         /\ OpenIsWanted(s) => OpenIsWanted(Take(s, slot))
<1> DEFINE t == Take(s, slot)
<1>1. Elsewhere(s, t) /\ WorkFields \subseteq DOMAIN t
  BY DEF Take, Shape, WorkFields, Elsewhere
<1>2. /\ DOMAIN t.pending = Slots
      /\ t.pending[slot] = None
      /\ \A i \in Slots \ {slot} : t.pending[i] = s.pending[i]
  BY DEF Take, Shape, WorkFields
<1> HIDE DEF t
<1>3. Shape(t)
  BY <1>1, <1>2 DEF Shape, Elsewhere
<1>4. OneOfAClass(t)
  BY <1>2 DEF OneOfAClass
<1>5. \A kind : HasPending(t, kind) <=> HasPending(s, kind) /\ kind # s.pending[slot].kind
  BY <1>2 DEF HasPending, OneOfAClass
<1>6. OpenIsWanted(s) => OpenIsWanted(t)
  BY <1>2 DEF OpenIsWanted, HasKind
<1> QED
  BY <1>1, <1>3, <1>4, <1>5, <1>6 DEF t

\* A token that is put into a free slot, none of its class being pending.
LEMMA PutToken ==
  ASSUME NEW s, Shape(s), OneOfAClass(s), NEW slot \in Slots, s.pending[slot] = None,
         NEW a \in Action,
         \A kind \in ActionKinds : ClassOf(kind) = ClassOf(a.kind) => ~HasPending(s, kind)
  PROVE  LET t == [s EXCEPT !.pending[slot] = a]
         IN  /\ Shape(t) /\ OneOfAClass(t) /\ Elsewhere(s, t)
             /\ \A kind : HasPending(t, kind) <=> HasPending(s, kind) \/ kind = a.kind
             /\ AdmissionPends(s) => AdmissionPends(t)
             /\ OpenIsWanted(s) /\ ~a.superseded => OpenIsWanted(t)
             /\ HasKind(t.pending[slot], a.kind) /\ t.pending[slot].arg = a.arg
<1> DEFINE t == [s EXCEPT !.pending[slot] = a]
<1>1. Elsewhere(s, t) /\ WorkFields \subseteq DOMAIN t
  BY DEF Shape, WorkFields, Elsewhere
<1>2. /\ DOMAIN t.pending = Slots
      /\ t.pending[slot] = a
      /\ \A i \in Slots \ {slot} : t.pending[i] = s.pending[i]
  BY DEF Shape, WorkFields
<1> HIDE DEF t
<1>3. a # None /\ a.kind \in ActionKinds
  BY OptionAssumption DEF Action
<1>4. Shape(t)
  BY <1>1, <1>2, <1>3 DEF Shape, Elsewhere
<1>5. OneOfAClass(t)
  <2>1. \A i \in Slots \ {slot} : t.pending[i] # None =>
          ClassOf(t.pending[i].kind) # ClassOf(a.kind)
    BY <1>2, BlockedByKind DEF HasPending
  <2> QED
    BY <1>2, <2>1 DEF OneOfAClass
<1>6. \A kind : HasPending(t, kind) <=> HasPending(s, kind) \/ kind = a.kind
  BY <1>2, <1>3 DEF HasPending
<1>7. AdmissionPends(s) => AdmissionPends(t)
  <2> SUFFICES ASSUME AdmissionPends(s), s.pastePhase.kind = "Admitting" PROVE AdmissionPends(t)
    BY <1>1 DEF AdmissionPends, Elsewhere
  <2>1. PICK i \in Slots : HasKind(s.pending[i], "AdmitPaste") /\ s.pending[i].arg = s.pastePhase.auth
    BY DEF AdmissionPends
  <2>2. i # slot
    BY <2>1 DEF HasKind
  <2> QED
    BY <1>1, <1>2, <2>1, <2>2 DEF AdmissionPends, Elsewhere
<1>8. OpenIsWanted(s) /\ ~a.superseded => OpenIsWanted(t)
  BY <1>2 DEF OpenIsWanted, HasKind
<1> QED
  BY <1>1, <1>2, <1>3, <1>4, <1>5, <1>6, <1>7, <1>8 DEF t, HasKind

\* Updates of what the work behind the gate does not depend on, or only its
\* types.
LEMMA AlikeUpdates ==
  ASSUME NEW s, Shape(s)
  PROVE  /\ Shape(DemoteCapture(s)) /\ Alike(s, DemoteCapture(s))
         /\ Shape(InvalidateReconciliation(s)) /\ Alike(s, InvalidateReconciliation(s))
         /\ \A kinds : Shape(Supersede(s, kinds)) /\ Resembles(s, Supersede(s, kinds))
         /\ \A kinds : "Open" \notin kinds => Alike(s, Supersede(s, kinds))
         /\ Shape(s) /\ Alike(s, s)
<1>1. Shape(DemoteCapture(s)) /\ Alike(s, DemoteCapture(s))
  BY DEF Shape, WorkFields, Alike, Resembles, SameTokens, OpenIsWanted, DemoteCapture, IsCapture,
     CaptureKinds
<1>2. Shape(InvalidateReconciliation(s)) /\ Alike(s, InvalidateReconciliation(s))
  BY DEF Shape, WorkFields, Alike, Resembles, SameTokens, OpenIsWanted, InvalidateReconciliation,
     IsCapture
<1>3. ASSUME NEW kinds
      PROVE  /\ Shape(Supersede(s, kinds)) /\ Resembles(s, Supersede(s, kinds))
             /\ "Open" \notin kinds => Alike(s, Supersede(s, kinds))
  <2> DEFINE t == Supersede(s, kinds)
  <2>1. Elsewhere(s, t) /\ WorkFields \subseteq DOMAIN t
    BY DEF Supersede, Shape, WorkFields, Elsewhere
  <2>2. /\ DOMAIN t.pending = Slots
        /\ \A i \in Slots :
             t.pending[i] = IF s.pending[i] # None /\ s.pending[i].kind \in kinds
                            THEN [s.pending[i] EXCEPT !.superseded = TRUE]
                            ELSE s.pending[i]
    BY DEF Supersede, Shape, WorkFields
  <2> HIDE DEF t
  <2>3. ASSUME NEW a \in Action
        PROVE  /\ [a EXCEPT !.superseded = TRUE] \in Action
               /\ [a EXCEPT !.superseded = TRUE].kind = a.kind
               /\ [a EXCEPT !.superseded = TRUE].arg = a.arg
    BY DEF Action
  <2>4. ASSUME NEW i \in Slots
        PROVE  /\ t.pending[i] = None <=> s.pending[i] = None
               /\ s.pending[i] # None => /\ t.pending[i].kind = s.pending[i].kind
                                         /\ t.pending[i].arg = s.pending[i].arg
               /\ t.pending[i] \in Action \cup {None}
    <3>1. s.pending[i] \in Action \cup {None}
      BY DEF Shape
    <3>2. CASE s.pending[i] # None /\ s.pending[i].kind \in kinds
      <4> DEFINE a == s.pending[i]
      <4>1. a \in Action /\ t.pending[i] = [a EXCEPT !.superseded = TRUE]
        BY <2>2, <3>1, <3>2
      <4> HIDE DEF a
      <4> QED
        BY <2>3, <4>1, OptionAssumption DEF a
    <3>3. CASE ~(s.pending[i] # None /\ s.pending[i].kind \in kinds)
      <4>1. t.pending[i] = s.pending[i]
        BY <2>2, <3>3
      <4> QED
        BY <3>1, <4>1
    <3> QED
      BY <3>2, <3>3
  <2>5. Shape(t)
    BY <2>1, <2>2, <2>4 DEF Shape, Elsewhere
  <2>6. Resembles(s, t)
    BY <2>1, <2>4 DEF Resembles, SameTokens, Elsewhere, IsCapture
  <2>7. "Open" \notin kinds /\ OpenIsWanted(s) => OpenIsWanted(t)
    <3> SUFFICES ASSUME "Open" \notin kinds, OpenIsWanted(s),
                        NEW i \in Slots, HasKind(t.pending[i], "Open")
                 PROVE  ~t.pending[i].superseded
      BY DEF OpenIsWanted
    <3>1. HasKind(s.pending[i], "Open")
      BY <2>4 DEF HasKind
    <3>2. t.pending[i] = s.pending[i]
      BY <2>2, <3>1 DEF HasKind
    <3> QED
      BY <3>1, <3>2 DEF OpenIsWanted
  <2> QED
    BY <2>5, <2>6, <2>7 DEF Alike, t
<1> QED
  BY <1>1, <1>2, <1>3 DEF Alike, Resembles, SameTokens

\* Between s and t a paste that is not claimed is given up, and nothing else.
GivesUpPaste(s, t) ==
  /\ SameTokens(s, t) /\ (OpenIsWanted(s) => OpenIsWanted(t))
  /\ t.admission = s.admission /\ t.closePlan = s.closePlan
  /\ t.emergency = s.emergency /\ t.poisoned = s.poisoned /\ t.unknown = s.unknown
  /\ t.predecessor = s.predecessor /\ t.controller = s.controller
  /\ t.maintenance = s.maintenance /\ t.exit = s.exit
  /\ \A f \in {"candidate", "drain", "cleanup", "conservative", "effects"} :
       t.ownership[f] = s.ownership[f]
  /\ \A f \in {"candidate", "config", "persist", "drain"} : t.plan[f] = s.plan[f]
  /\ t.pastePhase.auth = s.pastePhase.auth
  /\ \/ /\ t.pastePhase.kind = s.pastePhase.kind /\ t.plan = s.plan /\ t.ownership = s.ownership
        /\ ~s.unknown /\ ~s.poisoned => t.pastePhase.kind # "Waiting"
        /\ \/ t.pastePhase.cancel
           \/ t.pastePhase = s.pastePhase /\ (s.pastePhase.kind = "Admitting" => s.unknown \/ s.poisoned)
     \/ /\ ~s.unknown /\ ~s.poisoned
        /\ s.pastePhase.kind = "Waiting" /\ t.pastePhase.kind = "Cancelling"
        /\ t.ownership.paste = "Cancelling" /\ t.plan.paste

\* Cancelling an unclaimed paste gives it up.
LEMMA CancelUnclaimedFields ==
  ASSUME NEW s, Shape(s)
  PROVE  Shape(CancelUnclaimedPaste(s)) /\ GivesUpPaste(s, CancelUnclaimedPaste(s))
<1> DEFINE t == CancelUnclaimedPaste(s)
<1>1. CASE s.unknown \/ s.poisoned
  <2>1. t = s
    BY <1>1 DEF CancelUnclaimedPaste
  <2> QED
    BY <1>1, <2>1 DEF GivesUpPaste, SameTokens
<1>2. CASE ~(s.unknown \/ s.poisoned) /\ s.pastePhase.kind = "Admitting"
  <2> DEFINE revoked == [s EXCEPT !.pastePhase.cancel = TRUE]
  <2>1. t = Supersede(revoked, {"AdmitPaste"})
    BY <1>2 DEF CancelUnclaimedPaste
  <2>2. /\ Shape(revoked)
        /\ revoked.pending = s.pending
        /\ revoked.admission = s.admission /\ revoked.closePlan = s.closePlan
        /\ revoked.emergency = s.emergency /\ revoked.poisoned = s.poisoned
        /\ revoked.unknown = s.unknown
        /\ revoked.predecessor = s.predecessor /\ revoked.controller = s.controller
        /\ revoked.maintenance = s.maintenance /\ revoked.exit = s.exit
        /\ revoked.ownership = s.ownership /\ revoked.plan = s.plan
        /\ revoked.pastePhase.auth = s.pastePhase.auth
        /\ revoked.pastePhase.kind = s.pastePhase.kind
        /\ revoked.pastePhase.cancel
    BY DEF Shape, WorkFields
  <2> HIDE DEF revoked, t
  <2>3. Shape(t) /\ Resembles(revoked, t) /\ (OpenIsWanted(revoked) => OpenIsWanted(t))
    BY <2>1, <2>2, AlikeUpdates DEF Alike
  <2>4. t.controller = revoked.controller /\ t.maintenance = revoked.maintenance
        /\ t.exit = revoked.exit
    BY <2>1, <2>2 DEF Supersede, Shape, WorkFields
  <2> QED
    BY <1>2, <2>2, <2>3, <2>4 DEF GivesUpPaste, Resembles, SameTokens, OpenIsWanted, t
<1>3. CASE ~(s.unknown \/ s.poisoned) /\ s.pastePhase.kind = "Waiting"
  <2>1. t = [s EXCEPT !.pastePhase.kind = "Cancelling",
                      !.ownership.paste = "Cancelling",
                      !.plan.paste      = TRUE]
    BY <1>3 DEF CancelUnclaimedPaste
  <2> HIDE DEF t
  <2>2. Shape(t)
    BY <1>3, <2>1 DEF Shape, WorkFields
  <2>3. GivesUpPaste(s, t)
    BY <1>3, <2>1 DEF Shape, WorkFields, GivesUpPaste, SameTokens, OpenIsWanted
  <2> QED
    BY <2>2, <2>3 DEF t
<1>4. CASE ~(s.unknown \/ s.poisoned) /\ s.pastePhase.kind \notin {"Admitting", "Waiting"}
  <2>1. t = s
    BY <1>4 DEF CancelUnclaimedPaste
  <2> QED
    BY <1>4, <2>1 DEF GivesUpPaste, SameTokens
<1> QED
  BY <1>1, <1>2, <1>3, <1>4

\* Giving an unclaimed paste up leaves everything tidy; only the plan has a
\* step more.
LEMMA GivesUpTidy ==
  ASSUME NEW s, NEW t, Shape(t), GivesUpPaste(s, t)
  PROVE  /\ Tokened(s) => Tokened(t)
         /\ Tidy(s) => Tidy(t)
         /\ Planned(s) => Planned(t)
         /\ SameAuthority(s, t)
<1>1. /\ \A kind : HasPending(t, kind) <=> HasPending(s, kind)
      /\ OneOfAClass(t) <=> OneOfAClass(s)
  BY TokensAlike DEF GivesUpPaste
<1>2. /\ PoisonStops(s) => PoisonStops(t)
      /\ DoubtIsUnknown(s) => DoubtIsUnknown(t)
      /\ CloseUnderway(s) => CloseUnderway(t)
      /\ CandidateIsPlanned(s) => CandidateIsPlanned(t)
      /\ OpeningIsClear(s) => OpeningIsClear(t)
  BY <1>1 DEF GivesUpPaste, PoisonStops, DoubtIsUnknown, CloseUnderway, CandidateIsPlanned,
     OpeningIsClear
<1>3. NativeNeutral(s.ownership) /\ s.pastePhase.kind = "None" => t.ownership = s.ownership
  BY DEF GivesUpPaste
<1>4. DoubtIsUnknown(s) /\ ~s.unknown /\ Orderly(s) => Orderly(t)
  <2> SUFFICES ASSUME DoubtIsUnknown(s), ~s.unknown, Orderly(s) PROVE Orderly(t)
    OBVIOUS
  <2>1. WorkWaitsForGate(t) /\ AppliedWithoutCandidate(t)
    BY <1>1 DEF Orderly, GivesUpPaste, WorkWaitsForGate, AppliedWithoutCandidate
  <2>2. PasteRecords(t) /\ CancellationUnderway(t) /\ PersistIsLast(t) /\ SealCancelsPaste(t)
    BY <1>1 DEF Orderly, GivesUpPaste, PasteRecords, CancellationUnderway, PersistIsLast,
                SealCancelsPaste
  <2>3. AdmissionPends(t)
    BY DEF Orderly, GivesUpPaste, AdmissionPends, SameTokens, HasKind
  <2>4. StoppedIsDrained(t) /\ NeutralStays(t)
    BY <1>1, <1>3 DEF Orderly, GivesUpPaste, StoppedIsDrained, NeutralStays, IsCapture
  <2> QED
    BY <2>1, <2>2, <2>3, <2>4 DEF Orderly
<1>5. SameAuthority(s, t)
  BY DEF GivesUpPaste, SameAuthority, IsCapture
<1>6. t.unknown = s.unknown
  BY DEF GivesUpPaste
<1> QED
  BY <1>1, <1>2, <1>4, <1>5, <1>6 DEF Tokened, Tidy, Planned

\* Degrading leaves native state unknown, and no doubt about the tokens.
LEMMA DegradeTidy ==
  ASSUME NEW s, Tokened(s)
  PROVE  /\ Tidy(Degrade(s)) /\ Degrade(s).unknown
         /\ Degrade(s).admission = IF s.admission = "Closed" THEN "Closed" ELSE "Unknown"
         /\ Degrade(s).poisoned = s.poisoned /\ Degrade(s).emergency = s.emergency
         /\ SameTokens(s, Degrade(s))
         /\ SameAuthority(s, Degrade(s))
<1> DEFINE demoted   == DemoteCapture(s)
           cancelled == CancelUnclaimedPaste(demoted)
           degraded  == Degrade(s)
           m == IF cancelled.maintenance.phase \in {"Sealing", "Persisting"}
                THEN Settle(cancelled.maintenance, "SealedFailed")
                ELSE cancelled.maintenance
<1>1. Shape(s)
  BY DEF Tokened
<1>2. Tokened(demoted) /\ Alike(s, demoted) /\ SameAuthority(s, demoted)
  BY <1>1, AlikeUpdates, AlikeTidy, SameAuthorityComposes DEF Alike
<1>3. Tokened(cancelled) /\ GivesUpPaste(demoted, cancelled) /\ SameAuthority(s, cancelled)
  <2> HIDE DEF demoted
  <2>1. Shape(demoted)
    BY <1>2 DEF Tokened
  <2>2. Shape(cancelled) /\ GivesUpPaste(demoted, cancelled)
    BY <2>1, CancelUnclaimedFields
  <2> HIDE DEF cancelled
  <2> QED
    BY <1>2, <2>2, GivesUpTidy, SameAuthorityComposes
<1>4. degraded = [cancelled EXCEPT
                      !.health      = "Degraded",
                      !.unknown     = TRUE,
                      !.unavailable = "OwnershipUnknown",
                      !.maintenance = m,
                      !.admission   = IF cancelled.admission = "Closed"
                                      THEN cancelled.admission ELSE "Unknown"]
  BY DEF degraded, Degrade, cancelled
<1> HIDE DEF demoted, cancelled, degraded
<1>5. /\ {"phase", "request"} \subseteq DOMAIN m
      /\ m.phase # "None" => m.request \in Requests
  BY <1>3 DEF Tokened, Shape, Settle
<1> HIDE DEF m
<1>6. /\ Shape(degraded)
      /\ degraded.unknown
      /\ degraded.admission = IF cancelled.admission = "Closed" THEN "Closed" ELSE "Unknown"
      /\ degraded.poisoned = cancelled.poisoned /\ degraded.emergency = cancelled.emergency
      /\ degraded.plan = cancelled.plan
      /\ degraded.pending = cancelled.pending
      /\ SameAuthority(cancelled, degraded)
  BY <1>3, <1>4, <1>5 DEF Tokened, Shape, WorkFields, SameAuthority, IsCapture
<1>7. /\ cancelled.admission = s.admission /\ cancelled.poisoned = s.poisoned
      /\ cancelled.emergency = s.emergency
      /\ SameTokens(s, degraded) /\ SameTokens(cancelled, degraded)
  BY <1>2, <1>3, <1>6 DEF Alike, Resembles, GivesUpPaste, SameTokens
<1>8. Tokened(degraded)
  BY <1>3, <1>6, <1>7, TokensAlike DEF Tokened, PoisonStops
<1>9. Tidy(degraded)
  BY <1>6, <1>8 DEF Tidy, DoubtIsUnknown
<1>10. SameAuthority(s, degraded)
  BY <1>3, <1>6, SameAuthorityComposes
<1> QED
  BY <1>6, <1>7, <1>9, <1>10 DEF degraded

\* When no token can be allocated a close is under way, if need be without
\* one.
LEMMA AllocationErrorSettled ==
  ASSUME NEW s, Tokened(s)
  PROVE  /\ Settled(AllocationError(s)) /\ AllocationError(s).unknown
         /\ AllocationError(s).admission = IF s.admission = "Closed" THEN "Closed" ELSE "Unknown"
         /\ SameAuthority(s, AllocationError(s))
<1> DEFINE degraded == Degrade(s)
           t == AllocationError(s)
           needs == s.admission # "Closed" /\ ~HasPending(s, "Close") /\ ~s.emergency
<1>1. t = [degraded EXCEPT !.emergency = degraded.emergency \/ needs]
  BY DEF AllocationError
<1> HIDE DEF t, degraded
<1>2. /\ Tidy(degraded) /\ degraded.unknown
      /\ degraded.admission = IF s.admission = "Closed" THEN "Closed" ELSE "Unknown"
      /\ degraded.poisoned = s.poisoned /\ degraded.emergency = s.emergency
      /\ SameTokens(s, degraded)
      /\ SameAuthority(s, degraded)
  BY DegradeTidy DEF degraded
<1>3. /\ Shape(t)
      /\ t.emergency = (s.emergency \/ needs)
      /\ t.unknown /\ t.admission = degraded.admission /\ t.poisoned = degraded.poisoned
      /\ t.plan = degraded.plan
      /\ t.pending = degraded.pending
      /\ SameAuthority(degraded, t)
  BY <1>1, <1>2 DEF Tidy, Tokened, Shape, WorkFields, SameAuthority, IsCapture
<1>4. SameTokens(s, t) /\ SameTokens(degraded, t)
  BY <1>2, <1>3 DEF SameTokens
<1>5. Tidy(t)
  BY <1>2, <1>3, <1>4, TokensAlike DEF Tidy, Tokened, PoisonStops, DoubtIsUnknown
<1>6. CloseUnderway(t)
  BY <1>2, <1>3, <1>4, TokensAlike DEF CloseUnderway
<1>7. SameAuthority(s, t)
  BY <1>2, <1>3, SameAuthorityComposes
<1> QED
  BY <1>2, <1>3, <1>5, <1>6, <1>7 DEF Planned, Settled, t

\* A token is issued into a free slot, or else a close is under way.
LEMMA IssueOutcome ==
  ASSUME NEW s, Tokened(s), NEW kind, NEW arg, NEW config,
         [kind |-> kind, arg |-> arg, config |-> config, superseded |-> FALSE] \in Action,
         \A k \in ActionKinds : ClassOf(k) = ClassOf(kind) => ~HasPending(s, k),
         kind \in DependentKinds => ~s.poisoned
  PROVE  LET t == Issue(s, kind, arg, config)
         IN  \/ /\ Allocatable(s) /\ Tokened(t) /\ Elsewhere(s, t)
                /\ \A k : HasPending(t, k) <=> HasPending(s, k) \/ k = kind
                /\ AdmissionPends(s) => AdmissionPends(t)
                /\ OpenIsWanted(s) => OpenIsWanted(t)
                /\ \E i \in Slots : HasKind(t.pending[i], kind) /\ t.pending[i].arg = arg
             \/ /\ ~Allocatable(s) /\ Settled(t) /\ t.unknown
                /\ t.admission = IF s.admission = "Closed" THEN "Closed" ELSE "Unknown"
                /\ SameAuthority(s, t)
<1> DEFINE a == [kind |-> kind, arg |-> arg, config |-> config, superseded |-> FALSE]
           slot == CHOOSE i \in Slots : s.pending[i] = None
           t == Issue(s, kind, arg, config)
           u == [s EXCEPT !.pending[slot] = a]
<1>1. CASE Allocatable(s)
  <2>1. slot \in Slots /\ s.pending[slot] = None /\ t = u
    BY <1>1 DEF Allocatable, Issue
  <2>2. a \in Action /\ a.kind = kind /\ a.arg = arg /\ ~a.superseded
    OBVIOUS
  <2> HIDE DEF slot, a, t
  <2>3. /\ Shape(u) /\ OneOfAClass(u) /\ Elsewhere(s, u)
        /\ \A k : HasPending(u, k) <=> HasPending(s, k) \/ k = a.kind
        /\ AdmissionPends(s) => AdmissionPends(u)
        /\ OpenIsWanted(s) => OpenIsWanted(u)
        /\ HasKind(u.pending[slot], a.kind) /\ u.pending[slot].arg = a.arg
    BY <2>1, <2>2, PutToken DEF Tokened
  <2> HIDE DEF u
  <2>4. PoisonStops(u)
    BY <2>2, <2>3 DEF Tokened, PoisonStops, Elsewhere
  <2> QED
    BY <1>1, <2>1, <2>2, <2>3, <2>4 DEF Tokened, t
<1>2. CASE ~Allocatable(s)
  <2>1. t = AllocationError(s)
    BY <1>2 DEF Issue
  <2> QED
    BY <1>2, <2>1, AllocationErrorSettled
<1> QED
  BY <1>1, <1>2

\* What a call that plans or dispatches leaves of its ground.
Onward(s, t) ==
  SameAuthority(s, t) /\ (s.admission = "Closed" => t.admission = "Closed")

\* Standing where one stood, or moving on twice, is to move on.
LEMMA OnwardComposes ==
  /\ \A s : Onward(s, s)
  /\ \A s, t, u : Onward(s, t) /\ Onward(t, u) => Onward(s, u)
BY SameAuthorityComposes DEF Onward

\* The candidate is cancelled first.
LEMMA CancelCandidateNextSettled ==
  ASSUME NEW s, Planned(s), ~s.poisoned, ~DependentsBlocked(s), s.plan.candidate
  PROVE  Settled(CancelCandidateNext(s)) /\ Onward(s, CancelCandidateNext(s))
<1> DEFINE u == [s EXCEPT !.plan.candidate = FALSE, !.ownership.candidate = "Cancelling"]
           t == CancelCandidateNext(s)
<1>1. t = Issue(u, "CancelCandidate", None, None)
  BY DEF CancelCandidateNext
<1>2. \A kind \in DependentKinds : ~HasPending(s, kind)
  BY BlockedByKind
<1>3. /\ Shape(u)
      /\ u.pending = s.pending /\ u.admission = s.admission
      /\ u.pastePhase = s.pastePhase /\ u.closePlan = s.closePlan
      /\ u.emergency = s.emergency /\ u.poisoned = s.poisoned /\ u.unknown = s.unknown
      /\ u.predecessor = s.predecessor /\ u.controller = s.controller
      /\ u.maintenance = s.maintenance /\ u.exit = s.exit
      /\ u.ownership.candidate = "Cancelling" /\ ~u.plan.candidate
      /\ u.ownership.paste = s.ownership.paste
      /\ \A f \in {"paste", "config", "persist"} : u.plan[f] = s.plan[f]
  BY DEF Planned, Tidy, Tokened, Shape, WorkFields
<1> HIDE DEF u, t
<1>4. SameTokens(s, u) /\ SameAuthority(s, u)
  BY <1>3 DEF SameTokens, SameAuthority, IsCapture
<1>5. Tokened(u) /\ \A kind : HasPending(u, kind) <=> HasPending(s, kind)
  BY <1>3, <1>4, TokensAlike DEF Planned, Tidy, Tokened, PoisonStops
<1>6. [kind |-> "CancelCandidate", arg |-> None, config |-> None, superseded |-> FALSE] \in Action
  BY ActionTypes
<1>7. \A k \in ActionKinds : ClassOf(k) = ClassOf("CancelCandidate") => ~HasPending(u, k)
  BY <1>2, <1>5, Kinds
<1>8. \/ /\ Tokened(t) /\ Elsewhere(u, t)
         /\ \A k : HasPending(t, k) <=> HasPending(u, k) \/ k = "CancelCandidate"
         /\ AdmissionPends(u) => AdmissionPends(t)
      \/ /\ Settled(t) /\ t.unknown
         /\ t.admission = IF u.admission = "Closed" THEN "Closed" ELSE "Unknown"
         /\ SameAuthority(u, t)
  BY <1>1, <1>3, <1>5, <1>6, <1>7, IssueOutcome DEF Planned, Tidy
<1>9. CASE /\ Tokened(t) /\ Elsewhere(u, t)
           /\ \A k : HasPending(t, k) <=> HasPending(u, k) \/ k = "CancelCandidate"
           /\ AdmissionPends(u) => AdmissionPends(t)
  <2>1. DoubtIsUnknown(t) /\ CloseUnderway(t)
    BY <1>3, <1>5, <1>9 DEF Elsewhere, Planned, Tidy, DoubtIsUnknown, CloseUnderway
  <2>2. ASSUME ~t.unknown PROVE Orderly(t) /\ OpeningIsClear(t) /\ CandidateIsPlanned(t) /\ PlanContinues(t)
    <3>1. ~s.unknown /\ Orderly(s)
      BY <1>3, <1>9, <2>2 DEF Elsewhere, Planned, Tidy
    <3>2. s.admission = "Closed" /\ s.exit = "Running"
      BY <3>1 DEF Orderly, WorkWaitsForGate, StoppedIsDrained, NoDependents
    <3>3. /\ WorkWaitsForGate(t) /\ OpeningIsClear(t) /\ AppliedWithoutCandidate(t)
          /\ CandidateIsPlanned(t)
      BY <1>3, <1>9, <3>2 DEF Elsewhere, WorkWaitsForGate, OpeningIsClear,
         AppliedWithoutCandidate, CandidateIsPlanned
    <3>4. PasteRecords(t) /\ CancellationUnderway(t) /\ PersistIsLast(t) /\ SealCancelsPaste(t)
      BY <1>2, <1>3, <1>5, <1>9, <3>1, Kinds DEF Orderly, Elsewhere, PasteRecords,
         CancellationUnderway, PersistIsLast, SealCancelsPaste
    <3>5. AdmissionPends(t)
      BY <1>3, <1>4, <1>9, <3>1, TokensAlike DEF Orderly
    <3>6. StoppedIsDrained(t) /\ NeutralStays(t)
      BY <1>3, <1>9, <3>1, <3>2 DEF Orderly, Elsewhere, StoppedIsDrained, NeutralStays
    <3>7. PlanContinues(t)
      BY <1>9, BlockedByKind, Kinds DEF PlanContinues
    <3> QED
      BY <3>3, <3>4, <3>5, <3>6, <3>7 DEF Orderly
  <2>3. Onward(s, t)
    BY <1>3, <1>4, <1>9, SameAuthorityComposes DEF Onward, Elsewhere
  <2> QED
    BY <1>9, <2>1, <2>2, <2>3 DEF Settled, Planned, Tidy, t
<1>10. CASE /\ Settled(t) /\ t.unknown
            /\ t.admission = IF u.admission = "Closed" THEN "Closed" ELSE "Unknown"
            /\ SameAuthority(u, t)
  BY <1>3, <1>4, <1>10, SameAuthorityComposes DEF Onward, t
<1> QED
  BY <1>8, <1>9, <1>10

\* Then the paste.
LEMMA CancelPasteNextSettled ==
  ASSUME NEW s, Planned(s), ~s.poisoned, ~DependentsBlocked(s), ~s.plan.candidate, s.plan.paste
  PROVE  /\ \/ Settled(CancelPasteNext(s))
            \/ s.pastePhase.auth = None /\ ~s.unknown /\ Tokened(CancelPasteNext(s))
         /\ Onward(s, CancelPasteNext(s))
<1>1. CASE s.pastePhase.auth = None
  <2> DEFINE t == [s EXCEPT !.plan.paste = FALSE]
  <2>1. CancelPasteNext(s) = t
    BY <1>1 DEF CancelPasteNext
  <2>2. /\ Shape(t) /\ t.pending = s.pending
        /\ t.poisoned = s.poisoned /\ t.admission = s.admission
        /\ t.unknown = s.unknown /\ t.emergency = s.emergency
        /\ t.predecessor = s.predecessor /\ t.controller = s.controller
    BY DEF Planned, Tidy, Tokened, Shape, WorkFields
  <2> HIDE DEF t
  <2>3. SameTokens(s, t) /\ Onward(s, t)
    BY <2>2 DEF SameTokens, Onward, SameAuthority, IsCapture
  <2>4. Tokened(t)
    BY <2>2, <2>3, TokensAlike DEF Planned, Tidy, Tokened, PoisonStops
  <2>5. s.unknown => Settled(t)
    BY <2>2, <2>3, <2>4, TokensAlike
    DEF Settled, Planned, Tidy, DoubtIsUnknown, CloseUnderway
  <2> QED
    BY <1>1, <2>1, <2>3, <2>4, <2>5
<1>2. CASE s.pastePhase.auth # None
  <2> DEFINE u == [s EXCEPT !.plan.paste      = FALSE,
                            !.pastePhase.kind = "Cancelling",
                            !.ownership.paste = "Cancelling"]
             t == CancelPasteNext(s)
  <2>1. t = Issue(u, "CancelPaste", s.pastePhase.auth, None)
    BY <1>2 DEF CancelPasteNext
  <2>2. /\ \A kind \in DependentKinds : ~HasPending(s, kind)
        /\ s.pastePhase.kind # "Admitting"
        /\ s.pastePhase.auth \in Pastes
    BY <1>2, BlockedByKind DEF Planned, Tidy, Tokened, Shape
  <2>3. /\ Shape(u)
        /\ u.pending = s.pending /\ u.admission = s.admission
        /\ u.pastePhase.kind = "Cancelling" /\ u.closePlan = s.closePlan
        /\ u.emergency = s.emergency /\ u.poisoned = s.poisoned /\ u.unknown = s.unknown
        /\ u.predecessor = s.predecessor /\ u.controller = s.controller
        /\ u.maintenance = s.maintenance /\ u.exit = s.exit
        /\ u.ownership.candidate = s.ownership.candidate /\ ~u.plan.paste
        /\ u.ownership.paste = "Cancelling"
        /\ \A f \in {"candidate", "config", "persist"} : u.plan[f] = s.plan[f]
    BY <1>2 DEF Planned, Tidy, Tokened, Shape, WorkFields
  <2> HIDE DEF u, t
  <2>4. SameTokens(s, u) /\ SameAuthority(s, u)
    BY <2>3 DEF SameTokens, SameAuthority, IsCapture
  <2>5. Tokened(u) /\ \A kind : HasPending(u, kind) <=> HasPending(s, kind)
    BY <2>3, <2>4, TokensAlike DEF Planned, Tidy, Tokened, PoisonStops
  <2>6. [kind |-> "CancelPaste", arg |-> s.pastePhase.auth, config |-> None,
         superseded |-> FALSE] \in Action
    BY <2>2, ActionTypes
  <2>7. \A k \in ActionKinds : ClassOf(k) = ClassOf("CancelPaste") => ~HasPending(u, k)
    BY <2>2, <2>5, Kinds
  <2>8. \/ /\ Tokened(t) /\ Elsewhere(u, t)
           /\ \A k : HasPending(t, k) <=> HasPending(u, k) \/ k = "CancelPaste"
        \/ /\ Settled(t) /\ t.unknown
           /\ t.admission = IF u.admission = "Closed" THEN "Closed" ELSE "Unknown"
           /\ SameAuthority(u, t)
    BY <2>1, <2>3, <2>5, <2>6, <2>7, IssueOutcome DEF Planned, Tidy
  <2>9. CASE /\ Tokened(t) /\ Elsewhere(u, t)
             /\ \A k : HasPending(t, k) <=> HasPending(u, k) \/ k = "CancelPaste"
    <3>1. DoubtIsUnknown(t) /\ CloseUnderway(t)
      BY <2>3, <2>5, <2>9 DEF Elsewhere, Planned, Tidy, DoubtIsUnknown, CloseUnderway
    <3>2. ASSUME ~t.unknown PROVE Orderly(t) /\ OpeningIsClear(t) /\ CandidateIsPlanned(t) /\ PlanContinues(t)
      <4>1. ~s.unknown /\ Orderly(s) /\ OpeningIsClear(s) /\ CandidateIsPlanned(s)
        BY <2>3, <2>9, <3>2 DEF Elsewhere, Planned, Tidy
      <4>2. s.admission # "Opening" /\ s.exit = "Running"
            /\ (s.predecessor # None => s.predecessor.inFlight # "Neutral")
        BY <1>2, <4>1 DEF Orderly, OpeningIsClear, StoppedIsDrained, NoDependents, NeutralStays
      <4>3. /\ WorkWaitsForGate(t) /\ OpeningIsClear(t) /\ AppliedWithoutCandidate(t)
            /\ CandidateIsPlanned(t)
        BY <2>3, <2>5, <2>9, <4>1, <4>2 DEF Orderly, Elsewhere, WorkWaitsForGate, OpeningIsClear,
           AppliedWithoutCandidate, CandidateIsPlanned
      <4>4. PasteRecords(t) /\ CancellationUnderway(t) /\ PersistIsLast(t) /\ SealCancelsPaste(t)
        BY <2>2, <2>3, <2>5, <2>9, <4>1, Kinds DEF Orderly, Elsewhere, PasteRecords,
           CancellationUnderway, PersistIsLast, SealCancelsPaste
      <4>5. AdmissionPends(t)
        BY <2>3, <2>9 DEF AdmissionPends, Elsewhere
      <4>6. StoppedIsDrained(t) /\ NeutralStays(t)
        BY <2>3, <2>9, <4>2 DEF Elsewhere, StoppedIsDrained, NeutralStays
      <4>7. PlanContinues(t)
        BY <2>9, BlockedByKind, Kinds DEF PlanContinues
      <4> QED
        BY <4>3, <4>4, <4>5, <4>6, <4>7 DEF Orderly
    <3>3. Onward(s, t)
      BY <2>3, <2>4, <2>9, SameAuthorityComposes DEF Onward, Elsewhere
    <3> QED
      BY <2>9, <3>1, <3>2, <3>3 DEF Settled, Planned, Tidy, t
  <2>10. CASE /\ Settled(t) /\ t.unknown
              /\ t.admission = IF u.admission = "Closed" THEN "Closed" ELSE "Unknown"
              /\ SameAuthority(u, t)
    BY <2>3, <2>4, <2>10, SameAuthorityComposes DEF Onward, t
  <2> QED
    BY <2>8, <2>9, <2>10
<1> QED
  BY <1>1, <1>2

\* Then the configuration is applied, of a lease with no candidate.
LEMMA ConfigurationNextSettled ==
  ASSUME NEW s, Planned(s), ~s.poisoned, ~DependentsBlocked(s),
         ~s.plan.candidate, ~s.plan.paste, s.plan.config # None
  PROVE  LET t == Issue([s EXCEPT !.plan.config = None], "Configuration", None, s.plan.config)
         IN  Settled(t) /\ Onward(s, t)
<1> DEFINE u == [s EXCEPT !.plan.config = None]
           t == Issue(u, "Configuration", None, s.plan.config)
<1>1. /\ \A kind \in DependentKinds : ~HasPending(s, kind)
      /\ s.pastePhase.kind # "Admitting"
  BY BlockedByKind
<1>2. /\ Shape(u)
      /\ u.pending = s.pending /\ u.admission = s.admission
      /\ u.pastePhase = s.pastePhase /\ u.closePlan = s.closePlan
      /\ u.emergency = s.emergency /\ u.poisoned = s.poisoned /\ u.unknown = s.unknown
      /\ u.predecessor = s.predecessor /\ u.controller = s.controller
      /\ u.maintenance = s.maintenance /\ u.exit = s.exit
      /\ u.ownership = s.ownership /\ u.plan.config = None
      /\ \A f \in {"candidate", "paste", "persist"} : u.plan[f] = s.plan[f]
  BY DEF Planned, Tidy, Tokened, Shape, WorkFields
<1>3. [kind |-> "Configuration", arg |-> None, config |-> s.plan.config,
       superseded |-> FALSE] \in Action
  <2>1. s.plan.config \in Configuration
    BY DEF Planned, Tidy, Tokened, Shape
  <2> QED
    BY <2>1, ActionTypes
<1> DEFINE config == s.plan.config
<1> SUFFICES Settled(t) /\ Onward(s, t)
  OBVIOUS
<1> HIDE DEF u, t, config
<1>4. SameTokens(s, u) /\ SameAuthority(s, u)
  BY <1>2 DEF SameTokens, SameAuthority, IsCapture
<1>5. Tokened(u) /\ \A kind : HasPending(u, kind) <=> HasPending(s, kind)
  BY <1>2, <1>4, TokensAlike DEF Planned, Tidy, Tokened, PoisonStops
<1>6. \A k \in ActionKinds : ClassOf(k) = ClassOf("Configuration") => ~HasPending(u, k)
  BY <1>1, <1>5, Kinds
<1>7. t = Issue(u, "Configuration", None, config)
  BY DEF t, config
<1>8. \/ /\ Tokened(t) /\ Elsewhere(u, t)
         /\ \A k : HasPending(t, k) <=> HasPending(u, k) \/ k = "Configuration"
      \/ /\ Settled(t) /\ t.unknown
         /\ t.admission = IF u.admission = "Closed" THEN "Closed" ELSE "Unknown"
         /\ SameAuthority(u, t)
  <2>1. u.poisoned = s.poisoned
    BY <1>2
  <2>2. [kind |-> "Configuration", arg |-> None, config |-> config,
         superseded |-> FALSE] \in Action
    BY <1>3 DEF config
  <2> QED
    BY <1>5, <1>6, <1>7, <2>1, <2>2, IssueOutcome
<1>9. CASE /\ Tokened(t) /\ Elsewhere(u, t)
           /\ \A k : HasPending(t, k) <=> HasPending(u, k) \/ k = "Configuration"
  <2>1. DoubtIsUnknown(t) /\ CloseUnderway(t)
    BY <1>2, <1>5, <1>9 DEF Elsewhere, Planned, Tidy, DoubtIsUnknown, CloseUnderway
  <2>2. ASSUME ~t.unknown PROVE Orderly(t) /\ OpeningIsClear(t) /\ CandidateIsPlanned(t) /\ PlanContinues(t)
    <3>1. ~s.unknown /\ Orderly(s) /\ CandidateIsPlanned(s)
      BY <1>2, <1>9, <2>2 DEF Elsewhere, Planned, Tidy
    <3>2. s.admission = "Closed" /\ s.exit = "Running" /\ s.ownership.candidate # "Active"
      BY <3>1 DEF Orderly, WorkWaitsForGate, StoppedIsDrained, NoDependents, CandidateIsPlanned
    <3>3. /\ WorkWaitsForGate(t) /\ OpeningIsClear(t) /\ AppliedWithoutCandidate(t)
          /\ CandidateIsPlanned(t)
      BY <1>2, <1>9, <3>2 DEF Elsewhere, WorkWaitsForGate, OpeningIsClear,
         AppliedWithoutCandidate, CandidateIsPlanned
    <3>4. PasteRecords(t) /\ CancellationUnderway(t) /\ PersistIsLast(t) /\ SealCancelsPaste(t)
      BY <1>1, <1>2, <1>5, <1>9, <3>1, Kinds DEF Orderly, Elsewhere, PasteRecords,
         CancellationUnderway, PersistIsLast, SealCancelsPaste
    <3>5. AdmissionPends(t)
      BY <1>1, <1>2, <1>9 DEF AdmissionPends, Elsewhere
    <3>6. StoppedIsDrained(t) /\ NeutralStays(t)
      BY <1>2, <1>9, <3>1, <3>2 DEF Orderly, Elsewhere, StoppedIsDrained, NeutralStays
    <3>7. PlanContinues(t)
      BY <1>9, BlockedByKind, Kinds DEF PlanContinues
    <3> QED
      BY <3>3, <3>4, <3>5, <3>6, <3>7 DEF Orderly
  <2>3. Onward(s, t)
    BY <1>2, <1>4, <1>9, SameAuthorityComposes DEF Onward, Elsewhere
  <2> QED
    BY <1>9, <2>1, <2>2, <2>3 DEF Settled, Planned, Tidy
<1>10. CASE /\ Settled(t) /\ t.unknown
            /\ t.admission = IF u.admission = "Closed" THEN "Closed" ELSE "Unknown"
            /\ SameAuthority(u, t)
  BY <1>2, <1>4, <1>10, SameAuthorityComposes DEF Onward
<1> QED
  BY <1>8, <1>9, <1>10

\* The drain is continued with nothing planned, and the seal persisted last.
LEMMA PersistNextSettled ==
  ASSUME NEW s, Planned(s), ~s.poisoned, ~DependentsBlocked(s),
         ~s.plan.candidate, ~s.plan.paste, s.plan.config = None
  PROVE  LET drained == [s EXCEPT !.plan.drain = FALSE]
             t       == IF s.plan.persist THEN PersistNext(drained) ELSE drained
         IN  /\ \/ Settled(t)
                \/ s.plan.persist /\ s.maintenance.phase # "Sealing" /\ ~s.unknown /\ Tokened(t)
             /\ Onward(s, t)
<1> DEFINE drained == [s EXCEPT !.plan.drain = FALSE]
<1>1. /\ \A kind \in DependentKinds : ~HasPending(s, kind)
      /\ s.pastePhase.kind # "Admitting"
  BY BlockedByKind
<1>2. /\ Shape(drained)
      /\ drained.pending = s.pending /\ drained.admission = s.admission
      /\ drained.pastePhase = s.pastePhase /\ drained.closePlan = s.closePlan
      /\ drained.emergency = s.emergency /\ drained.poisoned = s.poisoned
      /\ drained.unknown = s.unknown
      /\ drained.predecessor = s.predecessor /\ drained.controller = s.controller
      /\ drained.maintenance = s.maintenance /\ drained.exit = s.exit
      /\ drained.ownership = s.ownership
      /\ \A f \in {"candidate", "paste", "config", "persist"} : drained.plan[f] = s.plan[f]
  BY DEF Planned, Tidy, Tokened, Shape, WorkFields
<1>8. s.plan = NoDependents => drained.plan = NoDependents
  <2>1. drained.plan = [s.plan EXCEPT !.drain = FALSE]
    BY DEF Planned, Tidy, Tokened, Shape, WorkFields
  <2>2. [NoDependents EXCEPT !.drain = FALSE] = NoDependents
    <3>1. \A p \in DependentPlan : ~p.drain => [p EXCEPT !.drain = FALSE] = p
      BY DEF DependentPlan
    <3>2. NoDependents \in DependentPlan /\ ~NoDependents.drain
      BY DEF DependentPlan, NoDependents
    <3> QED
      BY <3>1, <3>2
  <2> QED
    BY <2>1, <2>2
<1> HIDE DEF drained
<1>3. SameTokens(s, drained) /\ Onward(s, drained)
  BY <1>2 DEF SameTokens, Onward, SameAuthority, IsCapture
<1>4. Tokened(drained) /\ \A kind : HasPending(drained, kind) <=> HasPending(s, kind)
  BY <1>2, <1>3, <1>8, TokensAlike DEF Planned, Tidy, Tokened, PoisonStops
<1>5. CASE ~s.plan.persist
  <2>1. DoubtIsUnknown(drained) /\ CloseUnderway(drained)
    BY <1>2, <1>4 DEF Planned, Tidy, DoubtIsUnknown, CloseUnderway
  <2>2. ASSUME ~drained.unknown
        PROVE  /\ Orderly(drained) /\ OpeningIsClear(drained)
               /\ CandidateIsPlanned(drained) /\ PlanContinues(drained)
    <3>1. ~s.unknown /\ Orderly(s) /\ OpeningIsClear(s) /\ CandidateIsPlanned(s)
      BY <1>2, <2>2 DEF Planned, Tidy
    <3>2. /\ WorkWaitsForGate(drained) /\ OpeningIsClear(drained)
          /\ AppliedWithoutCandidate(drained) /\ CandidateIsPlanned(drained)
      BY <1>2, <1>4, <3>1 DEF Orderly, WorkWaitsForGate, OpeningIsClear, OpenIsWanted,
         AppliedWithoutCandidate, CandidateIsPlanned
    <3>3. PasteRecords(drained) /\ CancellationUnderway(drained) /\ PersistIsLast(drained)
          /\ SealCancelsPaste(drained)
      BY <1>2, <1>4, <3>1 DEF Orderly, PasteRecords, CancellationUnderway, PersistIsLast,
         SealCancelsPaste
    <3>4. AdmissionPends(drained) /\ PlanContinues(drained)
      BY <1>1, <1>2, <1>5 DEF AdmissionPends, PlanContinues
    <3>5. StoppedIsDrained(drained) /\ NeutralStays(drained)
      BY <1>2, <1>4, <1>8, <3>1 DEF Orderly, StoppedIsDrained, NeutralStays, IsCapture
    <3> QED
      BY <3>2, <3>3, <3>4, <3>5 DEF Orderly
  <2> QED
    BY <1>3, <1>4, <1>5, <2>1, <2>2 DEF Settled, Planned, Tidy, drained
<1>6. CASE s.plan.persist /\ s.maintenance.phase # "Sealing"
  <2> DEFINE t == [drained EXCEPT !.plan.persist = FALSE]
  <2>1. PersistNext(drained) = t
    BY <1>2, <1>6 DEF PersistNext
  <2>2. /\ Shape(t) /\ t.pending = drained.pending
        /\ t.poisoned = drained.poisoned /\ t.admission = drained.admission
        /\ t.unknown = drained.unknown /\ t.emergency = drained.emergency
        /\ t.predecessor = drained.predecessor /\ t.controller = drained.controller
    BY <1>2 DEF Shape, WorkFields
  <2> HIDE DEF t
  <2>3. SameTokens(drained, t) /\ Onward(drained, t)
    BY <2>2 DEF SameTokens, Onward, SameAuthority, IsCapture
  <2>4. Tokened(t)
    BY <1>2, <1>4, <2>2, <2>3, TokensAlike DEF Tokened, PoisonStops
  <2>5. s.unknown => Settled(t)
    BY <1>2, <1>4, <2>2, <2>3, <2>4, TokensAlike
    DEF Settled, Planned, Tidy, DoubtIsUnknown, CloseUnderway
  <2> QED
    BY <1>3, <1>6, <2>1, <2>3, <2>4, <2>5, OnwardComposes DEF drained
<1>7. CASE s.plan.persist /\ s.maintenance.phase = "Sealing"
  <2> DEFINE u == [drained EXCEPT !.plan.persist = FALSE, !.maintenance.phase = "Persisting"]
             t == PersistNext(drained)
  <2>1. t = Issue(u, "Persist", s.maintenance.request, None)
    BY <1>2, <1>7 DEF PersistNext
  <2>2. /\ Shape(u)
        /\ u.pending = s.pending /\ u.admission = s.admission
        /\ u.pastePhase = s.pastePhase /\ u.closePlan = s.closePlan
        /\ u.emergency = s.emergency /\ u.poisoned = s.poisoned /\ u.unknown = s.unknown
        /\ u.predecessor = s.predecessor /\ u.controller = s.controller
        /\ u.maintenance.phase = "Persisting" /\ u.exit = s.exit
        /\ u.ownership = s.ownership /\ ~u.plan.persist
        /\ \A f \in {"candidate", "paste", "config"} : u.plan[f] = s.plan[f]
    BY <1>2, <1>7 DEF Shape, WorkFields
  <2>3. [kind |-> "Persist", arg |-> s.maintenance.request, config |-> None,
         superseded |-> FALSE] \in Action
    <3>1. s.maintenance.request \in Requests
      BY <1>7 DEF Planned, Tidy, Tokened, Shape
    <3> QED
      BY <3>1, ActionTypes
  <2> HIDE DEF u, t
  <2>4. SameTokens(s, u) /\ SameAuthority(s, u)
    BY <2>2 DEF SameTokens, SameAuthority, IsCapture
  <2>5. Tokened(u) /\ \A kind : HasPending(u, kind) <=> HasPending(s, kind)
    BY <2>2, <2>4, TokensAlike DEF Planned, Tidy, Tokened, PoisonStops
  <2>6. \A k \in ActionKinds : ClassOf(k) = ClassOf("Persist") => ~HasPending(u, k)
    BY <1>1, <2>5, Kinds
  <2>7. \/ /\ Tokened(t) /\ Elsewhere(u, t)
           /\ \A k : HasPending(t, k) <=> HasPending(u, k) \/ k = "Persist"
        \/ /\ Settled(t) /\ t.unknown
           /\ t.admission = IF u.admission = "Closed" THEN "Closed" ELSE "Unknown"
           /\ SameAuthority(u, t)
    BY <2>1, <2>2, <2>3, <2>5, <2>6, IssueOutcome
  <2>8. CASE /\ Tokened(t) /\ Elsewhere(u, t)
             /\ \A k : HasPending(t, k) <=> HasPending(u, k) \/ k = "Persist"
    <3>1. DoubtIsUnknown(t) /\ CloseUnderway(t)
      BY <2>2, <2>5, <2>8 DEF Elsewhere, Planned, Tidy, DoubtIsUnknown, CloseUnderway
    <3>2. ASSUME ~t.unknown PROVE Orderly(t) /\ OpeningIsClear(t) /\ CandidateIsPlanned(t) /\ PlanContinues(t)
      <4>1. ~s.unknown /\ Orderly(s) /\ CandidateIsPlanned(s)
        BY <2>2, <2>8, <3>2 DEF Elsewhere, Planned, Tidy
      <4>2. s.admission = "Closed" /\ s.exit = "Running" /\ s.ownership.candidate # "Active"
        BY <1>7, <4>1 DEF Orderly, WorkWaitsForGate, StoppedIsDrained, NoDependents,
           CandidateIsPlanned
      <4>3. /\ WorkWaitsForGate(t) /\ OpeningIsClear(t) /\ AppliedWithoutCandidate(t)
            /\ CandidateIsPlanned(t)
        BY <2>2, <2>8, <4>2 DEF Elsewhere, WorkWaitsForGate, OpeningIsClear,
           AppliedWithoutCandidate, CandidateIsPlanned
      <4>4. PasteRecords(t) /\ CancellationUnderway(t) /\ PersistIsLast(t) /\ SealCancelsPaste(t)
        BY <1>1, <1>7, <2>2, <2>5, <2>8, <4>1, Kinds DEF Orderly, Elsewhere, PasteRecords,
           CancellationUnderway, PersistIsLast, SealCancelsPaste
      <4>5. AdmissionPends(t)
        BY <1>1, <2>2, <2>8 DEF AdmissionPends, Elsewhere
      <4>6. StoppedIsDrained(t) /\ NeutralStays(t)
        BY <2>2, <2>8, <4>1, <4>2 DEF Orderly, Elsewhere, StoppedIsDrained, NeutralStays
      <4>7. PlanContinues(t)
        BY <2>8, BlockedByKind, Kinds DEF PlanContinues
      <4> QED
        BY <4>3, <4>4, <4>5, <4>6, <4>7 DEF Orderly
    <3>3. Onward(s, t)
      BY <2>2, <2>4, <2>8, SameAuthorityComposes DEF Onward, Elsewhere
    <3> QED
      BY <1>7, <2>8, <3>1, <3>2, <3>3 DEF Settled, Planned, Tidy, t, drained
  <2>9. CASE /\ Settled(t) /\ t.unknown
             /\ t.admission = IF u.admission = "Closed" THEN "Closed" ELSE "Unknown"
             /\ SameAuthority(u, t)
    BY <1>7, <2>2, <2>4, <2>9, SameAuthorityComposes DEF Onward, t, drained
  <2> QED
    BY <2>7, <2>8, <2>9
<1> QED
  BY <1>5, <1>6, <1>7

\* A plan that has been dispatched continues by itself, unless it contradicts
\* its phase.
LEMMA DispatchPlanSettled ==
  ASSUME NEW s, Planned(s)
  PROVE  /\ \/ Settled(DispatchPlan(s))
            \/ PlanContradicted(s) /\ ~s.unknown /\ Tokened(DispatchPlan(s))
         /\ Onward(s, DispatchPlan(s))
<1>1. CASE s.poisoned
  <2> DEFINE t == [s EXCEPT !.plan = NoDependents]
  <2>1. DispatchPlan(s) = t
    BY <1>1 DEF DispatchPlan
  <2>2. /\ Shape(t) /\ t.pending = s.pending /\ t.plan = NoDependents
        /\ t.poisoned = s.poisoned /\ t.admission = s.admission
        /\ t.unknown = s.unknown /\ t.emergency = s.emergency
        /\ t.predecessor = s.predecessor /\ t.controller = s.controller
    BY DEF Planned, Tidy, Tokened, Shape, WorkFields, NoDependents
  <2> HIDE DEF t
  <2>3. SameTokens(s, t) /\ Onward(s, t)
    BY <2>2 DEF SameTokens, Onward, SameAuthority, IsCapture
  <2>4. Tokened(t) /\ DoubtIsUnknown(t) /\ CloseUnderway(t) /\ t.unknown
    BY <1>1, <2>2, <2>3, TokensAlike
    DEF Planned, Tidy, Tokened, PoisonStops, DoubtIsUnknown, CloseUnderway
  <2> QED
    BY <2>1, <2>3, <2>4 DEF Settled, Planned, Tidy
<1>2. CASE ~s.poisoned /\ DependentsBlocked(s)
  <2>1. DispatchPlan(s) = s
    BY <1>2 DEF DispatchPlan
  <2>2. Settled(s)
    BY <1>2 DEF Settled, PlanContinues
  <2> QED
    BY <2>1, <2>2, OnwardComposes
<1>3. CASE ~s.poisoned /\ ~DependentsBlocked(s)
  <2>1. CASE s.plan.candidate
    <3>1. DispatchPlan(s) = CancelCandidateNext(s)
      BY <1>3, <2>1 DEF DispatchPlan
    <3> QED
      BY <1>3, <2>1, <3>1, CancelCandidateNextSettled
  <2>2. CASE ~s.plan.candidate /\ s.plan.paste
    <3>1. DispatchPlan(s) = CancelPasteNext(s)
      BY <1>3, <2>2 DEF DispatchPlan
    <3>2. s.pastePhase.auth = None => PlanContradicted(s)
      BY <1>3, <2>2 DEF PlanContradicted
    <3> QED
      BY <1>3, <2>2, <3>1, <3>2, CancelPasteNextSettled
  <2>3. CASE ~s.plan.candidate /\ ~s.plan.paste /\ s.plan.config # None
    <3>1. DispatchPlan(s)
            = Issue([s EXCEPT !.plan.config = None], "Configuration", None, s.plan.config)
      BY <1>3, <2>3 DEF DispatchPlan
    <3> QED
      BY <1>3, <2>3, <3>1, ConfigurationNextSettled
  <2>4. CASE ~s.plan.candidate /\ ~s.plan.paste /\ s.plan.config = None
    <3> DEFINE drained == [s EXCEPT !.plan.drain = FALSE]
    <3>1. DispatchPlan(s) = IF s.plan.persist THEN PersistNext(drained) ELSE drained
      <4>1. drained.plan.persist = s.plan.persist
        BY DEF Planned, Tidy, Tokened, Shape, WorkFields
      <4> QED
        BY <1>3, <2>4, <4>1 DEF DispatchPlan
    <3>2. s.plan.persist /\ s.maintenance.phase # "Sealing" => PlanContradicted(s)
      BY <1>3, <2>4 DEF PlanContradicted
    <3> QED
      BY <1>3, <2>4, <3>1, <3>2, PersistNextSettled
  <2> QED
    BY <2>1, <2>2, <2>3, <2>4
<1> QED
  BY <1>1, <1>2, <1>3

\* A close whose steps can still be taken behind what is already under way.
CloseFits(s, close) ==
  s.unknown \/ (close.config = None /\ ~close.persist)
            \/ (s.exit = "Running" /\ ~HasPending(s, "Persist"))

\* What a confirmed close adds to the plan can be dispatched.
LEMMA AddDependentsPlanned ==
  ASSUME NEW s, Tidy(s), s.admission = "Closed", NEW close \in ClosePlan, CloseFits(s, close)
  PROVE  Planned(AddDependents(s, close)) /\ Onward(s, AddDependents(s, close))
<1> DEFINE t == AddDependents(s, close)
<1>1. /\ Shape(t) /\ t.pending = s.pending /\ t.admission = s.admission
      /\ t.pastePhase = s.pastePhase /\ t.closePlan = s.closePlan
      /\ t.emergency = s.emergency /\ t.poisoned = s.poisoned /\ t.unknown = s.unknown
      /\ t.predecessor = s.predecessor /\ t.controller = s.controller
      /\ t.maintenance = s.maintenance /\ t.exit = s.exit
      /\ t.ownership = s.ownership
  BY DEF AddDependents, Tidy, Tokened, Shape, WorkFields, ClosePlan
<1>2. ~s.unknown =>
        t.plan = [candidate |-> s.plan.candidate \/ s.ownership.candidate = "Active",
                  paste     |-> s.plan.paste \/ s.pastePhase.kind = "Waiting",
                  config    |-> IF close.release THEN None
                                ELSE IF close.config # None THEN close.config ELSE s.plan.config,
                  persist   |-> s.plan.persist \/ close.persist,
                  drain     |-> s.plan.drain \/ ~NativeNeutral(s.ownership)]
  BY DEF AddDependents, Tidy, Tokened, Shape, WorkFields
<1>8. ~s.unknown =>
        /\ t.plan.candidate <=> s.plan.candidate \/ s.ownership.candidate = "Active"
        /\ t.plan.paste <=> s.plan.paste \/ s.pastePhase.kind = "Waiting"
        /\ t.plan.config = IF close.release THEN None
                           ELSE IF close.config # None THEN close.config ELSE s.plan.config
        /\ t.plan.persist <=> s.plan.persist \/ close.persist
  <2> SUFFICES ASSUME ~s.unknown
               PROVE  /\ t.plan.candidate <=> s.plan.candidate \/ s.ownership.candidate = "Active"
                      /\ t.plan.paste <=> s.plan.paste \/ s.pastePhase.kind = "Waiting"
                      /\ t.plan.config = IF close.release THEN None
                                         ELSE IF close.config # None THEN close.config
                                         ELSE s.plan.config
                      /\ t.plan.persist <=> s.plan.persist \/ close.persist
    OBVIOUS
  <2> DEFINE c == s.plan.candidate \/ s.ownership.candidate = "Active"
             p == s.plan.paste \/ s.pastePhase.kind = "Waiting"
             g == IF close.release THEN None
                  ELSE IF close.config # None THEN close.config ELSE s.plan.config
             k == s.plan.persist \/ close.persist
             d == s.plan.drain \/ ~NativeNeutral(s.ownership)
  <2>1. t.plan = [candidate |-> c, paste |-> p, config |-> g, persist |-> k, drain |-> d]
    BY <1>2
  <2> HIDE DEF c, p, g, k, d, t
  <2>2. t.plan.candidate = c /\ t.plan.paste = p /\ t.plan.config = g /\ t.plan.persist = k
    BY <2>1
  <2> QED
    BY <2>2 DEF c, p, g, k
<1>3. s.poisoned => t.plan = NoDependents
  <2> SUFFICES ASSUME s.poisoned PROVE t.plan = NoDependents
    OBVIOUS
  <2>1. s.plan = NoDependents /\ s.unknown
    BY DEF Tidy, Tokened, PoisonStops, DoubtIsUnknown
  <2>2. t.plan = [[s.plan EXCEPT !.config = IF close.release THEN None ELSE s.plan.config]
                    EXCEPT !.drain = s.plan.drain \/ (~s.poisoned /\ ~NativeNeutral(s.ownership))]
    BY <2>1 DEF AddDependents, Tidy, Tokened, Shape, WorkFields
  <2>3. \A p \in DependentPlan :
          [[p EXCEPT !.config = p.config] EXCEPT !.drain = p.drain] = p
    BY DEF DependentPlan
  <2>4. NoDependents \in DependentPlan /\ NoDependents.config = None /\ NoDependents.drain = FALSE
    BY DEF DependentPlan, NoDependents
  <2> QED
    BY <2>1, <2>2, <2>3, <2>4
<1> HIDE DEF t
<1>4. SameTokens(s, t) /\ Onward(s, t)
  BY <1>1 DEF SameTokens, Onward, SameAuthority, IsCapture
<1>5. Tokened(t) /\ \A kind : HasPending(t, kind) <=> HasPending(s, kind)
  BY <1>1, <1>3, <1>4, TokensAlike DEF Tidy, Tokened, PoisonStops
<1>6. DoubtIsUnknown(t) /\ CloseUnderway(t)
  BY <1>1 DEF Tidy, DoubtIsUnknown, CloseUnderway
<1>7. ASSUME ~t.unknown PROVE Orderly(t) /\ OpeningIsClear(t) /\ CandidateIsPlanned(t)
  <2>1. ~s.unknown /\ Orderly(s)
    BY <1>1, <1>7 DEF Tidy
  <2>2. /\ WorkWaitsForGate(t) /\ OpeningIsClear(t)
        /\ AppliedWithoutCandidate(t) /\ CandidateIsPlanned(t)
    BY <1>1, <1>5, <1>8, <2>1 DEF Orderly, WorkWaitsForGate, OpeningIsClear,
       AppliedWithoutCandidate, CandidateIsPlanned
  <2>3. PasteRecords(t) /\ CancellationUnderway(t) /\ SealCancelsPaste(t)
    BY <1>1, <1>5, <1>8, <2>1 DEF Orderly, PasteRecords, CancellationUnderway, SealCancelsPaste
  <2>4. PersistIsLast(t)
    BY <1>1, <1>5, <1>8, <2>1 DEF Orderly, PersistIsLast, AppliedWithoutCandidate, CloseFits
  <2>5. AdmissionPends(t)
    BY <1>1, <1>4, <2>1, TokensAlike DEF Orderly
  <2>6. StoppedIsDrained(t)
    <3> SUFFICES ASSUME t.exit # "Running" PROVE t.plan = NoDependents
      BY <1>1, <1>5, <2>1 DEF Orderly, StoppedIsDrained, IsCapture
    <3>1. NativeNeutral(s.ownership) /\ s.plan = NoDependents /\ s.pastePhase.kind = "None"
      BY <1>1, <2>1 DEF Orderly, StoppedIsDrained
    <3>2. /\ ~s.plan.candidate /\ ~s.plan.paste /\ s.plan.config = None
          /\ ~s.plan.persist /\ ~s.plan.drain
          /\ s.ownership.candidate # "Active" /\ s.pastePhase.kind # "Waiting"
          /\ close.config = None /\ ~close.persist
      BY <1>1, <2>1, <3>1 DEF CloseFits, NativeNeutral, NoDependents
    <3>3. t.plan = [candidate |-> FALSE, paste |-> FALSE, config |-> None,
                    persist |-> FALSE, drain |-> FALSE]
      <4>1. /\ (s.plan.candidate \/ s.ownership.candidate = "Active") = FALSE
            /\ (s.plan.paste \/ s.pastePhase.kind = "Waiting") = FALSE
            /\ (IF close.release THEN None
                ELSE IF close.config # None THEN close.config ELSE s.plan.config) = None
            /\ (s.plan.persist \/ close.persist) = FALSE
            /\ (s.plan.drain \/ ~NativeNeutral(s.ownership)) = FALSE
        BY <3>1, <3>2
      <4> QED
        BY <1>2, <2>1, <4>1
    <3> QED
      BY <3>3 DEF NoDependents
  <2>7. NeutralStays(t)
    BY <1>1, <1>8, <2>1 DEF Orderly, NeutralStays, NativeNeutral
  <2> QED
    BY <2>2, <2>3, <2>4, <2>5, <2>6, <2>7 DEF Orderly
<1> QED
  BY <1>1, <1>4, <1>5, <1>6, <1>7 DEF Planned, Tidy, t

\* A token that belongs to no dependent step.
LEMMA IndependentTokenSettled ==
  ASSUME NEW s, NEW t, Tidy(s), Tokened(t), Elsewhere(s, t),
         NEW kind \in {"Close", "Open", "SessionMode", "AdmitPaste", "StopNative"},
         \A k : HasPending(t, k) <=> HasPending(s, k) \/ k = kind,
         AdmissionPends(s) => AdmissionPends(t), OpenIsWanted(s) => OpenIsWanted(t),
         kind = "StopNative" => s.admission = "Closed",
         s.unknown \/ s.exit = "Running"
  PROVE  /\ Tidy(t)
         /\ Planned(s) => Planned(t)
         /\ Settled(s) => Settled(t)
<1>1. ~s.unknown => Orderly(t)
  <2> SUFFICES ASSUME ~s.unknown PROVE Orderly(t)
    OBVIOUS
  <2>1. Orderly(s) /\ s.exit = "Running" /\ t.exit = "Running"
    BY DEF Tidy, Elsewhere
  <2>2. /\ WorkWaitsForGate(t) /\ AppliedWithoutCandidate(t)
    BY <2>1 DEF Orderly, Elsewhere, WorkWaitsForGate, AppliedWithoutCandidate
  <2>3. PasteRecords(t) /\ CancellationUnderway(t) /\ PersistIsLast(t) /\ SealCancelsPaste(t)
    BY <2>1 DEF Orderly, Elsewhere, PasteRecords, CancellationUnderway, PersistIsLast,
                SealCancelsPaste
  <2>4. AdmissionPends(t) /\ StoppedIsDrained(t) /\ NeutralStays(t)
    BY <2>1 DEF Orderly, Elsewhere, StoppedIsDrained, NeutralStays
  <2> QED
    BY <2>2, <2>3, <2>4 DEF Orderly
<1>2. Tidy(t)
  BY <1>1 DEF Tidy, DoubtIsUnknown, Elsewhere
<1>3. Planned(s) => Planned(t)
  BY <1>2 DEF Planned, CloseUnderway, OpeningIsClear, CandidateIsPlanned, Elsewhere
<1>4. Settled(s) => Settled(t)
  <2>1. DependentsBlocked(s) => DependentsBlocked(t)
    BY BlockedByKind DEF Elsewhere
  <2> QED
    BY <1>3, <2>1 DEF Settled, PlanContinues, Elsewhere
<1> QED
  BY <1>2, <1>3, <1>4

\* A gate that is not closed is shut, with a close under way.
LEMMA ShutSettled ==
  ASSUME NEW s, Tidy(s), s.admission # "Closed", NEW gate \in {"Closing", "Unknown"},
         gate = "Unknown" => s.unknown, HasPending(s, "Close") \/ s.emergency
  PROVE  LET t == [s EXCEPT !.admission = gate]
         IN  Settled(t) /\ SameAuthority(s, t)
<1> DEFINE t == [s EXCEPT !.admission = gate]
<1>1. /\ Shape(t) /\ t.pending = s.pending /\ t.admission = gate
      /\ t.pastePhase = s.pastePhase /\ t.closePlan = s.closePlan
      /\ t.emergency = s.emergency /\ t.poisoned = s.poisoned /\ t.unknown = s.unknown
      /\ t.predecessor = s.predecessor /\ t.controller = s.controller
      /\ t.maintenance = s.maintenance /\ t.exit = s.exit
      /\ t.ownership = s.ownership /\ t.plan = s.plan
  BY DEF Tidy, Tokened, Shape, WorkFields
<1> HIDE DEF t
<1>2. SameTokens(s, t) /\ SameAuthority(s, t)
  BY <1>1 DEF SameTokens, SameAuthority, IsCapture
<1>3. Tokened(t) /\ \A kind : HasPending(t, kind) <=> HasPending(s, kind)
  BY <1>1, <1>2, TokensAlike DEF Tidy, Tokened, PoisonStops
<1>4. DoubtIsUnknown(t) /\ CloseUnderway(t)
  BY <1>1, <1>3 DEF Tidy, DoubtIsUnknown, CloseUnderway
<1>5. ASSUME ~t.unknown PROVE Orderly(t) /\ OpeningIsClear(t) /\ CandidateIsPlanned(t) /\ PlanContinues(t)
  <2>1. ~s.unknown /\ Orderly(s)
    BY <1>1, <1>5 DEF Tidy
  <2>2. /\ WorkWaitsForGate(t) /\ OpeningIsClear(t) /\ AppliedWithoutCandidate(t)
        /\ CandidateIsPlanned(t) /\ PlanContinues(t)
    BY <1>1, <1>3, <2>1 DEF Orderly, WorkWaitsForGate, OpeningIsClear, AppliedWithoutCandidate,
       CandidateIsPlanned, PlanContinues
  <2>3. PasteRecords(t) /\ CancellationUnderway(t) /\ PersistIsLast(t) /\ SealCancelsPaste(t)
    BY <1>1, <1>3, <2>1 DEF Orderly, PasteRecords, CancellationUnderway, PersistIsLast,
       SealCancelsPaste
  <2>4. AdmissionPends(t) /\ StoppedIsDrained(t) /\ NeutralStays(t)
    BY <1>1, <1>2, <1>3, <2>1, TokensAlike DEF Orderly, StoppedIsDrained, NeutralStays, IsCapture
  <2> QED
    BY <2>2, <2>3, <2>4 DEF Orderly
<1> QED
  BY <1>2, <1>3, <1>4, <1>5 DEF Settled, Planned, Tidy, t

\* Closing a gate that is not closed.
LEMMA CloseBarrierSettled ==
  ASSUME NEW s, Tidy(s), s.admission # "Closed", NEW close \in ClosePlan
  PROVE  Settled(CloseBarrier(s, close)) /\ SameAuthority(s, CloseBarrier(s, close))
<1> DEFINE plan    == MergeClose(s.closePlan, close)
           planned == [s EXCEPT !.closePlan = plan]
           merged  == Supersede(planned, {"Open"})
           issued  == Issue(merged, "Close", None, None)
           t       == CloseBarrier(s, close)
<1>1. plan \in ClosePlan
  <2>1. s.closePlan \in ClosePlan \cup {None}
    BY DEF Tidy, Tokened, Shape
  <2> QED
    BY <2>1 DEF MergeClose, ClosePlan
<1>2. t = IF HasPending(merged, "Close") THEN [merged EXCEPT !.admission = "Closing"]
          ELSE IF merged.emergency THEN [merged EXCEPT !.admission = "Unknown"]
          ELSE IF Allocatable(merged) THEN [issued EXCEPT !.admission = "Closing"]
          ELSE [AllocationError(merged) EXCEPT !.admission = "Unknown"]
  BY DEF CloseBarrier
<1> HIDE DEF plan
<1>3. /\ Shape(planned) /\ planned.pending = s.pending /\ planned.admission = s.admission
      /\ planned.pastePhase = s.pastePhase
      /\ planned.emergency = s.emergency /\ planned.poisoned = s.poisoned
      /\ planned.unknown = s.unknown
      /\ planned.predecessor = s.predecessor /\ planned.controller = s.controller
      /\ planned.maintenance = s.maintenance /\ planned.exit = s.exit
      /\ planned.ownership = s.ownership /\ planned.plan = s.plan
  BY <1>1 DEF Tidy, Tokened, Shape, WorkFields
<1> HIDE DEF planned, t
<1>4. Tidy(planned) /\ SameAuthority(s, planned)
  <2>1. SameTokens(s, planned) /\ SameAuthority(s, planned)
    BY <1>3 DEF SameTokens, SameAuthority, IsCapture
  <2>2. Tokened(planned) /\ \A kind : HasPending(planned, kind) <=> HasPending(s, kind)
    BY <1>3, <2>1, TokensAlike DEF Tidy, Tokened, PoisonStops
  <2>3. DoubtIsUnknown(planned)
    BY <1>3 DEF Tidy, DoubtIsUnknown
  <2>4. ASSUME ~planned.unknown PROVE Orderly(planned)
    <3>1. ~s.unknown /\ Orderly(s) /\ s.exit = "Running"
      BY <1>3, <2>4 DEF Tidy, Orderly, WorkWaitsForGate
    <3>2. WorkWaitsForGate(planned) /\ AppliedWithoutCandidate(planned)
      BY <1>3, <2>2, <3>1 DEF Orderly, WorkWaitsForGate, AppliedWithoutCandidate
    <3>3. PasteRecords(planned) /\ CancellationUnderway(planned) /\ PersistIsLast(planned)
          /\ SealCancelsPaste(planned)
      BY <1>3, <2>2, <3>1 DEF Orderly, PasteRecords, CancellationUnderway, PersistIsLast,
         SealCancelsPaste
    <3>4. AdmissionPends(planned) /\ StoppedIsDrained(planned) /\ NeutralStays(planned)
      BY <1>3, <2>1, <3>1, TokensAlike DEF Orderly, StoppedIsDrained, NeutralStays
    <3> QED
      BY <3>2, <3>3, <3>4 DEF Orderly
  <2> QED
    BY <2>1, <2>2, <2>3, <2>4 DEF Tidy
<1>5. /\ Tidy(merged) /\ merged.admission # "Closed" /\ SameAuthority(s, merged)
      /\ merged.unknown \/ merged.exit = "Running"
  <2>1. Shape(merged) /\ Resembles(planned, merged)
    BY <1>3, AlikeUpdates
  <2> HIDE DEF merged
  <2>2. Tidy(merged) /\ SameAuthority(s, merged)
    BY <1>4, <2>1, AlikeTidy, SameAuthorityComposes
  <2>3. merged.admission # "Closed"
    BY <1>3, <2>1 DEF Resembles
  <2> QED
    BY <2>2, <2>3 DEF Tidy, Orderly, WorkWaitsForGate
<1> HIDE DEF merged
<1>6. CASE HasPending(merged, "Close")
  <2>1. t = [merged EXCEPT !.admission = "Closing"]
    BY <1>2, <1>6
  <2>2. Settled(t) /\ SameAuthority(merged, t)
    BY <1>5, <1>6, <2>1, ShutSettled
  <2> QED
    BY <1>5, <2>2, SameAuthorityComposes DEF t
<1>7. CASE ~HasPending(merged, "Close") /\ merged.emergency
  <2>1. t = [merged EXCEPT !.admission = "Unknown"]
    BY <1>2, <1>7
  <2>2. merged.unknown
    BY <1>5, <1>7 DEF Tidy, DoubtIsUnknown
  <2>3. Settled(t) /\ SameAuthority(merged, t)
    BY <1>5, <1>7, <2>1, <2>2, ShutSettled
  <2> QED
    BY <1>5, <2>3, SameAuthorityComposes DEF t
<1>8. CASE ~HasPending(merged, "Close") /\ ~merged.emergency /\ Allocatable(merged)
  <2>1. t = [issued EXCEPT !.admission = "Closing"]
    BY <1>2, <1>8
  <2>2. [kind |-> "Close", arg |-> None, config |-> None, superseded |-> FALSE] \in Action
    BY ActionTypes
  <2>3. \A k \in ActionKinds : ClassOf(k) = ClassOf("Close") => ~HasPending(merged, k)
    BY <1>8, Kinds
  <2>4. /\ Tokened(issued) /\ Elsewhere(merged, issued)
        /\ \A k : HasPending(issued, k) <=> HasPending(merged, k) \/ k = "Close"
        /\ AdmissionPends(merged) => AdmissionPends(issued)
        /\ OpenIsWanted(merged) => OpenIsWanted(issued)
    <3>1. "Close" \notin DependentKinds
      BY Kinds
    <3>2. Tokened(merged)
      BY <1>5 DEF Tidy
    <3> QED
      BY <1>8, <2>2, <2>3, <3>1, <3>2, IssueOutcome
  <2> HIDE DEF issued
  <2>5. Tidy(issued) /\ issued.admission # "Closed" /\ HasPending(issued, "Close")
    BY <1>5, <2>4, IndependentTokenSettled DEF Elsewhere
  <2>6. Settled(t) /\ SameAuthority(issued, t)
    BY <2>1, <2>5, ShutSettled
  <2> QED
    BY <1>5, <2>4, <2>6, SameAuthorityComposes DEF t
<1>9. CASE ~HasPending(merged, "Close") /\ ~merged.emergency /\ ~Allocatable(merged)
  <2> DEFINE failed == AllocationError(merged)
  <2>1. t = [failed EXCEPT !.admission = "Unknown"]
    BY <1>2, <1>9
  <2>2. /\ Settled(failed) /\ failed.unknown /\ failed.admission = "Unknown"
        /\ SameAuthority(merged, failed)
    BY <1>5, AllocationErrorSettled DEF Tidy
  <2> HIDE DEF failed
  <2>3. /\ Shape(t) /\ t.pending = failed.pending /\ t.admission = "Unknown"
        /\ t.emergency = failed.emergency /\ t.poisoned = failed.poisoned
        /\ t.unknown = failed.unknown /\ t.plan = failed.plan
        /\ t.predecessor = failed.predecessor /\ t.controller = failed.controller
    BY <2>1, <2>2 DEF Settled, Planned, Tidy, Tokened, Shape, WorkFields
  <2>4. SameTokens(failed, t) /\ SameAuthority(failed, t)
    BY <2>3 DEF SameTokens, SameAuthority, IsCapture
  <2>5. Settled(t)
    BY <2>2, <2>3, <2>4, TokensAlike
    DEF Settled, Planned, Tidy, Tokened, PoisonStops, DoubtIsUnknown, CloseUnderway
  <2> QED
    BY <1>5, <2>2, <2>4, <2>5, SameAuthorityComposes DEF t
<1> QED
  BY <1>6, <1>7, <1>8, <1>9

\* A plan that is dispatched, or found to contradict its phase, leaves the
\* work settled.
LEMMA IssueNextDependentSettled ==
  ASSUME NEW s, Planned(s)
  PROVE  Settled(IssueNextDependent(s)) /\ Onward(s, IssueNextDependent(s))
<1> DEFINE dispatched == DispatchPlan(s)
           faulted    == Degrade(dispatched)
           added      == AddDependents(faulted, DefaultClose)
<1>1. /\ Settled(dispatched) \/ (PlanContradicted(s) /\ Tokened(dispatched))
      /\ Onward(s, dispatched)
  BY DispatchPlanSettled
<1>2. CASE ~PlanContradicted(s)
  <2>1. IssueNextDependent(s) = dispatched
    BY <1>2 DEF IssueNextDependent
  <2> QED
    BY <1>1, <1>2, <2>1
<1>3. CASE PlanContradicted(s)
  <2> HIDE DEF dispatched
  <2>1. /\ Tidy(faulted) /\ faulted.unknown
        /\ faulted.admission = IF dispatched.admission = "Closed" THEN "Closed" ELSE "Unknown"
        /\ SameAuthority(dispatched, faulted)
    BY <1>1, DegradeTidy DEF Settled, Planned, Tidy
  <2> HIDE DEF faulted
  <2>2. Onward(s, faulted)
    BY <1>1, <2>1, OnwardComposes DEF Onward
  <2>3. CASE faulted.admission = "Closed"
    <3>1. IssueNextDependent(s) = DispatchPlan(added)
      BY <1>3, <2>3 DEF IssueNextDependent, faulted, dispatched
    <3>2. Planned(added) /\ Onward(faulted, added) /\ added.unknown
      <4>1. CloseFits(faulted, DefaultClose)
        BY <2>1 DEF CloseFits
      <4>2. added.unknown
        BY <2>1 DEF AddDependents, Tidy, Tokened, Shape, WorkFields
      <4> QED
        BY <2>1, <2>3, <4>1, <4>2, DefaultCloseType, AddDependentsPlanned
    <3> HIDE DEF added
    <3>3. Settled(DispatchPlan(added)) /\ Onward(added, DispatchPlan(added))
      BY <3>2, DispatchPlanSettled
    <3> QED
      BY <2>2, <3>1, <3>2, <3>3, OnwardComposes
  <2>4. CASE faulted.admission # "Closed"
    <3>1. IssueNextDependent(s) = CloseBarrier(faulted, DefaultClose)
      BY <1>3, <2>4 DEF IssueNextDependent, faulted, dispatched
    <3>2. /\ Settled(CloseBarrier(faulted, DefaultClose))
          /\ SameAuthority(faulted, CloseBarrier(faulted, DefaultClose))
      BY <2>1, <2>4, DefaultCloseType, CloseBarrierSettled
    <3>3. s.admission # "Closed"
      BY <2>2, <2>4 DEF Onward
    <3> QED
      BY <2>2, <3>1, <3>2, <3>3, SameAuthorityComposes DEF Onward
  <2> QED
    BY <2>3, <2>4
<1> QED
  BY <1>2, <1>3

\* The native side is stopped when there is nothing left.
LEMMA BeginNativeStopSettled ==
  ASSUME NEW s, Settled(s), Quiescent(s), ~IsCapture(s), NEW purpose, purpose # "Running"
  PROVE  Settled(BeginNativeStop(s, purpose)) /\ Onward(s, BeginNativeStop(s, purpose))
<1> DEFINE t == BeginNativeStop(s, purpose)
           u == Issue(s, "StopNative", None, None)
<1>1. CASE s.exit # "Running"
  <2>1. t = s
    BY <1>1 DEF BeginNativeStop
  <2> QED
    BY <2>1, OnwardComposes
<1>2. CASE s.exit = "Running" /\ ~Allocatable(s)
  <2>1. t = AllocationError(s)
    BY <1>2 DEF BeginNativeStop
  <2> QED
    BY <2>1, AllocationErrorSettled DEF Settled, Planned, Tidy, Onward
<1>3. CASE s.exit = "Running" /\ Allocatable(s)
  <2>1. t = [u EXCEPT !.exit = purpose]
    BY <1>3 DEF BeginNativeStop
  <2>2. [kind |-> "StopNative", arg |-> None, config |-> None, superseded |-> FALSE] \in Action
    BY ActionTypes
  <2>3. \A k : ~HasPending(s, k)
    BY DEF Quiescent, QuiescentForDisposition, PendingEmpty, HasPending
  <2>4. /\ Tokened(u) /\ Elsewhere(s, u)
        /\ \A k : HasPending(u, k) <=> HasPending(s, k) \/ k = "StopNative"
    <3>1. "StopNative" \notin DependentKinds /\ Tokened(s)
      BY Kinds DEF Settled, Planned, Tidy
    <3> QED
      BY <1>3, <2>2, <2>3, <3>1, IssueOutcome
  <2>5. /\ s.admission = "Closed" /\ NativeNeutral(s.ownership) /\ PendingEmpty(s)
        /\ s.closePlan = None /\ s.plan = NoDependents /\ ~s.unknown /\ s.predecessor = None
    BY DEF Quiescent, QuiescentForDisposition
  <2>6. Orderly(s) /\ CandidateIsPlanned(s) /\ DoubtIsUnknown(s)
    BY <2>5 DEF Settled, Planned, Tidy
  <2>7. s.pastePhase.kind = "None"
    BY <2>5, <2>6 DEF Orderly, PasteRecords, AdmissionPends, HasKind, PendingEmpty, NativeNeutral
  <2> HIDE DEF u, t
  <2>8. /\ Shape(t) /\ t.pending = u.pending /\ t.exit = purpose
        /\ t.controller = s.controller /\ t.ownership = s.ownership
        /\ t.pastePhase = s.pastePhase /\ t.admission = s.admission
        /\ t.emergency = s.emergency /\ t.closePlan = s.closePlan /\ t.plan = s.plan
        /\ t.poisoned = s.poisoned /\ t.unknown = s.unknown
        /\ t.maintenance = s.maintenance /\ t.predecessor = s.predecessor
    BY <2>1, <2>4 DEF Tokened, Shape, WorkFields, Elsewhere
  <2>9. SameTokens(u, t) /\ Onward(s, t)
    BY <2>8 DEF SameTokens, Onward, SameAuthority, IsCapture
  <2>10. Tokened(t) /\ \A k : HasPending(t, k) <=> k = "StopNative"
    BY <2>3, <2>4, <2>8, <2>9, TokensAlike DEF Tokened, PoisonStops, Elsewhere
  <2>11. DoubtIsUnknown(t) /\ CloseUnderway(t)
    BY <2>5, <2>6, <2>8 DEF DoubtIsUnknown, CloseUnderway
  <2>12. /\ WorkWaitsForGate(t) /\ OpeningIsClear(t) /\ AppliedWithoutCandidate(t)
         /\ CandidateIsPlanned(t) /\ PlanContinues(t)
    BY <2>5, <2>6, <2>8, <2>10 DEF WorkWaitsForGate, OpeningIsClear, AppliedWithoutCandidate,
       CandidateIsPlanned, PlanContinues, NoDependents
  <2>13. PasteRecords(t) /\ CancellationUnderway(t) /\ PersistIsLast(t) /\ SealCancelsPaste(t)
         /\ AdmissionPends(t)
    BY <2>6, <2>7, <2>8, <2>10 DEF Orderly, PasteRecords, CancellationUnderway, PersistIsLast,
       SealCancelsPaste, AdmissionPends
  <2>14. StoppedIsDrained(t) /\ NeutralStays(t)
    BY <2>5, <2>7, <2>8, <2>10 DEF StoppedIsDrained, NeutralStays, IsCapture
  <2> QED
    BY <2>9, <2>10, <2>11, <2>12, <2>13, <2>14 DEF Settled, Planned, Tidy, Orderly, t
<1> QED
  BY <1>1, <1>2, <1>3

\* A degraded owner that is quiescent stops by itself.
LEMMA MaybeBeginDegradedExitSettled ==
  ASSUME NEW s, Settled(s)
  PROVE  Settled(MaybeBeginDegradedExit(s)) /\ Onward(s, MaybeBeginDegradedExit(s))
<1>1. CASE /\ s.health = "Degraded" /\ s.maintenance.phase = "None"
           /\ s.exit = "Running" /\ ~IsCapture(s) /\ Quiescent(s)
  <2>1. MaybeBeginDegradedExit(s) = BeginNativeStop(s, "StopDegraded")
    BY <1>1 DEF MaybeBeginDegradedExit
  <2> QED
    BY <1>1, <2>1, BeginNativeStopSettled
<1>2. CASE ~ /\ s.health = "Degraded" /\ s.maintenance.phase = "None"
             /\ s.exit = "Running" /\ ~IsCapture(s) /\ Quiescent(s)
  <2>1. MaybeBeginDegradedExit(s) = s
    BY <1>2 DEF MaybeBeginDegradedExit
  <2> QED
    BY <2>1, OnwardComposes
<1> QED
  BY <1>1, <1>2

\* What follows a confirmed close.
LEMMA AfterAdmissionClosedSettled ==
  ASSUME NEW s, Tidy(s), s.admission = "Closed", NEW close \in ClosePlan, CloseFits(s, close)
  PROVE  Settled(AfterAdmissionClosed(s, close)) /\ Onward(s, AfterAdmissionClosed(s, close))
<1> DEFINE added == AddDependents(s, close)
           issued == IssueNextDependent(added)
           t == MaybeBeginDegradedExit(issued)
<1>1. AfterAdmissionClosed(s, close) = t
  BY DEF AfterAdmissionClosed
<1>2. Planned(added) /\ Onward(s, added)
  BY AddDependentsPlanned
<1> HIDE DEF added
<1>3. Settled(issued) /\ Onward(added, issued)
  BY <1>2, IssueNextDependentSettled
<1> HIDE DEF issued
<1>4. Settled(t) /\ Onward(issued, t)
  BY <1>3, MaybeBeginDegradedExitSettled
<1> QED
  BY <1>1, <1>2, <1>3, <1>4, OnwardComposes

\* A close that is requested is dispatched or under way.
LEMMA RequestCloseSettled ==
  ASSUME NEW s, Tidy(s), NEW close \in ClosePlan, s.admission = "Closed" => CloseFits(s, close)
  PROVE  Settled(RequestClose(s, close)) /\ Onward(s, RequestClose(s, close))
<1> DEFINE demoted == DemoteCapture(s)
<1>1. Tidy(demoted) /\ Alike(s, demoted) /\ SameAuthority(s, demoted)
  BY AlikeUpdates, AlikeTidy, SameAuthorityComposes DEF Alike, Tidy, Tokened
<1>2. RequestClose(s, close) = IF demoted.admission = "Closed"
                               THEN AfterAdmissionClosed(demoted, close)
                               ELSE CloseBarrier(demoted, close)
  BY DEF RequestClose
<1> HIDE DEF demoted
<1>3. demoted.admission = s.admission
  BY <1>1 DEF Alike, Resembles
<1>4. CASE s.admission = "Closed"
  <2>1. CloseFits(demoted, close)
    BY <1>1, <1>4, TokensAlike DEF CloseFits, Alike, Resembles
  <2>2. /\ Settled(AfterAdmissionClosed(demoted, close))
        /\ Onward(demoted, AfterAdmissionClosed(demoted, close))
    BY <1>1, <1>3, <1>4, <2>1, AfterAdmissionClosedSettled
  <2> QED
    BY <1>1, <1>2, <1>3, <1>4, <2>2, SameAuthorityComposes DEF Onward
<1>5. CASE s.admission # "Closed"
  <2>1. /\ Settled(CloseBarrier(demoted, close))
        /\ SameAuthority(demoted, CloseBarrier(demoted, close))
    BY <1>1, <1>3, <1>5, CloseBarrierSettled
  <2> QED
    BY <1>1, <1>2, <1>3, <1>5, <2>1, SameAuthorityComposes DEF Onward
<1> QED
  BY <1>4, <1>5

\* A confirmation that contradicts the state leaves native state unknown,
\* and the work settled whatever it was.
LEMMA NativeConfirmationFaultSettled ==
  ASSUME NEW s, Tokened(s)
  PROVE  Settled(NativeConfirmationFault(s)) /\ Onward(s, NativeConfirmationFault(s))
<1> DEFINE degraded == Degrade(s)
           t == RequestClose(degraded, DefaultClose)
<1>1. NativeConfirmationFault(s) = t
  BY DEF NativeConfirmationFault
<1>2. Tidy(degraded) /\ degraded.unknown /\ Onward(s, degraded)
  BY DegradeTidy DEF Onward
<1> HIDE DEF degraded
<1>3. Settled(t) /\ Onward(degraded, t)
  BY <1>2, DefaultCloseType, RequestCloseSettled DEF CloseFits
<1> QED
  BY <1>1, <1>2, <1>3, OnwardComposes

\* What every public method preserves: the work is settled, and no lease
\* holder stands before its predecessor.
Sound(s) == Settled(s) /\ SuccessorWaits(s)

\* From s to t only fields change that the work behind the gate does not
\* depend on.
Unmoved(s, t) == Elsewhere(s, t) /\ t.pending = s.pending /\ WorkFields \subseteq DOMAIN t

\* For a state of the reducer that is the invariant.
LEMMA SoundIsInvariant ==
  ASSUME NEW s \in State
  PROVE  WorkSettled(s) <=> Sound(s)
BY StateShape DEF WorkSettled, Sound, Settled, Planned, Tidy, Tokened

\* What is sound is all the rest, and steps that keep the ground are sound.
LEMMA SoundSteps ==
  /\ \A s : Sound(s) => Settled(s) /\ Planned(s) /\ Tidy(s) /\ Tokened(s) /\ Shape(s)
  /\ \A s, t : Sound(s) /\ SameAuthority(s, t) /\ Settled(t) => Sound(t)
  /\ \A s, t : Sound(s) /\ Onward(s, t) /\ Settled(t) => Sound(t)
<1>1. \A s, t : Sound(s) /\ SameAuthority(s, t) /\ Settled(t) => Sound(t)
  BY SameAuthorityComposes DEF Sound
<1> QED
  BY <1>1 DEF Sound, Settled, Planned, Tidy, Tokened, Onward

\* States that are alike are sound together.
LEMMA AlikeSound ==
  ASSUME NEW s, NEW t, Shape(t), Alike(s, t)
  PROVE  /\ Sound(s) => Sound(t)
         /\ Tidy(s) => Tidy(t)
         /\ Planned(s) => Planned(t)
         /\ Settled(s) => Settled(t)
         /\ SameAuthority(s, t)
<1>1. Resembles(s, t)
  BY DEF Alike
<1> QED
  BY <1>1, AlikeTidy, SoundSteps, SameAuthorityComposes DEF Sound

\* States that differ in other fields are alike.
LEMMA UnmovedAlike ==
  ASSUME NEW s, NEW t, Shape(s), Unmoved(s, t)
  PROVE  Shape(t) /\ Alike(s, t)
<1>1. Shape(t)
  BY DEF Shape, Unmoved, Elsewhere
<1>2. SameTokens(s, t) /\ (OpenIsWanted(s) => OpenIsWanted(t))
  BY DEF SameTokens, OpenIsWanted, Unmoved
<1> QED
  BY <1>1, <1>2 DEF Alike, Resembles, Unmoved, Elsewhere, IsCapture

\* A controller that is gone keeps nobody waiting.
LEMMA NoControllerAlike ==
  ASSUME NEW s, Shape(s)
  PROVE  LET t == [s EXCEPT !.controller = NoController]
         IN  Shape(t) /\ Alike(s, t) /\ SuccessorWaits(t)
<1> DEFINE t == [s EXCEPT !.controller = NoController]
<1>1. /\ Shape(t) /\ t.pending = s.pending /\ ~IsCapture(t)
      /\ t.ownership = s.ownership /\ t.pastePhase = s.pastePhase
      /\ t.exit = s.exit /\ t.admission = s.admission
      /\ t.emergency = s.emergency /\ t.closePlan = s.closePlan /\ t.plan = s.plan
      /\ t.poisoned = s.poisoned /\ t.unknown = s.unknown
      /\ t.maintenance = s.maintenance /\ t.predecessor = s.predecessor
  BY DEF Shape, WorkFields, NoController, IsCapture, CaptureKinds
<1> HIDE DEF t
<1> QED
  BY <1>1 DEF Alike, Resembles, SameTokens, OpenIsWanted, SuccessorWaits, t

\* The phases of maintenance and exit survive their connection.
LEMMA SealWithoutRequesterAlike ==
  ASSUME NEW s, Shape(s)
  PROVE  Shape(SealWithoutRequester(s)) /\ Alike(s, SealWithoutRequester(s))
<1> DEFINE t == SealWithoutRequester(s)
<1>1. /\ WorkFields \subseteq DOMAIN t
      /\ t.pending = s.pending /\ t.controller = s.controller
      /\ t.ownership = s.ownership /\ t.pastePhase = s.pastePhase
      /\ t.admission = s.admission
      /\ t.emergency = s.emergency /\ t.closePlan = s.closePlan /\ t.plan = s.plan
      /\ t.poisoned = s.poisoned /\ t.unknown = s.unknown
      /\ t.predecessor = s.predecessor
  BY DEF SealWithoutRequester, Shape, WorkFields
<1>2. t.exit = "Running" <=> s.exit = "Running"
  BY DEF SealWithoutRequester, Shape, WorkFields
<1>3. /\ {"phase", "request"} \subseteq DOMAIN t.maintenance
      /\ t.maintenance.request = s.maintenance.request
      /\ t.maintenance.phase = IF s.maintenance.phase = "Exclusive" THEN "Sealed"
                               ELSE s.maintenance.phase
  BY DEF SealWithoutRequester, Shape, WorkFields
<1> HIDE DEF t
<1>4. Shape(t)
  BY <1>1, <1>3 DEF Shape
<1> QED
  BY <1>1, <1>2, <1>3, <1>4 DEF Alike, Resembles, SameTokens, OpenIsWanted, IsCapture, t

\* From s to t only the predecessor changes.
PredecessorOnly(s, t) ==
  /\ t.pending = s.pending /\ t.controller = s.controller
  /\ t.ownership = s.ownership /\ t.pastePhase = s.pastePhase
  /\ t.exit = s.exit /\ t.admission = s.admission
  /\ t.emergency = s.emergency /\ t.closePlan = s.closePlan /\ t.plan = s.plan
  /\ t.poisoned = s.poisoned /\ t.unknown = s.unknown
  /\ t.maintenance = s.maintenance

\* A predecessor may be told what is true.
LEMMA PredecessorTidy ==
  ASSUME NEW s, NEW t, Shape(t), PredecessorOnly(s, t),
         ~s.unknown /\ s.exit # "Running" /\ s.predecessor = None => t.predecessor = None,
         ~s.unknown => NeutralStays(t)
  PROVE  /\ Tidy(s) => Tidy(t)
         /\ Planned(s) => Planned(t)
         /\ Settled(s) => Settled(t)
<1>1. SameTokens(s, t) /\ (OpenIsWanted(t) <=> OpenIsWanted(s))
  BY DEF SameTokens, OpenIsWanted, PredecessorOnly
<1>2. /\ \A kind : HasPending(t, kind) <=> HasPending(s, kind)
      /\ OneOfAClass(t) <=> OneOfAClass(s)
      /\ AdmissionPends(t) <=> AdmissionPends(s)
      /\ DependentsBlocked(t) <=> DependentsBlocked(s)
  BY <1>1, TokensAlike DEF PredecessorOnly
<1>3. /\ PoisonStops(s) => PoisonStops(t)
      /\ DoubtIsUnknown(s) => DoubtIsUnknown(t)
      /\ CloseUnderway(s) => CloseUnderway(t)
      /\ OpeningIsClear(s) => OpeningIsClear(t)
      /\ CandidateIsPlanned(s) => CandidateIsPlanned(t)
      /\ PlanContinues(s) => PlanContinues(t)
  BY <1>1, <1>2 DEF PredecessorOnly, PoisonStops, DoubtIsUnknown, CloseUnderway, OpeningIsClear,
     CandidateIsPlanned, PlanContinues
<1>4. ~s.unknown /\ Orderly(s) => Orderly(t)
  <2>1. /\ WorkWaitsForGate(s) => WorkWaitsForGate(t)
        /\ AppliedWithoutCandidate(s) => AppliedWithoutCandidate(t)
        /\ PasteRecords(s) => PasteRecords(t)
        /\ CancellationUnderway(s) => CancellationUnderway(t)
        /\ PersistIsLast(s) => PersistIsLast(t)
        /\ SealCancelsPaste(s) => SealCancelsPaste(t)
    BY <1>2 DEF PredecessorOnly, WorkWaitsForGate, AppliedWithoutCandidate, PasteRecords,
       CancellationUnderway, PersistIsLast, SealCancelsPaste
  <2>2. ~s.unknown /\ StoppedIsDrained(s) => StoppedIsDrained(t)
    BY <1>2 DEF PredecessorOnly, StoppedIsDrained, IsCapture
  <2> QED
    BY <1>2, <2>1, <2>2 DEF Orderly
<1>5. t.unknown = s.unknown
  BY DEF PredecessorOnly
<1> QED
  BY <1>2, <1>3, <1>4, <1>5 DEF Settled, Planned, Tidy, Tokened

\* Telling a predecessor changes nothing else.
LEMMA OfferTidy ==
  ASSUME NEW s, Tidy(s), NEW event, CanOffer(s, event), event = "Neutral" => ~s.unknown
  PROVE  /\ PredecessorOnly(s, Offer(s, event))
         /\ Tidy(Offer(s, event))
         /\ Settled(s) => Settled(Offer(s, event))
         /\ Offer(s, event).predecessor # None => s.predecessor # None
<1> DEFINE t == Offer(s, event)
           p == [[[s.predecessor EXCEPT !.revoked = TRUE]
                    EXCEPT !.final = event \in {"Neutral", "Unavailable"}]
                    EXCEPT !.inFlight = event]
<1>1. s.predecessor # None
  BY DEF CanOffer
<1>2. {"revoked", "final", "inFlight"} \subseteq DOMAIN p /\ p.inFlight = event
  BY <1>1 DEF Tidy, Tokened, Shape
<1>3. t.predecessor = p
  BY <1>1 DEF Offer, Tidy, Tokened, Shape, WorkFields
<1>4. PredecessorOnly(s, t) /\ WorkFields \subseteq DOMAIN t
  BY DEF Offer, PredecessorOnly, Tidy, Tokened, Shape, WorkFields
<1> HIDE DEF t, p
<1>5. Shape(t)
  BY <1>2, <1>3, <1>4 DEF Tidy, Tokened, Shape, PredecessorOnly
<1>6. ASSUME ~s.unknown PROVE NeutralStays(t)
  <2> SUFFICES ASSUME event = "Neutral"
               PROVE  /\ s.admission = "Closed" /\ NativeNeutral(s.ownership)
                      /\ s.pastePhase.kind = "None"
                      /\ ~s.plan.candidate /\ ~s.plan.paste
    BY <1>2, <1>3, <1>4 DEF NeutralStays, PredecessorOnly
  <2>1. QuiescentForDisposition(s)
    BY DEF CanOffer, Truthful
  <2>2. Orderly(s)
    BY <1>6 DEF Tidy
  <2>3. s.pastePhase.kind = "None"
    BY <2>1, <2>2 DEF Orderly, PasteRecords, AdmissionPends, HasKind, PendingEmpty, NativeNeutral,
       QuiescentForDisposition
  <2> QED
    BY <2>1, <2>3 DEF QuiescentForDisposition, NoDependents
<1> QED
  BY <1>1, <1>4, <1>5, <1>6, PredecessorTidy DEF t

\* A lease holder that is retired becomes a predecessor, and is told.
LEMMA SnapshotTidy ==
  ASSUME NEW s, Tidy(s)
  PROVE  /\ Tidy(SnapshotPredecessor(s))
         /\ PredecessorOnly(s, SnapshotPredecessor(s))
<1> DEFINE p == [conn |-> s.controller.conn, epoch |-> s.controller.epoch,
                 revoked |-> FALSE, final |-> FALSE, inFlight |-> "None"]
           u == [s EXCEPT !.predecessor = p]
           held == IF s.predecessor = None /\ IsCapture(s) THEN u ELSE s
           t == SnapshotPredecessor(s)
<1>1. t = Offer(held, "Revoked")
  BY DEF SnapshotPredecessor
<1>2. {"revoked", "final", "inFlight"} \subseteq DOMAIN p /\ p.inFlight = "None"
  OBVIOUS
<1>3. WorkFields \subseteq DOMAIN u /\ u.predecessor = p /\ PredecessorOnly(s, u)
  BY DEF PredecessorOnly, Tidy, Tokened, Shape, WorkFields
<1> HIDE DEF p, u
<1>4. Shape(u)
  BY <1>2, <1>3 DEF Tidy, Tokened, Shape, PredecessorOnly
<1>5. Tidy(held) /\ PredecessorOnly(s, held)
  <2>1. CASE s.predecessor = None /\ IsCapture(s)
    <3>1. ~s.unknown => s.exit = "Running"
      BY <2>1 DEF Tidy, Orderly, StoppedIsDrained
    <3>2. NeutralStays(u)
      BY <1>2, <1>3 DEF NeutralStays
    <3>3. Tidy(u)
      BY <1>3, <1>4, <3>1, <3>2, PredecessorTidy
    <3> QED
      BY <1>3, <2>1, <3>3
  <2>2. CASE ~(s.predecessor = None /\ IsCapture(s))
    <3>1. held = s
      BY <2>2
    <3> QED
      BY <3>1 DEF PredecessorOnly
  <2> QED
    BY <2>1, <2>2
<1> HIDE DEF held, t
<1>6. CASE CanOffer(held, "Revoked")
  BY <1>1, <1>5, <1>6, OfferTidy DEF PredecessorOnly, t
<1>7. CASE ~CanOffer(held, "Revoked")
  <2>1. t = held
    BY <1>1, <1>7 DEF Offer
  <2> QED
    BY <1>5, <2>1 DEF t
<1> QED
  BY <1>6, <1>7

\* An unclaimed paste is given up.
LEMMA CancelUnclaimedTidy ==
  ASSUME NEW s, Shape(s)
  PROVE  LET t == CancelUnclaimedPaste(s)
         IN  /\ Shape(t) /\ GivesUpPaste(s, t) /\ SameAuthority(s, t)
             /\ Tidy(s) => Tidy(t)
             /\ Planned(s) => Planned(t)
             /\ SuccessorWaits(s) => SuccessorWaits(t)
BY CancelUnclaimedFields, GivesUpTidy, SameAuthorityComposes

\* A close that asks for nothing more leaves everything sound.
LEMMA DefaultCloseSound ==
  ASSUME NEW s, Tidy(s), SuccessorWaits(s)
  PROVE  Sound(RequestClose(s, DefaultClose))
<1>1. CloseFits(s, DefaultClose)
  BY DEF CloseFits, DefaultClose
<1> QED
  BY <1>1, DefaultCloseType, RequestCloseSettled, SameAuthorityComposes DEF Sound, Onward

\* So does the fault of a confirmation.
LEMMA FaultSound ==
  ASSUME NEW s, Tokened(s), SuccessorWaits(s)
  PROVE  Sound(NativeConfirmationFault(s))
BY NativeConfirmationFaultSettled, SameAuthorityComposes DEF Sound, Onward

\* Losing the controller that is active leaves the work sound.
LEMMA LoseActiveControllerSound ==
  ASSUME NEW s, Sound(s)
  PROVE  Sound(LoseActiveController(s))
<1> DEFINE told      == SnapshotPredecessor(s)
           snapshot  == SealWithoutRequester(told)
           revoked   == [snapshot EXCEPT !.controller = NoController]
           fresh     == InvalidateReconciliation(revoked)
           cancelled == CancelUnclaimedPaste(fresh)
           sealed    == SealWithoutRequester(s)
           t         == [sealed EXCEPT !.controller = NoController]
<1>1. CASE IsCapture(s)
  <2>1. LoseActiveController(s) = RequestClose(cancelled, DefaultClose)
    BY <1>1 DEF LoseActiveController
  <2>2. Tidy(told) /\ Shape(told)
    BY SoundSteps, SnapshotTidy DEF Tidy, Tokened
  <2> HIDE DEF told
  <2>3. Tidy(snapshot) /\ Shape(snapshot)
    BY <2>2, SealWithoutRequesterAlike, AlikeSound
  <2> HIDE DEF snapshot
  <2>4. Tidy(revoked) /\ Shape(revoked) /\ SuccessorWaits(revoked)
    BY <2>3, NoControllerAlike, AlikeSound
  <2> HIDE DEF revoked
  <2>5. Tidy(fresh) /\ Shape(fresh) /\ SuccessorWaits(fresh)
    BY <2>4, AlikeUpdates, AlikeSound, SameAuthorityComposes
  <2> HIDE DEF fresh
  <2>6. Tidy(cancelled) /\ SuccessorWaits(cancelled)
    BY <2>5, CancelUnclaimedTidy
  <2> HIDE DEF cancelled
  <2> QED
    BY <2>1, <2>6, DefaultCloseSound
<1>2. CASE ~IsCapture(s)
  <2>1. LoseActiveController(s) = t
    BY <1>2 DEF LoseActiveController
  <2>2. Sound(sealed) /\ Shape(sealed)
    BY SoundSteps, SealWithoutRequesterAlike, AlikeSound
  <2> HIDE DEF sealed
  <2>3. Sound(t)
    BY <2>2, NoControllerAlike, AlikeSound
  <2> QED
    BY <2>1, <2>3
<1> QED
  BY <1>1, <1>2

\* So does rollback.
LEMMA PriorityRollbackSound ==
  ASSUME NEW s, Sound(s)
  PROVE  Sound(PriorityRollback(s))
<1> DEFINE latched == [s EXCEPT !.rollback = TRUE]
           told    == SnapshotPredecessor(latched)
           fresh   == InvalidateReconciliation(told)
           gone    == [fresh EXCEPT !.controller = NoController]
           revoked == [gone EXCEPT !.plan.config = None]
           marked  == Supersede(revoked, SemanticKinds)
           cancelled == CancelUnclaimedPaste(marked)
<1>1. Tidy(latched)
  <2>1. Shape(s) /\ Unmoved(s, latched)
    BY SoundSteps DEF Unmoved, Elsewhere, Shape, WorkFields
  <2> QED
    BY <2>1, UnmovedAlike, AlikeSound, SoundSteps
<1>2. PriorityRollback(s) = RequestClose(cancelled, DefaultClose)
  <2>1. [fresh EXCEPT !.controller = NoController, !.plan.config = None] = revoked
    OBVIOUS
  <2> QED
    BY <2>1 DEF PriorityRollback
<1> HIDE DEF latched
<1>3. Tidy(told) /\ Shape(told)
  BY <1>1, SnapshotTidy DEF Tidy, Tokened
<1> HIDE DEF told
<1>4. Tidy(fresh) /\ Shape(fresh)
  BY <1>3, AlikeUpdates, AlikeSound
<1> HIDE DEF fresh
<1>5. Tidy(gone) /\ Shape(gone) /\ SuccessorWaits(gone)
  BY <1>4, NoControllerAlike, AlikeSound
<1> HIDE DEF gone
<1>6. Tidy(revoked) /\ Shape(revoked) /\ SuccessorWaits(revoked)
  <2>1. /\ Shape(revoked)
        /\ revoked.pending = gone.pending /\ revoked.admission = gone.admission
        /\ revoked.pastePhase = gone.pastePhase /\ revoked.closePlan = gone.closePlan
        /\ revoked.emergency = gone.emergency /\ revoked.poisoned = gone.poisoned
        /\ revoked.unknown = gone.unknown
        /\ revoked.predecessor = gone.predecessor /\ revoked.controller = gone.controller
        /\ revoked.maintenance = gone.maintenance /\ revoked.exit = gone.exit
        /\ revoked.ownership = gone.ownership
        /\ revoked.plan.config = None
        /\ \A f \in {"candidate", "paste", "persist"} : revoked.plan[f] = gone.plan[f]
    BY <1>5 DEF Shape, WorkFields
  <2>2. gone.plan = NoDependents => revoked.plan = NoDependents
    <3>1. revoked.plan = [gone.plan EXCEPT !.config = None]
      BY <1>5 DEF Shape, WorkFields
    <3>2. \A p \in DependentPlan : p.config = None => [p EXCEPT !.config = None] = p
      BY DEF DependentPlan
    <3>3. NoDependents \in DependentPlan /\ NoDependents.config = None
      BY DEF DependentPlan, NoDependents
    <3> QED
      BY <3>1, <3>2, <3>3
  <2> HIDE DEF revoked
  <2>3. SameTokens(gone, revoked) /\ SuccessorWaits(revoked)
    BY <1>5, <2>1 DEF SameTokens, SuccessorWaits, IsCapture
  <2>4. Tokened(revoked) /\ \A kind : HasPending(revoked, kind) <=> HasPending(gone, kind)
    BY <1>5, <2>1, <2>2, <2>3, TokensAlike DEF Tidy, Tokened, PoisonStops
  <2>5. DoubtIsUnknown(revoked)
    BY <1>5, <2>1 DEF Tidy, DoubtIsUnknown
  <2>6. ASSUME ~revoked.unknown PROVE Orderly(revoked)
    <3>1. Orderly(gone)
      BY <1>5, <2>1, <2>6 DEF Tidy
    <3>2. /\ WorkWaitsForGate(revoked) /\ AppliedWithoutCandidate(revoked) /\ PasteRecords(revoked)
          /\ CancellationUnderway(revoked) /\ PersistIsLast(revoked) /\ SealCancelsPaste(revoked)
      BY <2>1, <2>4, <3>1 DEF Orderly, WorkWaitsForGate, AppliedWithoutCandidate, PasteRecords,
         CancellationUnderway, PersistIsLast, SealCancelsPaste
    <3>3. AdmissionPends(revoked) /\ StoppedIsDrained(revoked) /\ NeutralStays(revoked)
      BY <2>1, <2>2, <2>3, <2>4, <3>1, TokensAlike DEF Orderly, StoppedIsDrained, NeutralStays,
         IsCapture
    <3> QED
      BY <3>2, <3>3 DEF Orderly
  <2> QED
    BY <2>1, <2>3, <2>4, <2>5, <2>6 DEF Tidy
<1> HIDE DEF revoked
<1>7. Tidy(marked) /\ Shape(marked) /\ SuccessorWaits(marked)
  BY <1>6, AlikeUpdates, AlikeTidy, SameAuthorityComposes
<1> HIDE DEF marked
<1>8. Tidy(cancelled) /\ SuccessorWaits(cancelled)
  BY <1>7, CancelUnclaimedTidy
<1> HIDE DEF cancelled
<1> QED
  BY <1>2, <1>8, DefaultCloseSound

\* So does a release.
LEMMA ReleaseSound ==
  ASSUME Sound(owner), Release
  PROVE  Sound(owner')
<1> DEFINE told      == SnapshotPredecessor(owner)
           cancelled == CancelUnclaimedPaste(told)
           revoked   == [cancelled EXCEPT !.controller = NoController]
           released  == InvalidateReconciliation(revoked)
           close     == [DefaultClose EXCEPT !.release = TRUE]
<1>1. owner' = RequestClose(released, close)
  BY DEF Release
<1>2. Tidy(told) /\ Shape(told)
  BY SoundSteps, SnapshotTidy DEF Tidy, Tokened
<1> HIDE DEF told
<1>3. Tidy(cancelled) /\ Shape(cancelled)
  BY <1>2, CancelUnclaimedTidy
<1> HIDE DEF cancelled
<1>4. Tidy(revoked) /\ Shape(revoked) /\ SuccessorWaits(revoked)
  BY <1>3, NoControllerAlike, AlikeSound
<1> HIDE DEF revoked
<1>5. Tidy(released) /\ SuccessorWaits(released)
  BY <1>4, AlikeUpdates, AlikeSound, SameAuthorityComposes
<1> HIDE DEF released
<1>6. close \in ClosePlan /\ close.config = None /\ ~close.persist
  BY DEF DefaultClose, ClosePlan
<1> HIDE DEF close
<1>7. Settled(RequestClose(released, close)) /\ Onward(released, RequestClose(released, close))
  BY <1>5, <1>6, RequestCloseSettled DEF CloseFits
<1> QED
  BY <1>1, <1>5, <1>7, SameAuthorityComposes DEF Sound, Onward

\* Retiring a controller, and telling its predecessor.
LEMMA RetireSound ==
  ASSUME owner \in State, Sound(owner), Retire
  PROVE  Sound(owner')
<1>1. Shape(owner) /\ Tidy(owner)
  BY SoundSteps
<1>2. CASE LatchRuntimeRollback
  BY <1>2, PriorityRollbackSound DEF LatchRuntimeRollback
<1>3. CASE ProtocolFault
  BY <1>3, LoseActiveControllerSound DEF ProtocolFault
<1>4. ASSUME NEW conn \in Connections, ControllerLost(conn) PROVE Sound(owner')
  <2>1. CASE owner' = LoseActiveController(owner)
    BY <2>1, LoseActiveControllerSound
  <2>2. CASE owner' = [owner EXCEPT !.maintenance.requester = None]
    <3> DEFINE t == [owner EXCEPT !.maintenance.requester = None]
    <3>1. /\ WorkFields \subseteq DOMAIN t
          /\ t.pending = owner.pending /\ t.controller = owner.controller
          /\ t.ownership = owner.ownership /\ t.pastePhase = owner.pastePhase
          /\ t.admission = owner.admission /\ t.exit = owner.exit
          /\ t.emergency = owner.emergency /\ t.closePlan = owner.closePlan
          /\ t.plan = owner.plan
          /\ t.poisoned = owner.poisoned /\ t.unknown = owner.unknown
          /\ t.predecessor = owner.predecessor
          /\ {"phase", "request"} \subseteq DOMAIN t.maintenance
          /\ t.maintenance.request = owner.maintenance.request
          /\ t.maintenance.phase = owner.maintenance.phase
      BY <1>1 DEF Shape, WorkFields
    <3>2. owner' = t
      BY <2>2
    <3> HIDE DEF t
    <3>3. Shape(t) /\ Alike(owner, t)
      BY <1>1, <3>1 DEF Shape, Alike, Resembles, SameTokens, OpenIsWanted, IsCapture
    <3> QED
      BY <3>2, <3>3, AlikeSound
  <2> QED
    BY <1>4, <2>1, <2>2 DEF ControllerLost
<1>5. ASSUME NEW event \in TerminalEvents, OfferPredecessorTerminal(event) PROVE Sound(owner')
  <2>1. CanOffer(owner, event) /\ owner' = Offer(owner, event)
    BY <1>5 DEF OfferPredecessorTerminal
  <2>2. event = "Neutral" => ~owner.unknown
    BY <2>1 DEF CanOffer, Truthful, QuiescentForDisposition
  <2>3. /\ Settled(Offer(owner, event)) /\ PredecessorOnly(owner, Offer(owner, event))
        /\ Offer(owner, event).predecessor # None => owner.predecessor # None
    BY <1>1, <2>1, <2>2, SoundSteps, OfferTidy
  <2> QED
    BY <2>1, <2>3 DEF Sound, SuccessorWaits, PredecessorOnly, IsCapture
<1>6. CASE ConfirmPredecessorTerminalWritten \/ FailPredecessorTerminalWrite
  <2> DEFINE forgotten == [owner EXCEPT !.predecessor = None]
             written   == [owner EXCEPT !.predecessor.inFlight = "None"]
  <2>1. owner.predecessor # None /\ owner' \in {forgotten, written}
    BY <1>6 DEF ConfirmPredecessorTerminalWritten, FailPredecessorTerminalWrite
  <2>2. /\ PredecessorOnly(owner, forgotten) /\ WorkFields \subseteq DOMAIN forgotten
        /\ forgotten.predecessor = None
        /\ PredecessorOnly(owner, written) /\ WorkFields \subseteq DOMAIN written
        /\ {"revoked", "final", "inFlight"} \subseteq DOMAIN written.predecessor
        /\ written.predecessor.inFlight = "None"
    BY <1>1, <2>1 DEF PredecessorOnly, Shape, WorkFields
  <2> HIDE DEF forgotten, written
  <2>3. Shape(owner') /\ PredecessorOnly(owner, owner') /\ NeutralStays(owner')
    BY <1>1, <2>1, <2>2 DEF Shape, PredecessorOnly, NeutralStays
  <2>4. Settled(owner')
    BY <2>1, <2>3, SoundSteps, PredecessorTidy
  <2> QED
    BY <2>1, <2>3, <2>4 DEF Sound, SuccessorWaits, PredecessorOnly, IsCapture
<1> QED
  BY <1>2, <1>3, <1>4, <1>5, <1>6 DEF Retire

\* Starting the owner, and what it sees of its readiness.
LEMMA StartupSound ==
  ASSUME Sound(owner), Startup
  PROVE  Sound(owner')
<1>1. Shape(owner)
  BY SoundSteps
<1>2. CASE ConfirmStartupSnapshotSeeded \/ StartupCompleted
  <2>1. Unmoved(owner, owner')
    BY <1>1, <1>2 DEF ConfirmStartupSnapshotSeeded, StartupCompleted, Unmoved, Elsewhere, Shape,
       WorkFields
  <2> QED
    BY <1>1, <2>1, UnmovedAlike, AlikeSound
<1>3. ASSUME NEW ready \in SUBSET Prerequisites, NEW pasteReady \in BOOLEAN,
             ObserveNativeReadiness(ready, pasteReady)
      PROVE  Sound(owner')
  <2> DEFINE keyboardLost == owner.ready \ ready # {}
             pasteLost    == owner.pasteReady /\ ~pasteReady
             seen         == [owner EXCEPT !.ready = ready, !.pasteReady = pasteReady]
             invalidated  == IF keyboardLost THEN InvalidateReconciliation(seen) ELSE seen
             cancelled    == IF pasteLost THEN CancelUnclaimedPaste(invalidated) ELSE invalidated
  <2>1. owner' \in {RequestClose(cancelled, DefaultClose), IssueNextDependent(cancelled)}
    BY <1>3 DEF ObserveNativeReadiness
  <2>2. Sound(seen) /\ Shape(seen)
    <3>1. Unmoved(owner, seen)
      BY <1>1 DEF Unmoved, Elsewhere, Shape, WorkFields
    <3> HIDE DEF seen
    <3> QED
      BY <1>1, <3>1, UnmovedAlike, AlikeSound
  <2> HIDE DEF seen
  <2>3. Sound(invalidated) /\ Shape(invalidated)
    BY <2>2, AlikeUpdates, AlikeSound
  <2> HIDE DEF invalidated
  <2>4. Planned(cancelled) /\ Tidy(cancelled) /\ SuccessorWaits(cancelled)
    <3>1. Planned(invalidated) /\ SuccessorWaits(invalidated)
      BY <2>3, SoundSteps DEF Sound
    <3> QED
      BY <2>3, <3>1, CancelUnclaimedTidy DEF Planned
  <2> HIDE DEF cancelled
  <2>5. Sound(RequestClose(cancelled, DefaultClose))
    BY <2>4, DefaultCloseSound
  <2>6. Sound(IssueNextDependent(cancelled))
    BY <2>4, IssueNextDependentSettled, SameAuthorityComposes DEF Sound, Onward
  <2> QED
    BY <2>1, <2>5, <2>6
<1> QED
  BY <1>2, <1>3 DEF Startup

\* The first token of a lease that has none.
LEMMA FirstTokenSound ==
  ASSUME NEW s, Sound(s), PendingEmpty(s), s.exit = "Running",
         NEW kind \in {"SessionMode", "Open", "AdmitPaste"}, NEW arg,
         [kind |-> kind, arg |-> arg, config |-> None, superseded |-> FALSE] \in Action
  PROVE  LET t == Issue(s, kind, arg, None)
         IN  /\ Sound(t)
             /\ Allocatable(s) =>
                  /\ Elsewhere(s, t) /\ OpenIsWanted(t)
                  /\ \A k : HasPending(t, k) <=> k = kind
                  /\ \E i \in Slots : HasKind(t.pending[i], kind) /\ t.pending[i].arg = arg
<1> DEFINE t == Issue(s, kind, arg, None)
<1>1. Tokened(s) /\ Settled(s) /\ Tidy(s)
  BY SoundSteps
<1>2. (\A k : ~HasPending(s, k)) /\ OpenIsWanted(s)
  BY DEF PendingEmpty, HasPending, OpenIsWanted, HasKind
<1>3. \/ /\ Allocatable(s) /\ Tokened(t) /\ Elsewhere(s, t)
         /\ \A k : HasPending(t, k) <=> HasPending(s, k) \/ k = kind
         /\ AdmissionPends(s) => AdmissionPends(t)
         /\ OpenIsWanted(s) => OpenIsWanted(t)
         /\ \E i \in Slots : HasKind(t.pending[i], kind) /\ t.pending[i].arg = arg
      \/ /\ ~Allocatable(s) /\ Settled(t) /\ SameAuthority(s, t)
  <2>1. kind \notin DependentKinds
    BY Kinds
  <2> QED
    BY <1>1, <1>2, <2>1, IssueOutcome
<1> HIDE DEF t
<1>4. CASE Allocatable(s)
  <2>1. Settled(t)
    BY <1>1, <1>3, <1>4, IndependentTokenSettled
  <2>2. Sound(t)
    BY <1>3, <1>4, <2>1, SoundSteps, SameAuthorityComposes
  <2> QED
    BY <1>2, <1>3, <1>4, <2>2 DEF t
<1>5. CASE ~Allocatable(s)
  BY <1>3, <1>5, SoundSteps DEF t
<1> QED
  BY <1>4, <1>5

\* Becoming the lease holder, and commands of the holder that close nothing.
LEMMA GrantSound ==
  ASSUME Sound(owner), NEW conn \in Connections,
         AuthenticateObserver(conn) \/ AcquireCaptureLease(conn)
  PROVE  Sound(owner')
<1>1. Shape(owner)
  BY SoundSteps
<1>2. CASE AuthenticateObserver(conn)
  <2> DEFINE t == [owner EXCEPT !.controller = [kind |-> "Observer", conn |-> conn, epoch |-> 0]]
  <2>1. /\ Shape(t) /\ t.pending = owner.pending /\ ~IsCapture(t)
        /\ t.ownership = owner.ownership /\ t.pastePhase = owner.pastePhase
        /\ t.exit = owner.exit /\ t.admission = owner.admission
        /\ t.emergency = owner.emergency /\ t.closePlan = owner.closePlan /\ t.plan = owner.plan
        /\ t.poisoned = owner.poisoned /\ t.unknown = owner.unknown
        /\ t.maintenance = owner.maintenance /\ t.predecessor = owner.predecessor
    BY <1>1 DEF Shape, WorkFields, IsCapture, CaptureKinds
  <2>2. owner' = t
    BY <1>2 DEF AuthenticateObserver
  <2> HIDE DEF t
  <2>3. Alike(owner, t)
    BY <2>1 DEF Alike, Resembles, SameTokens, OpenIsWanted
  <2> QED
    BY <2>1, <2>2, <2>3, AlikeSound
<1>3. CASE AcquireCaptureLease(conn)
  <2> DEFINE lease == [kind |-> "Disabled", conn |-> conn, epoch |-> owner.captureEpoch + 1]
             fresh == InvalidateReconciliation(owner)
             t     == [fresh EXCEPT !.captureEpoch = fresh.captureEpoch + 1,
                                    !.controller   = lease,
                                    !.highWater    = 0]
  <2>1. owner' = t
    BY <1>3 DEF AcquireCaptureLease
  <2>2. Shape(fresh) /\ Alike(owner, fresh) /\ Sound(fresh)
    BY <1>1, AlikeUpdates, AlikeSound
  <2>3. fresh.exit = "Running" /\ fresh.predecessor = None
    BY <1>3, <2>2 DEF AcquireCaptureLease, ServingHealthy, Quiescent, Alike, Resembles
  <2> HIDE DEF fresh
  <2>4. /\ Shape(t) /\ t.pending = fresh.pending
        /\ t.ownership = fresh.ownership /\ t.pastePhase = fresh.pastePhase
        /\ t.exit = fresh.exit /\ t.admission = fresh.admission
        /\ t.emergency = fresh.emergency /\ t.closePlan = fresh.closePlan /\ t.plan = fresh.plan
        /\ t.poisoned = fresh.poisoned /\ t.unknown = fresh.unknown
        /\ t.maintenance = fresh.maintenance /\ t.predecessor = fresh.predecessor
    BY <2>2 DEF Shape, WorkFields
  <2> HIDE DEF t
  <2>5. Alike(fresh, t)
    BY <2>3, <2>4 DEF Alike, Resembles, SameTokens, OpenIsWanted
  <2> QED
    BY <2>1, <2>2, <2>4, <2>5, AlikeSound
<1> QED
  BY <1>2, <1>3

\* A session mode is asked for only when nothing is pending.
LEMMA SetSessionModeSound ==
  ASSUME Sound(owner), NEW mode \in SessionModes \cup {"Off"}, SetSessionMode(mode)
  PROVE  Sound(owner')
<1> DEFINE issued == Issue(owner, "SessionMode", mode, None)
           t == [issued EXCEPT !.mode = None]
<1>1. PendingEmpty(owner) /\ owner.exit = "Running" /\ owner' \in {issued, t}
  BY DEF SetSessionMode, SemanticCommandAllowed, CommandAllowed
<1>2. [kind |-> "SessionMode", arg |-> mode, config |-> None, superseded |-> FALSE] \in Action
  BY ActionTypes
<1>3. Sound(issued) /\ Shape(issued)
  BY <1>1, <1>2, FirstTokenSound, SoundSteps
<1> HIDE DEF issued
<1>4. Unmoved(issued, t)
  BY <1>3 DEF Unmoved, Elsewhere, Shape, WorkFields
<1> HIDE DEF t
<1> QED
  BY <1>1, <1>3, <1>4, UnmovedAlike, AlikeSound

\* A configuration that is replaced is asked for with a close, in whatever
\* state the gate is.
LEMMA ReplaceConfigurationSound ==
  ASSUME owner \in State, Sound(owner), NEW revision \in Revisions, ReplaceConfiguration(revision)
  PROVE  Sound(owner')
<1> DEFINE request == [epoch |-> owner.controller.epoch, revision |-> revision]
           asked   == [owner EXCEPT !.highWater = revision, !.requested = request,
                                    !.applied = None]
           close   == [DefaultClose EXCEPT !.config = request]
<1>1. owner' = RequestClose(asked, close) /\ PendingEmpty(owner) /\ owner.exit = "Running"
  BY DEF ReplaceConfiguration, SemanticCommandAllowed, CommandAllowed
<1>2. close \in ClosePlan
  <2>1. request \in Configuration
    BY FieldTypes, BoundsAssumption DEF Controller, Configuration
  <2> HIDE DEF request
  <2> QED
    BY <2>1 DEF DefaultClose, ClosePlan
<1> HIDE DEF close
<1>3. Shape(owner) /\ Unmoved(owner, asked)
  BY SoundSteps DEF Unmoved, Elsewhere, Shape, WorkFields
<1> HIDE DEF asked
<1>4. Sound(asked) /\ Tidy(asked)
  BY <1>3, UnmovedAlike, AlikeSound, SoundSteps
<1>5. CloseFits(asked, close)
  BY <1>1, <1>3 DEF CloseFits, Unmoved, Elsewhere, HasPending, PendingEmpty
<1>6. Settled(RequestClose(asked, close)) /\ Onward(asked, RequestClose(asked, close))
  BY <1>2, <1>4, <1>5, RequestCloseSettled
<1> QED
  BY <1>1, <1>4, <1>6, SoundSteps

\* A gate opens only when nothing is held, planned or pending.
LEMMA EnableSound ==
  ASSUME Sound(owner), Enable
  PROVE  Sound(owner')
<1> DEFINE issued == Issue(owner, "Open", None, None)
           t == [issued EXCEPT !.admission = "Opening"]
<1>1. /\ owner' = IF Allocatable(owner) THEN t ELSE issued
      /\ PendingEmpty(owner) /\ owner.exit = "Running" /\ CanOpenKeyboard(owner)
  BY DEF Enable, SemanticCommandAllowed, CommandAllowed
<1>2. [kind |-> "Open", arg |-> None, config |-> None, superseded |-> FALSE] \in Action
  BY ActionTypes
<1>3. /\ Sound(issued)
      /\ Allocatable(owner) =>
           /\ Elsewhere(owner, issued) /\ OpenIsWanted(issued)
           /\ \A k : HasPending(issued, k) <=> k = "Open"
  BY <1>1, <1>2, FirstTokenSound
<1>4. CASE Allocatable(owner)
  <2>1. /\ owner.plan = NoDependents /\ NativeNeutral(owner.ownership) /\ ~owner.unknown
        /\ owner.maintenance.phase = "None" /\ owner.predecessor = None
    BY <1>1 DEF CanOpenKeyboard, EnablePrerequisites
  <2>2. Orderly(owner) /\ owner.pastePhase.kind = "None"
    <3>1. Orderly(owner)
      BY <2>1, SoundSteps DEF Tidy
    <3> QED
      BY <1>1, <2>1, <3>1 DEF Orderly, PasteRecords, AdmissionPends, HasKind, PendingEmpty,
         NativeNeutral
  <2> HIDE DEF issued
  <2>3. Shape(issued) /\ Tokened(issued) /\ Tidy(issued)
    BY <1>3, SoundSteps
  <2>4. /\ Shape(t) /\ t.pending = issued.pending /\ t.admission = "Opening"
        /\ t.controller = issued.controller
        /\ t.ownership = issued.ownership /\ t.pastePhase = issued.pastePhase
        /\ t.exit = issued.exit
        /\ t.emergency = issued.emergency /\ t.closePlan = issued.closePlan
        /\ t.plan = issued.plan
        /\ t.poisoned = issued.poisoned /\ t.unknown = issued.unknown
        /\ t.maintenance = issued.maintenance /\ t.predecessor = issued.predecessor
    BY <2>3 DEF Shape, WorkFields
  <2>5. owner' = t
    BY <1>1, <1>4
  <2> HIDE DEF t
  <2>6. SameTokens(issued, t) /\ OpenIsWanted(t) /\ SameAuthority(owner, t)
    BY <1>3, <1>4, <2>4 DEF SameTokens, OpenIsWanted, SameAuthority, Elsewhere, IsCapture
  <2>7. Tokened(t) /\ \A k : HasPending(t, k) <=> k = "Open"
    BY <1>3, <1>4, <2>3, <2>4, <2>6, TokensAlike DEF Tokened, PoisonStops
  <2>8. DoubtIsUnknown(t) /\ CloseUnderway(t)
    BY <2>3, <2>4 DEF Tidy, DoubtIsUnknown, CloseUnderway
  <2>9. /\ WorkWaitsForGate(t) /\ OpeningIsClear(t) /\ AppliedWithoutCandidate(t)
        /\ CandidateIsPlanned(t) /\ PlanContinues(t)
    BY <1>1, <1>3, <1>4, <2>1, <2>2, <2>4, <2>6, <2>7 DEF Elsewhere, WorkWaitsForGate,
       OpeningIsClear, AppliedWithoutCandidate, CandidateIsPlanned, PlanContinues, NoDependents,
       NativeNeutral
  <2>10. /\ PasteRecords(t) /\ CancellationUnderway(t) /\ PersistIsLast(t) /\ SealCancelsPaste(t)
         /\ AdmissionPends(t) /\ StoppedIsDrained(t) /\ NeutralStays(t)
    BY <1>1, <1>3, <1>4, <2>1, <2>2, <2>4, <2>7 DEF Elsewhere, NativeNeutral, PasteRecords,
       CancellationUnderway, PersistIsLast, SealCancelsPaste, AdmissionPends, StoppedIsDrained,
       NeutralStays
  <2>11. Settled(t)
    BY <2>7, <2>8, <2>9, <2>10 DEF Settled, Planned, Tidy, Orderly
  <2> QED
    BY <2>5, <2>6, <2>11, SoundSteps
<1>5. CASE ~Allocatable(owner)
  BY <1>1, <1>3, <1>5
<1> QED
  BY <1>4, <1>5

\* A paste is admitted only where there is none and nothing is pending.
LEMMA BeginPasteSound ==
  ASSUME Sound(owner), NEW paste \in Pastes, BeginPaste(paste)
  PROVE  Sound(owner')
<1> DEFINE issued == Issue(owner, "AdmitPaste", paste, None)
           phase == [kind |-> "Admitting", auth |-> paste, cancel |-> FALSE]
           t == [issued EXCEPT !.pastePhase = phase]
<1>1. /\ owner' = IF Allocatable(owner) THEN t ELSE issued
      /\ PendingEmpty(owner) /\ owner.exit = "Running" /\ IsCapture(owner)
      /\ owner.pastePhase.kind = "None" /\ ~owner.unknown
      /\ owner.maintenance.phase = "None"
  BY DEF BeginPaste, SemanticCommandAllowed, CommandAllowed
<1>2. [kind |-> "AdmitPaste", arg |-> paste, config |-> None, superseded |-> FALSE] \in Action
  BY ActionTypes
<1>3. /\ Sound(issued)
      /\ Allocatable(owner) =>
           /\ Elsewhere(owner, issued) /\ OpenIsWanted(issued)
           /\ \A k : HasPending(issued, k) <=> k = "AdmitPaste"
           /\ \E i \in Slots : HasKind(issued.pending[i], "AdmitPaste")
                                /\ issued.pending[i].arg = paste
  BY <1>1, <1>2, FirstTokenSound
<1>4. CASE Allocatable(owner)
  <2>1. Orderly(owner) /\ owner.predecessor = None /\ OpeningIsClear(owner)
        /\ CandidateIsPlanned(owner) /\ CloseUnderway(owner) /\ DoubtIsUnknown(owner)
    BY <1>1, SoundSteps DEF Sound, Planned, Tidy, SuccessorWaits
  <2>2. owner.admission # "Opening" /\ owner.ownership.paste = "None"
    BY <1>1, <2>1 DEF OpeningIsClear, HasPending, PendingEmpty, Orderly, PasteRecords
  <2> HIDE DEF issued
  <2>3. Shape(issued) /\ Tokened(issued) /\ Planned(issued)
    BY <1>3, SoundSteps
  <2>4. /\ Shape(t) /\ t.pending = issued.pending /\ t.admission = issued.admission
        /\ t.controller = issued.controller
        /\ t.ownership = issued.ownership
        /\ t.pastePhase.kind = "Admitting" /\ t.pastePhase.auth = paste
        /\ t.exit = issued.exit
        /\ t.emergency = issued.emergency /\ t.closePlan = issued.closePlan
        /\ t.plan = issued.plan
        /\ t.poisoned = issued.poisoned /\ t.unknown = issued.unknown
        /\ t.maintenance = issued.maintenance /\ t.predecessor = issued.predecessor
    BY <2>3, NoneAssumption DEF Shape, WorkFields
  <2>5. owner' = t
    BY <1>1, <1>4
  <2> HIDE DEF t
  <2>6. SameTokens(issued, t) /\ SameAuthority(owner, t)
    BY <1>3, <1>4, <2>4 DEF SameTokens, SameAuthority, Elsewhere, IsCapture
  <2>7. Tokened(t) /\ \A k : HasPending(t, k) <=> k = "AdmitPaste"
    BY <1>3, <1>4, <2>3, <2>4, <2>6, TokensAlike DEF Tokened, PoisonStops
  <2>8. DoubtIsUnknown(t) /\ CloseUnderway(t)
    BY <1>3, <1>4, <2>3, <2>4, <2>7 DEF Planned, Tidy, DoubtIsUnknown, CloseUnderway
  <2>9. /\ WorkWaitsForGate(t) /\ OpeningIsClear(t) /\ AppliedWithoutCandidate(t)
        /\ CandidateIsPlanned(t) /\ PlanContinues(t)
    BY <1>3, <1>4, <2>1, <2>2, <2>4, <2>7, BlockedByKind DEF Elsewhere, Orderly,
       WorkWaitsForGate, OpeningIsClear, AppliedWithoutCandidate, CandidateIsPlanned, PlanContinues
  <2>10. /\ PasteRecords(t) /\ CancellationUnderway(t) /\ PersistIsLast(t) /\ SealCancelsPaste(t)
         /\ AdmissionPends(t) /\ StoppedIsDrained(t) /\ NeutralStays(t)
    BY <1>1, <1>3, <1>4, <2>1, <2>2, <2>4, <2>7 DEF Elsewhere, PasteRecords,
       CancellationUnderway, PersistIsLast, SealCancelsPaste, AdmissionPends, StoppedIsDrained,
       NeutralStays
  <2>11. Settled(t)
    BY <2>7, <2>8, <2>9, <2>10 DEF Settled, Planned, Tidy, Orderly
  <2> QED
    BY <2>5, <2>6, <2>11, SoundSteps
<1>5. CASE ~Allocatable(owner)
  BY <1>1, <1>3, <1>5
<1> QED
  BY <1>4, <1>5

\* All commands of capture.
LEMMA CaptureSound ==
  ASSUME owner \in State, Sound(owner), Capture
  PROVE  Sound(owner')
<1>1. CASE Disable
  <2>1. Tidy(owner) /\ SuccessorWaits(owner)
    BY SoundSteps DEF Sound
  <2> QED
    BY <1>1, <2>1, DefaultCloseSound DEF Disable
<1> QED
  BY <1>1, GrantSound, SetSessionModeSound, ReplaceConfigurationSound, EnableSound,
     BeginPasteSound, ReleaseSound DEF Capture

\* From s to t only the ownership changes.
OwnershipOnly(s, t) ==
  /\ t.pending = s.pending /\ t.controller = s.controller /\ t.pastePhase = s.pastePhase
  /\ t.exit = s.exit /\ t.admission = s.admission
  /\ t.emergency = s.emergency /\ t.closePlan = s.closePlan /\ t.plan = s.plan
  /\ t.poisoned = s.poisoned /\ t.unknown = s.unknown
  /\ t.maintenance = s.maintenance /\ t.predecessor = s.predecessor

\* Whatever is observed leaves the tokens as they were.
LEMMA OwnershipTokened ==
  ASSUME NEW s, NEW t, Tokened(s), Shape(t), OwnershipOnly(s, t)
  PROVE  Tokened(t) /\ SameTokens(s, t) /\ SameAuthority(s, t)
<1>1. SameTokens(s, t) /\ SameAuthority(s, t)
  BY DEF SameTokens, SameAuthority, OwnershipOnly, IsCapture
<1> QED
  BY <1>1, TokensAlike DEF OwnershipOnly, Tokened, PoisonStops

\* What is observed legally keeps the work settled: behind a gate that is not
\* open no candidate appears, and what is neutral stays neutral.
LEMMA OwnershipSettled ==
  ASSUME NEW s, NEW t, Shape(t), OwnershipOnly(s, t),
         t.ownership.paste = s.ownership.paste,
         s.admission \in {"Closed", "Opening"} /\ t.ownership.candidate = "Active" =>
           s.ownership.candidate = "Active",
         s.admission = "Closed" /\ NativeNeutral(s.ownership) => NativeNeutral(t.ownership)
  PROVE  /\ Planned(s) => Planned(t)
         /\ Settled(s) => Settled(t)
         /\ SameAuthority(s, t)
<1>1. SameTokens(s, t) /\ SameAuthority(s, t) /\ (OpenIsWanted(t) <=> OpenIsWanted(s))
  BY DEF SameTokens, SameAuthority, OwnershipOnly, OpenIsWanted, IsCapture
<1>2. /\ \A kind : HasPending(t, kind) <=> HasPending(s, kind)
      /\ OneOfAClass(t) <=> OneOfAClass(s)
      /\ AdmissionPends(t) <=> AdmissionPends(s)
      /\ DependentsBlocked(t) <=> DependentsBlocked(s)
  BY <1>1, TokensAlike DEF OwnershipOnly
<1>3. /\ PoisonStops(s) => PoisonStops(t)
      /\ DoubtIsUnknown(s) => DoubtIsUnknown(t)
      /\ CloseUnderway(s) => CloseUnderway(t)
      /\ OpeningIsClear(s) => OpeningIsClear(t)
      /\ CandidateIsPlanned(s) => CandidateIsPlanned(t)
      /\ PlanContinues(s) => PlanContinues(t)
  BY <1>1, <1>2 DEF OwnershipOnly, PoisonStops, DoubtIsUnknown, CloseUnderway, OpeningIsClear,
     CandidateIsPlanned, PlanContinues
<1>4. Orderly(s) => Orderly(t)
  <2>1. /\ WorkWaitsForGate(s) => WorkWaitsForGate(t)
        /\ WorkWaitsForGate(s) /\ AppliedWithoutCandidate(s) => AppliedWithoutCandidate(t)
        /\ PasteRecords(s) => PasteRecords(t)
        /\ CancellationUnderway(s) => CancellationUnderway(t)
        /\ PersistIsLast(s) => PersistIsLast(t)
        /\ SealCancelsPaste(s) => SealCancelsPaste(t)
    BY <1>2 DEF OwnershipOnly, WorkWaitsForGate, AppliedWithoutCandidate, PasteRecords,
       CancellationUnderway, PersistIsLast, SealCancelsPaste
  <2>2. WorkWaitsForGate(s) /\ StoppedIsDrained(s) => StoppedIsDrained(t)
    BY <1>2 DEF OwnershipOnly, WorkWaitsForGate, StoppedIsDrained, IsCapture
  <2>3. NeutralStays(s) => NeutralStays(t)
    BY DEF OwnershipOnly, NeutralStays
  <2> QED
    BY <1>2, <2>1, <2>2, <2>3 DEF Orderly
<1>5. t.unknown = s.unknown
  BY DEF OwnershipOnly
<1> QED
  BY <1>1, <1>2, <1>3, <1>4, <1>5 DEF Settled, Planned, Tidy, Tokened

\* What is legal after a close is a step towards neutral.
LEMMA LegalAfterClosedSettles ==
  ASSUME NEW now \in Ownership, NEW before \in Ownership, LegalAfterClosed(now, before)
  PROVE  /\ now.candidate # "Active"
         /\ now.paste = before.paste /\ NativeNeutral(before) => NativeNeutral(now)
<1>1. /\ now.drain \in Nat /\ now.cleanup \in Nat /\ now.effects \in Nat
      /\ now.conservative \in BOOLEAN /\ before.candidate \in Candidates
  BY BoundsAssumption DEF Ownership
<1>2. now.candidate # "Active"
  BY DEF LegalAfterClosed
<1>3. ASSUME now.paste = before.paste, NativeNeutral(before) PROVE NativeNeutral(now)
  <2>1. /\ before.candidate = "None" /\ before.paste = "None" /\ ~before.conservative
        /\ before.drain = 0 /\ before.cleanup = 0 /\ before.effects = 0
    BY <1>3 DEF NativeNeutral
  <2>2. now.candidate = "None" /\ ~now.conservative
    BY <2>1 DEF LegalAfterClosed
  <2>3. now.drain <= 0 /\ now.cleanup <= 0 /\ now.effects <= 0
    BY <2>1 DEF LegalAfterClosed
  <2>4. now.drain = 0 /\ now.cleanup = 0 /\ now.effects = 0
    BY <1>1, <2>3
  <2> QED
    BY <1>3, <2>1, <2>2, <2>4 DEF NativeNeutral
<1> QED
  BY <1>2, <1>3

\* A report of the adapter is an ownership, with the broker's count.
LEMMA ReportedType ==
  ASSUME owner \in State, NEW seen \in Observations
  PROVE  Reported(seen) \in Ownership /\ owner.ownership \in Ownership
BY FieldTypes, ObservationsAssumption DEF Reported, Ownership

\* Recording an ownership changes nothing else.
LEMMA RecordedOnly ==
  ASSUME NEW s, Shape(s), NEW now \in Ownership
  PROVE  LET t == [s EXCEPT !.ownership = now]
         IN  Shape(t) /\ OwnershipOnly(s, t) /\ t.ownership = now
BY DEF Shape, WorkFields, OwnershipOnly, Ownership

\* A report of native state is taken over as it is if it is a legal step;
\* otherwise the owner degrades and the gate is closed.
LEMMA ObserveSound ==
  ASSUME owner \in State, Sound(owner), NEW seen \in Observations,
         ObserveNative(seen) \/ ObserveImpossible(seen)
  PROVE  Sound(owner')
<1> DEFINE now == Reported(seen)
           recorded == [owner EXCEPT !.ownership = now]
<1>1. Shape(owner) /\ Tokened(owner) /\ Settled(owner) /\ SuccessorWaits(owner)
  BY SoundSteps DEF Sound
<1>2. now \in Ownership /\ owner.ownership \in Ownership
  BY ReportedType
<1>3. \/ LegalObservation(owner, now) /\ owner' = MaybeBeginDegradedExit(recorded)
      \/ owner' = NativeConfirmationFault(recorded)
  BY DEF ObserveNative, ObserveImpossible, NativeConfirmationFault
<1> HIDE DEF now
<1>4. Shape(recorded) /\ OwnershipOnly(owner, recorded) /\ recorded.ownership = now
  BY <1>1, <1>2, RecordedOnly
<1> HIDE DEF recorded
<1>5. CASE LegalObservation(owner, now) /\ owner' = MaybeBeginDegradedExit(recorded)
  <2>1. owner.admission \in {"Closed", "Opening"} => LegalAfterClosed(now, owner.ownership)
    BY <1>1, <1>5 DEF LegalObservation
  <2>2. now.paste = owner.ownership.paste
    BY <1>5 DEF LegalObservation
  <2>3. Settled(recorded) /\ SameAuthority(owner, recorded)
    BY <1>1, <1>2, <1>4, <2>1, <2>2, LegalAfterClosedSettles, OwnershipSettled
  <2>4. Settled(owner') /\ Onward(recorded, owner')
    BY <1>5, <2>3, MaybeBeginDegradedExitSettled
  <2> QED
    BY <2>3, <2>4, SoundSteps
<1>6. CASE owner' = NativeConfirmationFault(recorded)
  <2>1. Tokened(recorded) /\ SuccessorWaits(recorded)
    BY <1>1, <1>4, OwnershipTokened, SameAuthorityComposes
  <2> QED
    BY <1>6, <2>1, FaultSound
<1> QED
  BY <1>3, <1>5, <1>6

\* Queued effects are counted only where a neutral disposition does not
\* exclude them.
LEMMA SetAdmittedEffectsSound ==
  ASSUME owner \in State, Sound(owner), NEW effects \in 0..EffectCapacity + 1,
         SetAdmittedEffects(effects)
  PROVE  Sound(owner')
<1> DEFINE counted == [owner EXCEPT !.ownership.effects = effects]
           illegal == \/ effects > EffectCapacity
                      \/ /\ effects > owner.ownership.effects
                         /\ owner.admission \notin {"Open", "Closing", "Unknown"}
<1>1. Shape(owner) /\ Tokened(owner) /\ Settled(owner) /\ SuccessorWaits(owner)
  BY SoundSteps DEF Sound
<1>2. \/ owner' = NativeConfirmationFault(owner)
      \/ ~illegal /\ owner' = IF effects = 0 THEN MaybeBeginDegradedExit(counted) ELSE counted
  BY DEF SetAdmittedEffects
<1>3. CASE owner' = NativeConfirmationFault(owner)
  BY <1>1, <1>3, FaultSound
<1>4. CASE ~illegal /\ owner' = IF effects = 0 THEN MaybeBeginDegradedExit(counted) ELSE counted
  <2>1. /\ Shape(counted) /\ OwnershipOnly(owner, counted)
        /\ counted.ownership.effects = effects
        /\ \A f \in {"candidate", "drain", "cleanup", "conservative", "paste"} :
             counted.ownership[f] = owner.ownership[f]
    BY <1>1 DEF Shape, WorkFields, OwnershipOnly
  <2>2. owner.admission = "Closed" => effects <= owner.ownership.effects
    <3>1. owner.ownership.effects \in Nat /\ effects \in Nat
      BY FieldTypes, BoundsAssumption DEF Ownership
    <3> QED
      BY <1>4, <3>1
  <2>3. owner.admission = "Closed" /\ NativeNeutral(owner.ownership) =>
          NativeNeutral(counted.ownership)
    <3>1. effects \in Nat
      BY BoundsAssumption
    <3> HIDE DEF counted
    <3> QED
      BY <2>1, <2>2, <3>1 DEF NativeNeutral
  <2>4. owner' \in {counted, MaybeBeginDegradedExit(counted)}
    BY <1>4
  <2> HIDE DEF counted
  <2>5. Settled(counted) /\ SameAuthority(owner, counted)
    BY <1>1, <2>1, <2>3, OwnershipSettled
  <2>6. Sound(counted)
    BY <2>5, SoundSteps
  <2>7. Sound(MaybeBeginDegradedExit(counted))
    BY <2>5, <2>6, MaybeBeginDegradedExitSettled, SoundSteps
  <2> QED
    BY <2>4, <2>6, <2>7
<1> QED
  BY <1>2, <1>3, <1>4

\* The gate is closed at last.
LEMMA CloseConfirmedSound ==
  ASSUME NEW s, Tidy(s), SuccessorWaits(s), s.admission \in {"Closing", "Unknown"}
  PROVE  Sound(CloseConfirmed(s))
<1> DEFINE t == [s EXCEPT !.admission = "Closed", !.closePlan = None]
           close == IF s.closePlan = None THEN DefaultClose ELSE s.closePlan
<1>1. CloseConfirmed(s) = AfterAdmissionClosed(t, close)
  BY DEF CloseConfirmed
<1>2. close \in ClosePlan
  BY DefaultCloseType DEF Tidy, Tokened, Shape
<1> HIDE DEF close
<1>3. /\ Shape(t) /\ t.pending = s.pending /\ t.admission = "Closed"
      /\ t.pastePhase = s.pastePhase
      /\ t.emergency = s.emergency /\ t.poisoned = s.poisoned /\ t.unknown = s.unknown
      /\ t.predecessor = s.predecessor /\ t.controller = s.controller
      /\ t.maintenance = s.maintenance /\ t.exit = s.exit
      /\ t.ownership = s.ownership /\ t.plan = s.plan
  BY DEF Tidy, Tokened, Shape, WorkFields
<1> HIDE DEF t
<1>4. SameTokens(s, t) /\ SuccessorWaits(t)
  BY <1>3 DEF SameTokens, SuccessorWaits, IsCapture
<1>5. Tokened(t) /\ \A kind : HasPending(t, kind) <=> HasPending(s, kind)
  BY <1>3, <1>4, TokensAlike DEF Tidy, Tokened, PoisonStops
<1>6. DoubtIsUnknown(t)
  BY <1>3 DEF Tidy, DoubtIsUnknown
<1>7. ASSUME ~s.unknown
      PROVE  Orderly(s) /\ s.exit = "Running" /\ ~HasPending(s, "Persist")
             /\ ~HasPending(s, "Configuration")
  BY <1>7 DEF Tidy, Orderly, WorkWaitsForGate
<1>8. ASSUME ~t.unknown PROVE Orderly(t)
  <2>1. /\ WorkWaitsForGate(t) /\ AppliedWithoutCandidate(t) /\ PasteRecords(t)
        /\ CancellationUnderway(t) /\ PersistIsLast(t) /\ SealCancelsPaste(t)
    BY <1>3, <1>5, <1>7, <1>8 DEF Orderly, WorkWaitsForGate, AppliedWithoutCandidate,
       PasteRecords, CancellationUnderway, PersistIsLast, SealCancelsPaste
  <2>2. AdmissionPends(t) /\ StoppedIsDrained(t) /\ NeutralStays(t)
    BY <1>3, <1>4, <1>7, <1>8, TokensAlike DEF Orderly, StoppedIsDrained, NeutralStays
  <2> QED
    BY <2>1, <2>2 DEF Orderly
<1>9. Tidy(t) /\ CloseFits(t, close)
  BY <1>3, <1>5, <1>6, <1>7, <1>8 DEF Tidy, CloseFits
<1> QED
  BY <1>1, <1>2, <1>3, <1>4, <1>9, AfterAdmissionClosedSettled, SameAuthorityComposes
  DEF Sound, Onward

\* The emergency close is confirmed, and what was planned behind it is
\* taken up.
LEMMA EmergencySound ==
  ASSUME Sound(owner), ConfirmEmergencyAdmissionClosed
  PROVE  Sound(owner')
<1> DEFINE t == [owner EXCEPT !.emergency = FALSE]
<1>1. Tokened(owner) /\ Tidy(owner) /\ SuccessorWaits(owner) /\ Shape(owner)
  BY SoundSteps DEF Sound
<1>2. CASE BarrierClosed(owner) /\ owner' = CloseConfirmed(t)
  <2>1. /\ Shape(t) /\ t.pending = owner.pending /\ t.admission = owner.admission
        /\ t.poisoned = owner.poisoned /\ t.unknown = owner.unknown /\ t.plan = owner.plan
        /\ t.predecessor = owner.predecessor /\ t.controller = owner.controller
    BY <1>1 DEF Shape, WorkFields
  <2>2. owner.unknown
    BY <1>1 DEF ConfirmEmergencyAdmissionClosed, Tidy, DoubtIsUnknown
  <2> HIDE DEF t
  <2>3. SameTokens(owner, t) /\ SuccessorWaits(t)
    BY <1>1, <2>1 DEF SameTokens, SuccessorWaits, IsCapture
  <2>4. Tidy(t)
    BY <1>1, <2>1, <2>2, <2>3, TokensAlike DEF Tidy, Tokened, PoisonStops, DoubtIsUnknown
  <2> QED
    BY <1>2, <2>1, <2>3, <2>4, CloseConfirmedSound DEF BarrierClosed
<1>3. CASE owner' = NativeConfirmationFault(owner)
  BY <1>1, <1>3, FaultSound
<1> QED
  BY <1>2, <1>3 DEF ConfirmEmergencyAdmissionClosed

\* The gate waits for no token of this kind.
Spared(s, kind) == kind # "Close" /\ (kind = "Open" => s.unknown \/ s.admission # "Opening")

\* A token that is taken: what is left to be said of its kind.
LEMMA TakeTidy ==
  ASSUME NEW s, Tidy(s), NEW slot \in Slots, s.pending[slot] # None,
         s.unknown \/ s.pastePhase.kind # "Admitting" \/ s.pending[slot].kind # "AdmitPaste",
         s.unknown \/ s.pastePhase.kind # "Cancelling" \/ s.pending[slot].kind # "CancelPaste"
  PROVE  LET t    == Take(s, slot)
             kind == s.pending[slot].kind
         IN  /\ Tidy(t)
             /\ Planned(s) /\ Spared(s, kind) => Planned(t)
             /\ Settled(s) /\ Spared(s, kind) /\ kind \notin DependentKinds => Settled(t)
<1> DEFINE t    == Take(s, slot)
           kind == s.pending[slot].kind
<1>1. /\ Shape(s) /\ OneOfAClass(s) /\ PoisonStops(s) /\ DoubtIsUnknown(s)
      /\ ~s.unknown => Orderly(s)
  BY DEF Tidy, Tokened
<1>2. /\ Shape(t) /\ OneOfAClass(t) /\ Elsewhere(s, t)
      /\ \A k : HasPending(t, k) <=> HasPending(s, k) /\ k # kind
      /\ OpenIsWanted(s) => OpenIsWanted(t)
  BY <1>1, TakeTokens
<1>3. kind # "AdmitPaste" /\ AdmissionPends(s) => AdmissionPends(t)
  <2>1. \A i \in Slots \ {slot} : t.pending[i] = s.pending[i]
    BY <1>1 DEF Take, Shape, WorkFields
  <2> QED
    BY <1>2, <2>1 DEF AdmissionPends, HasKind, Elsewhere
<1> HIDE DEF t
<1>4. PoisonStops(t) /\ DoubtIsUnknown(t)
  BY <1>1, <1>2 DEF PoisonStops, DoubtIsUnknown, Elsewhere
<1>5. ASSUME ~t.unknown PROVE Orderly(t)
  <2>1. ~s.unknown /\ Orderly(s)
    BY <1>1, <1>2, <1>5 DEF Elsewhere
  <2>2. /\ WorkWaitsForGate(t) /\ AppliedWithoutCandidate(t) /\ PasteRecords(t)
        /\ PersistIsLast(t) /\ SealCancelsPaste(t)
    BY <1>2, <2>1 DEF Elsewhere, Orderly, WorkWaitsForGate, AppliedWithoutCandidate,
       PasteRecords, PersistIsLast, SealCancelsPaste
  <2>3. CancellationUnderway(t) /\ StoppedIsDrained(t) /\ NeutralStays(t)
    BY <1>2, <2>1 DEF Elsewhere, Orderly, CancellationUnderway, StoppedIsDrained, NeutralStays,
       IsCapture
  <2>4. AdmissionPends(t)
    BY <1>2, <1>3, <2>1 DEF Elsewhere, Orderly, AdmissionPends
  <2> QED
    BY <2>2, <2>3, <2>4 DEF Orderly
<1>6. Tidy(t)
  BY <1>2, <1>4, <1>5 DEF Tidy, Tokened
<1>7. Planned(s) /\ Spared(s, kind) => Planned(t)
  BY <1>2, <1>6 DEF Spared, Planned, Elsewhere, CloseUnderway, OpeningIsClear, CandidateIsPlanned
<1>8. Settled(s) /\ Spared(s, kind) /\ kind \notin DependentKinds => Settled(t)
  <2> SUFFICES ASSUME Settled(s), Spared(s, kind), kind \notin DependentKinds
               PROVE  Settled(t)
    OBVIOUS
  <2>1. DependentsBlocked(s) => DependentsBlocked(t)
    BY <1>2, BlockedByKind DEF Elsewhere
  <2> QED
    BY <1>2, <1>7, <2>1 DEF Settled, PlanContinues, Elsewhere
<1> QED
  BY <1>6, <1>7, <1>8 DEF t

\* A token that is taken makes nobody a lease holder.
LEMMA TakeAuthority ==
  ASSUME NEW s, Tokened(s), NEW slot \in Slots, s.pending[slot] # None
  PROVE  /\ Tokened(Take(s, slot)) /\ SameAuthority(s, Take(s, slot))
         /\ Elsewhere(s, Take(s, slot))
<1>1. Shape(Take(s, slot)) /\ OneOfAClass(Take(s, slot)) /\ Elsewhere(s, Take(s, slot))
  BY TakeTokens DEF Tokened
<1>2. PoisonStops(Take(s, slot))
  BY <1>1, TakeTokens DEF Tokened, PoisonStops, Elsewhere
<1> QED
  BY <1>1, <1>2, SameAuthorityComposes DEF Tokened

\* From s to t only the records of the paste change, and its cancellation is
\* planned.
PasteOnly(s, t) ==
  /\ t.pending = s.pending /\ t.controller = s.controller
  /\ t.exit = s.exit /\ t.admission = s.admission
  /\ t.emergency = s.emergency /\ t.closePlan = s.closePlan
  /\ t.poisoned = s.poisoned /\ t.unknown = s.unknown
  /\ t.maintenance = s.maintenance /\ t.predecessor = s.predecessor
  /\ \A f \in {"candidate", "drain", "cleanup", "conservative", "effects"} :
       t.ownership[f] = s.ownership[f]
  /\ \A f \in {"candidate", "config", "persist", "drain"} : t.plan[f] = s.plan[f]
  /\ s.poisoned => t.plan = s.plan

\* A paste there was moves on: it waits only where its admission was not
\* revoked, and while it is being cancelled the cancellation is planned or
\* under way.
PasteMoves(s, t) ==
  /\ s.pastePhase.kind # "None"
  /\ t.pastePhase.kind # "Admitting" /\ t.ownership.paste = t.pastePhase.kind
  /\ t.pastePhase.kind = "Cancelling" => t.plan.paste \/ HasPending(s, "CancelPaste")
  /\ t.pastePhase.kind = "Waiting" => s.pastePhase.kind = "Admitting" /\ ~s.pastePhase.cancel
  /\ t.plan.paste => s.plan.paste \/ s.pastePhase.kind = "Admitting"

\* A paste that is admitted, claimed, lost, completed or cancelled.
LEMMA PasteMovesTidy ==
  ASSUME NEW s, NEW t, Shape(t), PasteOnly(s, t), PasteMoves(s, t)
  PROVE  /\ Tidy(s) => Tidy(t)
         /\ Planned(s) => Planned(t)
         /\ Settled(s) /\ s.pastePhase.kind # "Admitting" => Settled(t)
         /\ SameAuthority(s, t)
<1>1. SameTokens(s, t) /\ SameAuthority(s, t) /\ (OpenIsWanted(t) <=> OpenIsWanted(s))
  BY DEF SameTokens, SameAuthority, PasteOnly, OpenIsWanted, IsCapture
<1>2. /\ \A kind : HasPending(t, kind) <=> HasPending(s, kind)
      /\ OneOfAClass(t) <=> OneOfAClass(s)
  BY <1>1, TokensAlike
<1>3. /\ PoisonStops(s) => PoisonStops(t)
      /\ DoubtIsUnknown(s) => DoubtIsUnknown(t)
      /\ CloseUnderway(s) => CloseUnderway(t)
      /\ OpeningIsClear(s) => OpeningIsClear(t)
      /\ CandidateIsPlanned(s) => CandidateIsPlanned(t)
  BY <1>2 DEF PasteOnly, PasteMoves, PoisonStops, DoubtIsUnknown, CloseUnderway, OpeningIsClear,
     CandidateIsPlanned
<1>4. PlanContinues(s) /\ s.pastePhase.kind # "Admitting" => PlanContinues(t)
  <2> SUFFICES ASSUME PlanContinues(s), s.pastePhase.kind # "Admitting" PROVE PlanContinues(t)
    OBVIOUS
  <2>1. DependentsBlocked(t) <=> DependentsBlocked(s)
    BY <1>2, BlockedByKind DEF PasteMoves
  <2> QED
    BY <2>1 DEF PasteOnly, PasteMoves, PlanContinues
<1>5. Orderly(s) => Orderly(t)
  <2>1. /\ WorkWaitsForGate(s) => WorkWaitsForGate(t)
        /\ AppliedWithoutCandidate(s) => AppliedWithoutCandidate(t)
        /\ PersistIsLast(s) => PersistIsLast(t)
        /\ SealCancelsPaste(s) => SealCancelsPaste(t)
    BY <1>2 DEF PasteOnly, PasteMoves, WorkWaitsForGate, AppliedWithoutCandidate, PersistIsLast,
       SealCancelsPaste
  <2>2. PasteRecords(t) /\ CancellationUnderway(t) /\ AdmissionPends(t)
    BY <1>2 DEF PasteMoves, PasteRecords, CancellationUnderway, AdmissionPends
  <2>3. /\ StoppedIsDrained(s) => StoppedIsDrained(t)
        /\ NeutralStays(s) => NeutralStays(t)
    BY DEF PasteOnly, PasteMoves, StoppedIsDrained, NeutralStays
  <2> QED
    BY <2>1, <2>2, <2>3 DEF Orderly
<1>6. t.unknown = s.unknown
  BY DEF PasteOnly
<1>7. Tokened(s) => Tokened(t)
  BY <1>2, <1>3 DEF Tokened
<1>8. Tidy(s) => Tidy(t)
  BY <1>3, <1>5, <1>6, <1>7 DEF Tidy
<1>9. Planned(s) => Planned(t)
  BY <1>3, <1>6, <1>8 DEF Planned
<1>10. Settled(s) /\ s.pastePhase.kind # "Admitting" => Settled(t)
  BY <1>4, <1>6, <1>9 DEF Settled
<1> QED
  BY <1>1, <1>8, <1>9, <1>10

\* What is left when a paste is gone.
LEMMA WithoutPasteOnly ==
  ASSUME NEW s, Shape(s)
  PROVE  LET t == WithoutPaste(s)
         IN  /\ Shape(t) /\ PasteOnly(s, t) /\ t.plan = s.plan
             /\ t.pastePhase.kind = "None" /\ t.ownership.paste = "None"
BY DEF WithoutPaste, NoPaste, Shape, WorkFields, PasteOnly

\* The native side reports on a paste it was given.
LEMMA PasteReportSound ==
  ASSUME owner \in State, Sound(owner),
         ConfirmPasteClaimed \/ ConfirmPasteIndeterminate \/ ConfirmPasteCompleted
  PROVE  Sound(owner')
<1>1. Shape(owner) /\ Tokened(owner) /\ Settled(owner) /\ SuccessorWaits(owner)
  BY SoundSteps DEF Sound
<1>2. CASE owner' = NativeConfirmationFault(owner)
  BY <1>1, <1>2, FaultSound
<1>3. ASSUME NEW kind \in {"Claimed", "Indeterminate"},
             owner.pastePhase.kind \notin {"None", "Admitting"},
             owner' = [owner EXCEPT !.pastePhase.kind = kind, !.ownership.paste = kind]
      PROVE  Sound(owner')
  <2> DEFINE t == [owner EXCEPT !.pastePhase.kind = kind, !.ownership.paste = kind]
  <2>1. Shape(t) /\ PasteOnly(owner, t) /\ t.plan = owner.plan
        /\ t.pastePhase.kind = kind /\ t.ownership.paste = kind
    BY <1>1, <1>3 DEF Shape, WorkFields, PasteOnly
  <2>2. owner' = t
    BY <1>3
  <2> HIDE DEF t
  <2>4. owner.pastePhase.kind # "Admitting" /\ PasteMoves(owner, t)
    BY <1>3, <2>1 DEF PasteMoves
  <2>3. Settled(t) /\ SameAuthority(owner, t)
    BY <1>1, <2>1, <2>4, PasteMovesTidy
  <2> QED
    BY <2>2, <2>3, SoundSteps
<1>4. CASE /\ owner.pastePhase.kind \in {"Claimed", "Indeterminate"}
           /\ owner' = MaybeBeginDegradedExit(WithoutPaste(owner))
  <2> DEFINE t == WithoutPaste(owner)
  <2>1. /\ Shape(t) /\ PasteOnly(owner, t) /\ t.plan = owner.plan
        /\ t.pastePhase.kind = "None" /\ t.ownership.paste = "None"
    BY <1>1, WithoutPasteOnly
  <2>2. owner' = MaybeBeginDegradedExit(t)
    BY <1>4
  <2> HIDE DEF t
  <2>5. owner.pastePhase.kind # "Admitting" /\ PasteMoves(owner, t)
    BY <1>4, <2>1 DEF PasteMoves
  <2>3. Settled(t) /\ SameAuthority(owner, t)
    BY <1>1, <2>1, <2>5, PasteMovesTidy
  <2>4. Settled(owner') /\ Onward(t, owner')
    BY <2>2, <2>3, MaybeBeginDegradedExitSettled
  <2> QED
    BY <2>3, <2>4, SoundSteps, SameAuthorityComposes DEF Onward
<1> QED
  BY <1>2, <1>3, <1>4 DEF ConfirmPasteClaimed, ConfirmPasteIndeterminate, ConfirmPasteCompleted

\* A fault from which the owner recovers degraded.
LEMMA RecoverableFaultSound ==
  ASSUME Sound(owner), RecoverableNativeFault
  PROVE  Sound(owner')
<1> DEFINE degraded  == [owner EXCEPT !.health      = "Degraded",
                                      !.unavailable = IF owner.unknown THEN @ ELSE "NativeFault"]
           cancelled == CancelUnclaimedPaste(degraded)
           closed    == RequestClose(cancelled, DefaultClose)
<1>1. owner' = MaybeBeginDegradedExit(closed)
  BY DEF RecoverableNativeFault
<1>2. Shape(owner)
  BY SoundSteps
<1>3. Unmoved(owner, degraded)
  BY <1>2 DEF Unmoved, Elsewhere, Shape, WorkFields
<1> HIDE DEF degraded
<1>4. Sound(degraded) /\ Shape(degraded)
  BY <1>2, <1>3, UnmovedAlike, AlikeSound
<1>5. Tidy(cancelled) /\ SuccessorWaits(cancelled)
  BY <1>4, SoundSteps, CancelUnclaimedTidy DEF Sound
<1> HIDE DEF cancelled
<1>6. Sound(closed)
  BY <1>5, DefaultCloseSound
<1> HIDE DEF closed
<1> QED
  BY <1>1, <1>6, MaybeBeginDegradedExitSettled, SoundSteps

\* Whatever the native side reports unasked.
LEMMA NativeSound ==
  ASSUME owner \in State, Sound(owner), Native
  PROVE  Sound(owner')
<1>1. Shape(owner) /\ Tokened(owner) /\ SuccessorWaits(owner)
  BY SoundSteps DEF Sound
<1>2. CASE AdapterStreamDesynchronized \/ StaleConfirmation
  BY <1>1, <1>2, FaultSound DEF AdapterStreamDesynchronized, StaleConfirmation
<1>3. CASE ActionIdsExhausted
  <2>1. Unmoved(owner, owner')
    BY <1>1, <1>3 DEF ActionIdsExhausted, Unmoved, Elsewhere, Shape, WorkFields
  <2> QED
    BY <1>1, <2>1, UnmovedAlike, AlikeSound
<1> QED
  BY <1>2, <1>3, ObserveSound, SetAdmittedEffectsSound, EmergencySound, PasteReportSound,
     RecoverableFaultSound DEF Native

\* A seal under way: the paste it found is cancelled, and its persistence
\* waits for the close.
LEMMA SealingTidy ==
  ASSUME NEW s, Tidy(s), s.exit = "Running", s.maintenance.phase = "None",
         ~HasPending(s, "Persist"), NEW request \in Requests, NEW conn, NEW epoch
  PROVE  LET cancelled == CancelUnclaimedPaste(SnapshotPredecessor(s))
             t         == [cancelled EXCEPT
                             !.maintenance = [phase |-> "Sealing", request |-> request,
                                              requester |-> conn, epoch |-> epoch],
                             !.controller  = NoController]
         IN  Tidy(t) /\ SuccessorWaits(t) /\ t.exit = "Running" /\ ~HasPending(t, "Persist")
<1> DEFINE told      == SnapshotPredecessor(s)
           cancelled == CancelUnclaimedPaste(told)
           t         == [cancelled EXCEPT
                           !.maintenance = [phase |-> "Sealing", request |-> request,
                                            requester |-> conn, epoch |-> epoch],
                           !.controller  = NoController]
<1>1. Tidy(told) /\ Shape(told) /\ PredecessorOnly(s, told)
  BY SnapshotTidy DEF Tidy, Tokened
<1>2. told.exit = "Running" /\ ~HasPending(told, "Persist")
  BY <1>1 DEF PredecessorOnly, HasPending
<1> HIDE DEF told
<1>3. Tidy(cancelled) /\ Shape(cancelled) /\ GivesUpPaste(told, cancelled)
  BY <1>1, CancelUnclaimedTidy
<1>4. cancelled.exit = "Running" /\ ~HasPending(cancelled, "Persist")
  BY <1>2, <1>3, TokensAlike DEF GivesUpPaste
<1>5. ASSUME ~cancelled.unknown
      PROVE  /\ cancelled.pastePhase.kind # "Waiting"
             /\ cancelled.pastePhase.kind = "Admitting" => cancelled.pastePhase.cancel
  <2>1. ~told.unknown /\ ~told.poisoned
    BY <1>1, <1>3, <1>5 DEF GivesUpPaste, Tidy, DoubtIsUnknown
  <2> QED
    BY <1>3, <2>1 DEF GivesUpPaste
<1> HIDE DEF cancelled
<1>6. /\ Shape(t) /\ t.pending = cancelled.pending /\ t.admission = cancelled.admission
      /\ t.pastePhase = cancelled.pastePhase /\ t.closePlan = cancelled.closePlan
      /\ t.emergency = cancelled.emergency /\ t.poisoned = cancelled.poisoned
      /\ t.unknown = cancelled.unknown /\ t.predecessor = cancelled.predecessor
      /\ t.controller = NoController /\ t.maintenance.phase = "Sealing"
      /\ t.exit = cancelled.exit
      /\ t.ownership = cancelled.ownership /\ t.plan = cancelled.plan
  BY <1>3 DEF Shape, WorkFields, NoController
<1> HIDE DEF t
<1>7. SameTokens(cancelled, t) /\ SuccessorWaits(t)
  BY <1>6 DEF SameTokens, SuccessorWaits, IsCapture, NoController, CaptureKinds
<1>8. Tokened(t) /\ \A kind : HasPending(t, kind) <=> HasPending(cancelled, kind)
  BY <1>3, <1>6, <1>7, TokensAlike DEF Tidy, Tokened, PoisonStops
<1>9. DoubtIsUnknown(t)
  BY <1>3, <1>6 DEF Tidy, DoubtIsUnknown
<1>10. ASSUME ~t.unknown PROVE Orderly(t)
  <2>1. Orderly(cancelled)
    BY <1>3, <1>6, <1>10 DEF Tidy
  <2>2. /\ WorkWaitsForGate(t) /\ AppliedWithoutCandidate(t) /\ PasteRecords(t)
        /\ CancellationUnderway(t) /\ PersistIsLast(t) /\ SealCancelsPaste(t)
    BY <1>5, <1>6, <1>8, <1>10, <2>1 DEF Orderly, WorkWaitsForGate, AppliedWithoutCandidate,
       PasteRecords, CancellationUnderway, PersistIsLast, SealCancelsPaste
  <2>3. AdmissionPends(t) /\ StoppedIsDrained(t) /\ NeutralStays(t)
    BY <1>4, <1>6, <1>7, <2>1, TokensAlike DEF Orderly, StoppedIsDrained, NeutralStays
  <2> QED
    BY <2>2, <2>3 DEF Orderly
<1> QED
  BY <1>4, <1>6, <1>7, <1>8, <1>9, <1>10 DEF Tidy, t, cancelled, told

\* The owner is sealed for a maintenance transaction.
LEMMA AcquireMaintenanceSound ==
  ASSUME Core(owner), Sound(owner), NEW conn \in Connections, NEW request \in Requests,
         AcquireMaintenance(conn, request)
  PROVE  Sound(owner')
<1> DEFINE epoch     == owner.maintenanceEpoch + 1
           counted   == [owner EXCEPT !.maintenanceEpoch = epoch]
           cancelled == CancelUnclaimedPaste(SnapshotPredecessor(counted))
           sealing   == [cancelled EXCEPT
                           !.maintenance = [phase |-> "Sealing", request |-> request,
                                            requester |-> conn, epoch |-> epoch],
                           !.controller  = NoController]
           fresh     == InvalidateReconciliation(sealing)
           close     == [DefaultClose EXCEPT !.persist = TRUE]
<1>1. /\ owner.exit = "Running" /\ owner.maintenance.phase = "None"
      /\ owner' = RequestClose(fresh, close)
  BY DEF AcquireMaintenance, Serving
<1>2. ~HasPending(owner, "Persist")
  BY <1>1 DEF Core, PersistsTransaction, HasPending, HasKind
<1>3. Shape(owner) /\ Tidy(owner)
  BY SoundSteps
<1>4. Unmoved(owner, counted)
  BY <1>3 DEF Unmoved, Elsewhere, Shape, WorkFields
<1> HIDE DEF counted, epoch
<1>5. /\ Tidy(counted) /\ counted.exit = "Running" /\ counted.maintenance.phase = "None"
      /\ ~HasPending(counted, "Persist")
  <2>1. Tidy(counted)
    BY <1>3, <1>4, UnmovedAlike, AlikeSound
  <2> QED
    BY <1>1, <1>2, <1>4, <2>1 DEF Unmoved, Elsewhere, HasPending
<1>6. /\ Tidy(sealing) /\ SuccessorWaits(sealing)
      /\ sealing.exit = "Running" /\ ~HasPending(sealing, "Persist")
  BY <1>5, SealingTidy
<1> HIDE DEF sealing
<1>7. /\ Shape(fresh) /\ Alike(sealing, fresh)
  BY <1>6, AlikeUpdates DEF Tidy, Tokened
<1> HIDE DEF fresh
<1>8. /\ Tidy(fresh) /\ SuccessorWaits(fresh)
      /\ fresh.exit = "Running" /\ ~HasPending(fresh, "Persist")
  BY <1>6, <1>7, AlikeSound, SameAuthorityComposes, TokensAlike DEF Alike, Resembles
<1>9. close \in ClosePlan
  BY DEF DefaultClose, ClosePlan
<1>10. Settled(RequestClose(fresh, close)) /\ Onward(fresh, RequestClose(fresh, close))
  BY <1>8, <1>9, RequestCloseSettled DEF CloseFits
<1> QED
  BY <1>1, <1>8, <1>10, SameAuthorityComposes DEF Sound, Onward

\* The native stop of a quiescent owner that has no lease holder.
LEMMA StopSound ==
  ASSUME NEW s, Sound(s), Quiescent(s), ~IsCapture(s), NEW purpose, purpose # "Running"
  PROVE  Sound(BeginNativeStop(s, purpose))
BY BeginNativeStopSettled, SoundSteps

\* An exit that is under way moves on.
LEMMA ExitAlike ==
  ASSUME NEW s, Shape(s), NEW exit, s.exit # "Running", exit # "Running"
  PROVE  Shape([s EXCEPT !.exit = exit]) /\ Alike(s, [s EXCEPT !.exit = exit])
<1> DEFINE t == [s EXCEPT !.exit = exit]
<1>1. /\ Shape(t) /\ t.pending = s.pending /\ t.admission = s.admission
      /\ t.pastePhase = s.pastePhase /\ t.closePlan = s.closePlan
      /\ t.emergency = s.emergency /\ t.poisoned = s.poisoned
      /\ t.unknown = s.unknown /\ t.predecessor = s.predecessor
      /\ t.controller = s.controller /\ t.maintenance = s.maintenance
      /\ t.exit = exit
      /\ t.ownership = s.ownership /\ t.plan = s.plan
  BY DEF Shape, WorkFields
<1> HIDE DEF t
<1>2. Alike(s, t)
  BY <1>1 DEF Alike, Resembles, SameTokens, OpenIsWanted, IsCapture
<1> QED
  BY <1>1, <1>2 DEF t

\* Maintenance, and the end of the process.
LEMMA MaintainAndExitSound ==
  ASSUME Core(owner), Sound(owner), MaintainAndExit
  PROVE  Sound(owner')
<1>1. Shape(owner)
  BY SoundSteps
<1>2. ASSUME NEW conn \in Connections, NEW request \in Requests,
             ReacquireMaintenance(conn, request)
      PROVE  Sound(owner')
  <2> DEFINE t == [owner EXCEPT !.maintenanceEpoch  = @ + 1,
                                !.controller        = [kind |-> "Maintenance", conn |-> conn,
                                                       epoch |-> owner.maintenanceEpoch + 1],
                                !.maintenance.phase = "Exclusive"]
  <2>1. owner.maintenance.phase = "Sealed" /\ owner' = t
    BY <1>2 DEF ReacquireMaintenance
  <2>2. /\ Shape(t) /\ t.pending = owner.pending /\ t.admission = owner.admission
        /\ t.pastePhase = owner.pastePhase /\ t.closePlan = owner.closePlan
        /\ t.emergency = owner.emergency /\ t.poisoned = owner.poisoned
        /\ t.unknown = owner.unknown /\ t.predecessor = owner.predecessor
        /\ t.controller.kind = "Maintenance" /\ t.maintenance.phase = "Exclusive"
        /\ t.exit = owner.exit
        /\ t.ownership = owner.ownership /\ t.plan = owner.plan
    BY <1>1, <2>1 DEF Shape, WorkFields
  <2> HIDE DEF t
  <2>3. Alike(owner, t)
    BY <2>1, <2>2 DEF Alike, Resembles, SameTokens, OpenIsWanted, IsCapture, CaptureKinds
  <2> QED
    BY <2>1, <2>2, <2>3, AlikeSound
<1>3. ASSUME NEW exit, exit # "Running", owner.exit # "Running",
             owner' = [owner EXCEPT !.exit = exit]
      PROVE  Sound(owner')
  BY <1>1, <1>3, ExitAlike, AlikeSound
<1>4. CASE BeginFinalResponseFlush \/ ConfirmFinalResponseFlushed
  BY <1>3, <1>4 DEF BeginFinalResponseFlush, ConfirmFinalResponseFlushed
<1>5. CASE PrepareMaintenance \/ RequestIdleExit
  <2>1. ~IsCapture(owner) /\ Quiescent(owner)
    BY <1>5 DEF PrepareMaintenance, RequestIdleExit, IsCapture, CaptureKinds
  <2>2. owner' \in {BeginNativeStop(owner, "StopPrepare"), BeginNativeStop(owner, "StopIdle")}
    BY <1>5 DEF PrepareMaintenance, RequestIdleExit
  <2> QED
    BY <2>1, <2>2, StopSound
<1>6. CASE MaintenanceGuardLost
  <2>1. ~IsCapture(owner) /\ Quiescent(owner)
    BY <1>6 DEF MaintenanceGuardLost, Core, SealExcludesCapture
  <2>2. \/ owner.exit = "StoppedSealed" /\ owner' = [owner EXCEPT !.exit = "Exiting"]
        \/ owner' = BeginNativeStop(owner, "StopGuardLost")
    BY <1>6 DEF MaintenanceGuardLost
  <2> QED
    BY <1>3, <2>1, <2>2, StopSound
<1> QED
  BY <1>2, <1>4, <1>5, <1>6, AcquireMaintenanceSound DEF MaintainAndExit

\* A token in the table, taken: what remains to be said of it.
LEMMA TakeSound ==
  ASSUME Sound(owner), NEW slot \in Slots, owner.pending[slot] # None
  PROVE  LET t    == Take(owner, slot)
             kind == owner.pending[slot].kind
         IN  /\ Tokened(t) /\ Shape(t) /\ SuccessorWaits(t) /\ Elsewhere(owner, t)
             /\ kind \notin {"AdmitPaste", "CancelPaste"} => Tidy(t)
             /\ kind \notin {"AdmitPaste", "CancelPaste"} /\ Spared(owner, kind) => Planned(t)
             /\ kind \in {"SessionMode", "StopNative", "Open"} /\ Spared(owner, kind) => Sound(t)
             /\ kind \in DependentKinds => \A k \in DependentKinds : ~HasPending(t, k)
<1> DEFINE t    == Take(owner, slot)
           kind == owner.pending[slot].kind
<1>1. Tokened(owner) /\ Tidy(owner) /\ Planned(owner) /\ Settled(owner) /\ SuccessorWaits(owner)
  BY SoundSteps DEF Sound
<1>2. Tokened(t) /\ Shape(t) /\ SuccessorWaits(t) /\ Elsewhere(owner, t) /\ SameAuthority(owner, t)
  BY <1>1, TakeAuthority, SameAuthorityComposes DEF Tokened
<1>3. ASSUME kind \notin {"AdmitPaste", "CancelPaste"}
      PROVE  /\ Tidy(t)
             /\ Spared(owner, kind) => Planned(t)
             /\ Spared(owner, kind) /\ kind \notin DependentKinds => Settled(t)
  BY <1>1, <1>3, TakeTidy
<1>4. kind \in DependentKinds => \A k \in DependentKinds : ~HasPending(t, k)
  <2>1. \A k \in DependentKinds : HasPending(t, k) =>
          \E i \in Slots \ {slot} : owner.pending[i] # None /\ owner.pending[i].kind = k
    BY <1>1 DEF Take, HasPending, Tokened, Shape, WorkFields
  <2> QED
    BY <1>1, <2>1, Kinds DEF Tokened, OneOfAClass
<1>5. \A k \in {"SessionMode", "StopNative", "Open"} : k \notin DependentKinds
  BY Kinds
<1> HIDE DEF t, kind
<1>6. kind \in {"SessionMode", "StopNative", "Open"} /\ Spared(owner, kind) => Sound(t)
  BY <1>2, <1>3, <1>5 DEF Sound
<1> QED
  BY <1>2, <1>3, <1>4, <1>6 DEF t, kind

\* What is held is a token of its kind.
LEMMA HeldPending ==
  ASSUME NEW slot, NEW kind, Held(slot, kind)
  PROVE  owner.pending[slot] # None /\ owner.pending[slot].kind = kind
BY DEF Held, Outstanding

\* A plan that is dispatched once more, and the exit it may lead to.
LEMMA ContinueSound ==
  ASSUME NEW s, Planned(s), SuccessorWaits(s)
  PROVE  Sound(IssueNextDependent(s)) /\ Sound(MaybeBeginDegradedExit(IssueNextDependent(s)))
<1>1. Settled(IssueNextDependent(s)) /\ Onward(s, IssueNextDependent(s))
  BY IssueNextDependentSettled
<1>2. Sound(IssueNextDependent(s))
  BY <1>1, SameAuthorityComposes DEF Sound, Onward
<1> QED
  BY <1>1, <1>2, MaybeBeginDegradedExitSettled, SoundSteps

\* A session mode, or a configuration, is confirmed.
LEMMA ConfirmAppliedSound ==
  ASSUME Sound(owner), NEW slot \in Slots,
         ConfirmSessionMode(slot) \/ ConfirmConfiguration(slot)
  PROVE  Sound(owner')
<1> DEFINE taken == Take(owner, slot)
<1>1. CASE ConfirmSessionMode(slot)
  <2> DEFINE t == [taken EXCEPT !.mode = owner.pending[slot].arg]
  <2>1. owner' \in {taken, t} /\ Held(slot, "SessionMode")
    BY <1>1 DEF ConfirmSessionMode
  <2>2. Sound(taken) /\ Shape(taken)
    BY <2>1, HeldPending, TakeSound DEF Spared
  <2> HIDE DEF taken
  <2>3. Unmoved(taken, t)
    BY <2>2 DEF Unmoved, Elsewhere, Shape, WorkFields
  <2> HIDE DEF t
  <2> QED
    BY <2>1, <2>2, <2>3, UnmovedAlike, AlikeSound
<1>2. CASE ConfirmConfiguration(slot)
  <2> DEFINE request == owner.pending[slot].config
             applied == IF ~owner.pending[slot].superseded /\ owner.requested = request
                        THEN [taken EXCEPT !.applied = request] ELSE taken
  <2>1. /\ Held(slot, "Configuration")
        /\ owner' \in {NativeConfirmationFault(taken),
                       MaybeBeginDegradedExit(IssueNextDependent(applied))}
    BY <1>2 DEF ConfirmConfiguration
  <2>2. Planned(taken) /\ Shape(taken) /\ Tokened(taken) /\ SuccessorWaits(taken)
    BY <2>1, HeldPending, TakeSound DEF Spared
  <2> HIDE DEF taken
  <2>3. Unmoved(taken, applied)
    BY <2>2 DEF Unmoved, Elsewhere, Shape, WorkFields
  <2> HIDE DEF applied
  <2>4. Planned(applied) /\ SuccessorWaits(applied)
    BY <2>2, <2>3, UnmovedAlike, AlikeSound, SameAuthorityComposes
  <2>5. Sound(NativeConfirmationFault(taken))
    BY <2>2, FaultSound
  <2> QED
    BY <2>1, <2>4, <2>5, ContinueSound
<1> QED
  BY <1>1, <1>2

\* The gate is confirmed to be open.
LEMMA ConfirmOpenedSound ==
  ASSUME Sound(owner), NEW slot \in Slots, ConfirmAdmissionOpened(slot)
  PROVE  Sound(owner')
<1> DEFINE taken == Take(owner, slot)
           t     == [taken EXCEPT !.admission = "Open", !.controller.kind = "Enabled"]
<1>1. /\ owner.pending[slot] # None /\ owner.pending[slot].kind = "Open"
      /\ Tokened(taken) /\ Shape(taken) /\ Tidy(taken) /\ SuccessorWaits(taken)
      /\ Elsewhere(owner, taken)
      /\ Spared(owner, "Open") => Sound(taken)
  BY HeldPending, TakeSound DEF ConfirmAdmissionOpened
<1>2. \/ (owner.pending[slot].superseded \/ owner.admission = "Closing") /\ owner' = taken
      \/ owner.admission = "Opening" /\ EnablePrerequisites(taken) /\ owner' = t
      \/ owner' = NativeConfirmationFault(taken)
  BY DEF ConfirmAdmissionOpened
<1>3. CASE (owner.pending[slot].superseded \/ owner.admission = "Closing") /\ owner' = taken
  <2>1. Planned(owner)
    BY SoundSteps
  <2>2. Spared(owner, "Open")
    BY <1>1, <1>3, <2>1 DEF Spared, Planned, OpeningIsClear, OpenIsWanted, HasKind
  <2> QED
    BY <1>1, <1>3, <2>2
<1>4. CASE owner' = NativeConfirmationFault(taken)
  BY <1>1, <1>4, FaultSound
<1>5. CASE owner.admission = "Opening" /\ EnablePrerequisites(taken) /\ owner' = t
  <2>1. /\ taken.exit = "Running" /\ taken.maintenance.phase = "None"
        /\ ~taken.unknown /\ taken.predecessor = None
        /\ taken.admission = "Opening"
    BY <1>1, <1>5 DEF EnablePrerequisites, Elsewhere
  <2> HIDE DEF taken
  <2>2. /\ Shape(t) /\ t.pending = taken.pending /\ t.admission = "Open"
        /\ t.pastePhase = taken.pastePhase /\ t.closePlan = taken.closePlan
        /\ t.emergency = taken.emergency /\ t.poisoned = taken.poisoned
        /\ t.unknown = taken.unknown /\ t.predecessor = taken.predecessor
        /\ t.maintenance = taken.maintenance /\ t.exit = taken.exit
        /\ t.ownership = taken.ownership /\ t.plan = taken.plan
    BY <1>1 DEF Shape, WorkFields
  <2> HIDE DEF t
  <2>3. SameTokens(taken, t)
    BY <2>2 DEF SameTokens
  <2>4. Tokened(t) /\ (\A kind : HasPending(t, kind) <=> HasPending(taken, kind))
        /\ (AdmissionPends(t) <=> AdmissionPends(taken))
    BY <1>1, <2>2, <2>3, TokensAlike DEF Tokened, PoisonStops
  <2>5. DoubtIsUnknown(t) /\ CloseUnderway(t) /\ OpeningIsClear(t) /\ CandidateIsPlanned(t)
        /\ PlanContinues(t) /\ SuccessorWaits(t)
    BY <1>1, <2>1, <2>2 DEF Tidy, DoubtIsUnknown, CloseUnderway, OpeningIsClear,
       CandidateIsPlanned, PlanContinues, SuccessorWaits
  <2>6. Orderly(t)
    <3>1. Orderly(taken)
      BY <1>1, <2>1 DEF Tidy
    <3>2. /\ WorkWaitsForGate(t) /\ AppliedWithoutCandidate(t) /\ PasteRecords(t)
          /\ CancellationUnderway(t) /\ PersistIsLast(t) /\ SealCancelsPaste(t)
      BY <2>1, <2>2, <2>4, <3>1 DEF Orderly, WorkWaitsForGate, AppliedWithoutCandidate,
         PasteRecords, CancellationUnderway, PersistIsLast, SealCancelsPaste
    <3>3. AdmissionPends(t) /\ StoppedIsDrained(t) /\ NeutralStays(t)
      BY <2>1, <2>2, <2>4, <3>1 DEF Orderly, StoppedIsDrained, NeutralStays
    <3> QED
      BY <3>2, <3>3 DEF Orderly
  <2> QED
    BY <1>5, <2>4, <2>5, <2>6 DEF Sound, Settled, Planned, Tidy
<1> QED
  BY <1>2, <1>3, <1>4, <1>5

\* The gate is confirmed to be closed.
LEMMA ConfirmClosedSound ==
  ASSUME Sound(owner), NEW slot \in Slots, ConfirmAdmissionClosed(slot)
  PROVE  Sound(owner')
<1> DEFINE taken == Take(owner, slot)
<1>1. Tokened(taken) /\ Tidy(taken) /\ SuccessorWaits(taken)
  BY HeldPending, TakeSound DEF ConfirmAdmissionClosed
<1>2. \/ BarrierClosed(taken) /\ owner' = CloseConfirmed(taken)
      \/ owner' = NativeConfirmationFault(taken)
  BY DEF ConfirmAdmissionClosed
<1> HIDE DEF taken
<1>3. BarrierClosed(taken) => taken.admission \in {"Closing", "Unknown"}
  BY DEF BarrierClosed
<1> QED
  BY <1>1, <1>2, <1>3, CloseConfirmedSound, FaultSound

\* The token of a paste, taken after the records of the paste have moved on.
LEMMA PasteTokenTaken ==
  ASSUME Sound(owner), NEW slot \in Slots, owner.pending[slot] # None,
         owner.pending[slot].kind \in {"AdmitPaste", "CancelPaste"},
         NEW moved, Shape(moved), PasteOnly(owner, moved), PasteMoves(owner, moved),
         owner.pending[slot].kind = "CancelPaste" => moved.pastePhase.kind # "Cancelling",
         NEW t, Unmoved(Take(moved, slot), t)
  PROVE  Planned(t) /\ SuccessorWaits(t)
<1> DEFINE taken == Take(moved, slot)
<1>1. Planned(moved) /\ SameAuthority(owner, moved)
  BY SoundSteps, PasteMovesTidy
<1>2. moved.pending[slot] = owner.pending[slot]
  BY DEF PasteOnly
<1>3. moved.pastePhase.kind # "Admitting" /\ Spared(moved, moved.pending[slot].kind)
  BY <1>2 DEF PasteMoves, Spared
<1>4. Tidy(moved) /\ Tokened(moved)
  BY <1>1 DEF Planned, Tidy
<1>5. Planned(taken)
  BY <1>1, <1>2, <1>3, <1>4, TakeTidy
<1>6. SameAuthority(moved, taken)
  BY <1>2, <1>4, TakeAuthority
<1>7. SuccessorWaits(taken)
  BY <1>1, <1>6, SameAuthorityComposes DEF Sound
<1> HIDE DEF taken
<1>8. Shape(taken) /\ Unmoved(taken, t)
  BY <1>5 DEF Planned, Tidy, Tokened, taken
<1> QED
  BY <1>5, <1>7, <1>8, UnmovedAlike, AlikeSound, SameAuthorityComposes

\* A poisoned plan is only emptied.
LEMMA PoisonedContinueSound ==
  ASSUME NEW s, Shape(s), OneOfAClass(s), SuccessorWaits(s), DoubtIsUnknown(s), s.poisoned,
         \A kind \in DependentKinds : ~HasPending(s, kind)
  PROVE  Sound(IssueNextDependent(s))
<1> DEFINE t == [s EXCEPT !.plan = NoDependents]
<1>1. IssueNextDependent(s) = t
  BY DEF IssueNextDependent, PlanContradicted, DispatchPlan
<1>2. /\ Shape(t) /\ t.pending = s.pending /\ t.admission = s.admission
      /\ t.emergency = s.emergency /\ t.poisoned = s.poisoned
      /\ t.unknown = s.unknown /\ t.predecessor = s.predecessor
      /\ t.controller = s.controller /\ t.plan = NoDependents
  BY DEF Shape, WorkFields, NoDependents
<1> HIDE DEF t
<1>3. SameTokens(s, t) /\ SuccessorWaits(t)
  BY <1>2 DEF SameTokens, SuccessorWaits, IsCapture
<1>4. Tokened(t)
  BY <1>2, <1>3, TokensAlike DEF Tokened, PoisonStops
<1>5. DoubtIsUnknown(t) /\ t.unknown /\ CloseUnderway(t)
  BY <1>2 DEF DoubtIsUnknown, CloseUnderway
<1> QED
  BY <1>1, <1>3, <1>4, <1>5 DEF Sound, Settled, Planned, Tidy

\* A paste has been admitted; if it was revoked meanwhile it is cancelled.
LEMMA ConfirmWaitingSound ==
  ASSUME Sound(owner), NEW slot \in Slots, ConfirmPasteWaiting(slot)
  PROVE  Sound(owner')
<1> DEFINE taken  == Take(owner, slot)
           cancel == owner.pastePhase.cancel \/ owner.pending[slot].superseded
           kind   == IF cancel THEN "Cancelling" ELSE "Waiting"
           phase  == [kind |-> kind, auth |-> owner.pastePhase.auth, cancel |-> FALSE]
           t      == [taken EXCEPT !.pastePhase      = phase,
                                   !.ownership.paste = kind,
                                   !.plan.paste      = @ \/ cancel]
           moved  == [owner EXCEPT !.pastePhase      = phase,
                                   !.ownership.paste = kind,
                                   !.plan.paste      = @ \/ cancel]
<1>1. /\ owner.pending[slot] # None /\ owner.pending[slot].kind = "AdmitPaste"
      /\ Tokened(taken) /\ Shape(taken) /\ SuccessorWaits(taken) /\ Elsewhere(owner, taken)
  BY HeldPending, TakeSound DEF ConfirmPasteWaiting
<1>2. \/ owner.pastePhase.kind = "Admitting" /\ owner' = IssueNextDependent(t)
      \/ owner' = NativeConfirmationFault(taken)
  BY DEF ConfirmPasteWaiting
<1>3. Shape(owner) /\ DoubtIsUnknown(owner)
  BY SoundSteps DEF Tidy
<1>4. CASE owner' = NativeConfirmationFault(taken)
  BY <1>1, <1>4, FaultSound
<1>5. CASE owner.pastePhase.kind = "Admitting" /\ owner' = IssueNextDependent(t) /\ owner.poisoned
  <2>1. /\ Shape(t) /\ t.pending = taken.pending /\ t.admission = owner.admission
        /\ t.emergency = owner.emergency /\ t.poisoned = owner.poisoned
        /\ t.unknown = owner.unknown /\ t.predecessor = taken.predecessor
        /\ t.controller = taken.controller
    BY <1>1, <1>3, <1>5 DEF Shape, WorkFields, Elsewhere
  <2> HIDE DEF taken
  <2>2. t.poisoned /\ DoubtIsUnknown(t) /\ SuccessorWaits(t)
    BY <1>1, <1>3, <1>5, <2>1 DEF DoubtIsUnknown, SuccessorWaits, IsCapture
  <2>3. OneOfAClass(t) /\ \A k \in DependentKinds : ~HasPending(t, k)
    <3>1. SameTokens(taken, t)
      BY <2>1 DEF SameTokens
    <3>2. \A k \in DependentKinds : ~HasPending(taken, k)
      BY <1>1, <1>5 DEF Tokened, PoisonStops, Elsewhere
    <3> HIDE DEF t
    <3> QED
      BY <1>1, <3>1, <3>2, TokensAlike DEF Tokened
  <2>4. Sound(IssueNextDependent(t))
    BY <2>1, <2>2, <2>3, PoisonedContinueSound
  <2> QED
    BY <1>5, <2>4
<1>6. CASE owner.pastePhase.kind = "Admitting" /\ owner' = IssueNextDependent(t) /\ ~owner.poisoned
  <2>1. /\ Shape(moved) /\ PasteOnly(owner, moved)
        /\ moved.pastePhase.kind = kind /\ moved.ownership.paste = kind
        /\ moved.plan.paste = (owner.plan.paste \/ cancel)
    BY <1>3, <1>6 DEF Shape, WorkFields, PasteOnly
  <2>2. PasteMoves(owner, moved)
    <3> HIDE DEF moved
    <3> QED
      BY <1>6, <2>1 DEF PasteMoves
  <2>3. Unmoved(Take(moved, slot), t)
    BY <1>3 DEF Take, Unmoved, Elsewhere, Shape, WorkFields
  <2>4. Planned(t) /\ SuccessorWaits(t)
    <3> HIDE DEF moved, t
    <3> QED
      BY <1>1, <2>1, <2>2, <2>3, PasteTokenTaken
  <2> QED
    BY <1>6, <2>4, ContinueSound
<1> QED
  BY <1>2, <1>4, <1>5, <1>6

\* A paste is gone with its token: it was refused, or its cancellation is
\* confirmed.
LEMMA PasteGonePlanned ==
  ASSUME Sound(owner), NEW slot \in Slots, owner.pending[slot] # None,
         owner.pending[slot].kind \in {"AdmitPaste", "CancelPaste"},
         owner.pastePhase.auth = owner.pending[slot].arg
  PROVE  Planned(WithoutPaste(Take(owner, slot))) /\ SuccessorWaits(WithoutPaste(Take(owner, slot)))
<1> DEFINE t     == WithoutPaste(Take(owner, slot))
           moved == WithoutPaste(owner)
<1>1. Shape(owner)
  BY SoundSteps
<1>2. owner.pastePhase.kind # "None"
  <2>1. owner.pending[slot] \in Action
    BY <1>1 DEF Shape
  <2>2. owner.pending[slot].arg \in Pastes
    BY <2>1 DEF Action, ArgumentsOf
  <2> QED
    BY <1>1, <2>2, NoneAssumption DEF Shape
<1>3. /\ Shape(moved) /\ PasteOnly(owner, moved) /\ moved.plan = owner.plan
      /\ moved.pastePhase.kind = "None" /\ moved.ownership.paste = "None"
  BY <1>1, WithoutPasteOnly
<1>4. Unmoved(Take(moved, slot), t)
  BY <1>1 DEF Take, WithoutPaste, Unmoved, Elsewhere, Shape, WorkFields
<1> HIDE DEF moved, t
<1>5. PasteMoves(owner, moved)
  BY <1>2, <1>3 DEF PasteMoves
<1>6. moved.pastePhase.kind # "Cancelling"
  BY <1>3
<1> QED
  BY <1>3, <1>4, <1>5, <1>6, PasteTokenTaken DEF t

\* After an uncertain cancellation whatever is left is sound once native
\* state is unknown.
LEMMA PoisonTokened ==
  ASSUME NEW s, Tokened(s), SuccessorWaits(s), \A k \in DependentKinds : ~HasPending(s, k)
  PROVE  Tokened(Poison(s)) /\ SuccessorWaits(Poison(s))
<1> DEFINE t == Poison(s)
<1>1. /\ Shape(t) /\ t.pending = s.pending /\ t.plan = NoDependents
      /\ t.predecessor = s.predecessor /\ t.controller = s.controller
  BY DEF Tokened, Shape, WorkFields, Poison, NoDependents
<1> HIDE DEF t
<1>2. SameTokens(s, t) /\ SuccessorWaits(t)
  BY <1>1 DEF SameTokens, SuccessorWaits, IsCapture
<1> QED
  BY <1>1, <1>2, TokensAlike DEF Tokened, PoisonStops, t

\* A paste is refused, or its cancellation confirmed.
LEMMA ConfirmGoneSound ==
  ASSUME Sound(owner), NEW slot \in Slots,
         ConfirmPasteRefused(slot) \/ ConfirmWaitingPasteCancelled(slot)
  PROVE  Sound(owner')
<1> DEFINE taken == Take(owner, slot)
<1>1. CASE ConfirmPasteRefused(slot)
  <2>1. /\ owner.pending[slot] # None /\ owner.pending[slot].kind = "AdmitPaste"
        /\ Tokened(taken) /\ SuccessorWaits(taken)
    BY <1>1, HeldPending, TakeSound DEF ConfirmPasteRefused
  <2>2. \/ /\ owner.pastePhase.auth = owner.pending[slot].arg
           /\ owner' = IssueNextDependent(WithoutPaste(taken))
        \/ owner' = NativeConfirmationFault(taken)
    BY <1>1 DEF ConfirmPasteRefused
  <2> QED
    BY <2>1, <2>2, FaultSound, PasteGonePlanned, ContinueSound
<1>2. CASE ConfirmWaitingPasteCancelled(slot)
  <2>1. /\ owner.pending[slot] # None /\ owner.pending[slot].kind = "CancelPaste"
        /\ Tokened(taken) /\ SuccessorWaits(taken)
        /\ \A k \in DependentKinds : ~HasPending(taken, k)
    BY <1>2, HeldPending, TakeSound, Kinds DEF ConfirmWaitingPasteCancelled
  <2>2. \/ /\ owner.pastePhase.auth = owner.pending[slot].arg
           /\ owner' = MaybeBeginDegradedExit(IssueNextDependent(WithoutPaste(taken)))
        \/ owner' = NativeConfirmationFault(Poison(taken))
    BY <1>2 DEF ConfirmWaitingPasteCancelled
  <2>3. Tokened(Poison(taken)) /\ SuccessorWaits(Poison(taken))
    BY <2>1, PoisonTokened
  <2> HIDE DEF taken
  <2>4. CASE owner' = NativeConfirmationFault(Poison(taken))
    BY <2>3, <2>4, FaultSound
  <2>5. CASE /\ owner.pastePhase.auth = owner.pending[slot].arg
             /\ owner' = MaybeBeginDegradedExit(IssueNextDependent(WithoutPaste(taken)))
    <3>1. Planned(WithoutPaste(taken)) /\ SuccessorWaits(WithoutPaste(taken))
      BY <2>1, <2>5, PasteGonePlanned DEF taken
    <3> QED
      BY <2>5, <3>1, ContinueSound
  <2> QED
    BY <2>2, <2>4, <2>5
<1> QED
  BY <1>1, <1>2

\* A candidate is confirmed to be cancelled.
LEMMA ConfirmCancelledSound ==
  ASSUME owner \in State, Sound(owner), NEW slot \in Slots, NEW seen \in Observations,
         ConfirmCandidateCancelled(slot, seen)
  PROVE  Sound(owner')
<1> DEFINE taken == Take(owner, slot)
           now   == Reported(seen)
           t     == [taken EXCEPT !.ownership = now]
<1>1. /\ Tokened(taken) /\ Shape(taken) /\ SuccessorWaits(taken) /\ Elsewhere(owner, taken)
      /\ Planned(taken) /\ \A k \in DependentKinds : ~HasPending(taken, k)
  BY HeldPending, TakeSound, Kinds DEF ConfirmCandidateCancelled, Spared
<1>2. \/ /\ now.paste = owner.ownership.paste /\ LegalAfterClosed(now, owner.ownership)
         /\ owner' = MaybeBeginDegradedExit(IssueNextDependent(t))
      \/ owner' = NativeConfirmationFault(Poison(taken))
  BY DEF ConfirmCandidateCancelled
<1>3. now \in Ownership /\ owner.ownership \in Ownership
  BY ReportedType
<1> HIDE DEF now
<1>4. CASE owner' = NativeConfirmationFault(Poison(taken))
  <2> HIDE DEF taken
  <2>1. Tokened(Poison(taken)) /\ SuccessorWaits(Poison(taken))
    BY <1>1, PoisonTokened
  <2> QED
    BY <1>4, <2>1, FaultSound
<1>5. CASE /\ now.paste = owner.ownership.paste /\ LegalAfterClosed(now, owner.ownership)
           /\ owner' = MaybeBeginDegradedExit(IssueNextDependent(t))
  <2> HIDE DEF taken
  <2>1. Shape(t) /\ OwnershipOnly(taken, t) /\ t.ownership = now
    BY <1>1, <1>3, RecordedOnly
  <2> HIDE DEF t
  <2>2. taken.ownership = owner.ownership
    BY <1>1 DEF Elsewhere
  <2>3. Planned(t) /\ SameAuthority(taken, t)
    BY <1>1, <1>3, <1>5, <2>1, <2>2, LegalAfterClosedSettles, OwnershipSettled
  <2>4. SuccessorWaits(t)
    BY <1>1, <2>3, SameAuthorityComposes
  <2> QED
    BY <1>5, <2>3, <2>4, ContinueSound
<1> QED
  BY <1>2, <1>4, <1>5

\* A seal is confirmed to be persisted.
LEMMA ConfirmPersistedSound ==
  ASSUME Sound(owner), NEW slot \in Slots, ConfirmMaintenancePersisted(slot)
  PROVE  Sound(owner')
<1> DEFINE taken == Take(owner, slot)
           held  == owner.maintenance.requester
           given == [taken EXCEPT !.controller = [kind |-> "Maintenance", conn |-> held,
                                                  epoch |-> owner.maintenance.epoch],
                                  !.maintenance = Settle(@, "Exclusive")]
           kept  == [taken EXCEPT !.controller  = NoController,
                                  !.maintenance = Settle(@, "Sealed")]
<1>1. /\ owner.pending[slot] # None /\ owner.pending[slot].kind = "Persist"
      /\ Tokened(taken) /\ Shape(taken) /\ SuccessorWaits(taken) /\ Elsewhere(owner, taken)
      /\ Planned(taken)
  BY HeldPending, TakeSound DEF ConfirmMaintenancePersisted, Spared
<1>2. \/ owner.maintenance.phase = "Persisting" /\ owner' \in {given, kept}
      \/ owner' = NativeConfirmationFault(taken)
  BY DEF ConfirmMaintenancePersisted
<1>3. CASE owner' = NativeConfirmationFault(taken)
  BY <1>1, <1>3, FaultSound
<1>4. CASE owner.maintenance.phase = "Persisting" /\ owner' \in {given, kept}
  <2>1. Settled(taken)
    <3>1. HasPending(owner, "Persist")
      BY <1>1 DEF HasPending
    <3>2. ~owner.unknown => PersistIsLast(owner)
      BY SoundSteps DEF Tidy, Orderly
    <3> HIDE DEF taken
    <3> QED
      BY <1>1, <3>1, <3>2 DEF Settled, PlanContinues, PersistIsLast, Elsewhere
  <2>2. taken.maintenance.phase = "Persisting"
    BY <1>1, <1>4 DEF Elsewhere
  <2> HIDE DEF taken
  <2> DEFINE settled == Settle(taken.maintenance, "Exclusive")
             sealed  == Settle(taken.maintenance, "Sealed")
  <2>5. /\ {"phase", "request"} \subseteq DOMAIN settled /\ settled.request \in Requests
        /\ {"phase", "request"} \subseteq DOMAIN sealed /\ sealed.request \in Requests
    BY <1>1, <2>2 DEF Shape, Settle
  <2>6. /\ given.maintenance = settled /\ kept.maintenance = sealed
        /\ \A f \in WorkFields \ {"maintenance", "controller"} :
             given[f] = taken[f] /\ kept[f] = taken[f]
        /\ WorkFields \subseteq DOMAIN given /\ WorkFields \subseteq DOMAIN kept
        /\ given.controller.kind = "Maintenance" /\ kept.controller.kind = "NoController"
        /\ "kind" \in DOMAIN given.controller /\ "kind" \in DOMAIN kept.controller
    BY <1>1 DEF Shape, WorkFields, NoController
  <2> HIDE DEF given, kept, settled, sealed
  <2>3. ASSUME NEW t \in {given, kept}
        PROVE  /\ Shape(t) /\ t.pending = taken.pending /\ t.admission = taken.admission
               /\ t.pastePhase = taken.pastePhase /\ t.closePlan = taken.closePlan
               /\ t.emergency = taken.emergency /\ t.poisoned = taken.poisoned
               /\ t.unknown = taken.unknown /\ t.predecessor = taken.predecessor
               /\ t.controller.kind \in {"Maintenance", "NoController"}
               /\ t.exit = taken.exit
               /\ t.ownership = taken.ownership /\ t.plan = taken.plan
    BY <1>1, <2>3, <2>5, <2>6 DEF Shape, WorkFields
  <2>4. Shape(owner') /\ Alike(taken, owner')
    BY <1>4, <2>2, <2>3 DEF Alike, Resembles, SameTokens, OpenIsWanted, IsCapture, CaptureKinds
  <2> QED
    BY <1>1, <2>1, <2>4, AlikeSound DEF Sound
<1> QED
  BY <1>2, <1>3, <1>4

\* The native side is confirmed to have stopped.
LEMMA ConfirmStoppedSound ==
  ASSUME Sound(owner), NEW slot \in Slots, ConfirmNativeStopped(slot)
  PROVE  Sound(owner')
<1> DEFINE taken == Take(owner, slot)
<1>1. /\ Tokened(taken) /\ Shape(taken) /\ SuccessorWaits(taken) /\ Elsewhere(owner, taken)
      /\ Sound(taken)
  BY HeldPending, TakeSound DEF ConfirmNativeStopped, Spared
<1>2. \/ /\ owner.exit # "Running"
         /\ \E exit \in {"ResponseReady", "StoppedSealed", "Exiting"} :
              owner' = [taken EXCEPT !.exit = exit]
      \/ owner' = NativeConfirmationFault(taken)
  BY DEF ConfirmNativeStopped
<1>3. owner.exit # "Running" => taken.exit # "Running"
  BY <1>1 DEF Elsewhere
<1> HIDE DEF taken
<1>4. ASSUME NEW exit \in {"ResponseReady", "StoppedSealed", "Exiting"}, taken.exit # "Running",
             owner' = [taken EXCEPT !.exit = exit]
      PROVE  Sound(owner')
  BY <1>1, <1>4, ExitAlike, AlikeSound
<1> QED
  BY <1>1, <1>2, <1>3, <1>4, FaultSound

\* All confirmations.
LEMMA ConfirmSound ==
  ASSUME owner \in State, Sound(owner), NEW slot \in Slots, Confirm(slot)
  PROVE  Sound(owner')
BY ConfirmAppliedSound, ConfirmOpenedSound, ConfirmClosedSound, ConfirmWaitingSound,
   ConfirmGoneSound, ConfirmPersistedSound, ConfirmStoppedSound, ConfirmCancelledSound
DEF Confirm

-----------------------------------------------------------------------------
\* When native state is unknown nothing but the tokens and the close is left
\* to be said.
LEMMA UnknownSettled ==
  ASSUME NEW s, Tokened(s), s.unknown, CloseUnderway(s)
  PROVE  Settled(s)
BY DEF Settled, Planned, Tidy, DoubtIsUnknown

\* A gate of which nothing is known is closed once more.
LEMMA UncertainBarrierSettled ==
  ASSUME NEW s, Tokened(s)
  PROVE  Settled(UncertainBarrier(s)) /\ SameAuthority(s, UncertainBarrier(s))
<1> DEFINE degraded == Degrade(s)
           t == [degraded EXCEPT !.admission = "Unknown",
                                 !.closePlan = IF @ = None THEN DefaultClose ELSE @]
<1>1. UncertainBarrier(s) = IF HasPending(t, "Close") THEN t ELSE Issue(t, "Close", None, None)
  BY DEF UncertainBarrier
<1>2. Tidy(degraded) /\ degraded.unknown /\ SameAuthority(s, degraded)
  BY DegradeTidy
<1> HIDE DEF degraded
<1>3. /\ Shape(t) /\ t.pending = degraded.pending /\ t.admission = "Unknown"
      /\ t.emergency = degraded.emergency /\ t.poisoned = degraded.poisoned
      /\ t.unknown /\ t.predecessor = degraded.predecessor
      /\ t.controller = degraded.controller /\ t.plan = degraded.plan
  BY <1>2, DefaultCloseType DEF Tidy, Tokened, Shape, WorkFields
<1> HIDE DEF t
<1>4. SameTokens(degraded, t) /\ SameAuthority(degraded, t)
  BY <1>3 DEF SameTokens, SameAuthority, IsCapture
<1>5. Tokened(t)
  BY <1>2, <1>3, <1>4, TokensAlike DEF Tidy, Tokened, PoisonStops
<1>6. CASE HasPending(t, "Close")
  <2>1. Settled(t)
    BY <1>3, <1>5, <1>6, UnknownSettled DEF CloseUnderway
  <2> QED
    BY <1>1, <1>2, <1>4, <1>6, <2>1, SameAuthorityComposes
<1>7. CASE ~HasPending(t, "Close")
  <2> DEFINE u == Issue(t, "Close", None, None)
  <2>1. [kind |-> "Close", arg |-> None, config |-> None, superseded |-> FALSE] \in Action
    BY ActionTypes
  <2>2. /\ \A k \in ActionKinds : ClassOf(k) = ClassOf("Close") => ~HasPending(t, k)
        /\ "Close" \notin DependentKinds
    BY <1>7, Kinds
  <2>3. \/ /\ Tokened(u) /\ Elsewhere(t, u)
           /\ \A k : HasPending(u, k) <=> HasPending(t, k) \/ k = "Close"
        \/ Settled(u) /\ SameAuthority(t, u)
    BY <1>5, <2>1, <2>2, IssueOutcome
  <2> HIDE DEF u
  <2>4. Settled(u) /\ SameAuthority(t, u)
    BY <1>3, <2>3, UnknownSettled, SameAuthorityComposes DEF Elsewhere, CloseUnderway
  <2> QED
    BY <1>1, <1>2, <1>4, <1>7, <2>4, SameAuthorityComposes DEF u
<1> QED
  BY <1>6, <1>7

\* A close that was not applied is issued again.
LEMMA CloseAgainSound ==
  ASSUME Sound(owner), NEW slot \in Slots, owner.pending[slot] # None,
         owner.pending[slot].kind = "Close"
  PROVE  Sound(Issue(Take(owner, slot), "Close", None, None))
<1> DEFINE taken == Take(owner, slot)
           t     == Issue(taken, "Close", None, None)
<1>1. /\ Tokened(owner) /\ OneOfAClass(owner) /\ Shape(owner) /\ Settled(owner) /\ Planned(owner)
      /\ Tidy(owner) /\ HasPending(owner, "Close")
  BY SoundSteps DEF Tokened, HasPending
<1>2. /\ Tokened(taken) /\ Tidy(taken) /\ SuccessorWaits(taken) /\ Elsewhere(owner, taken)
  BY TakeSound
<1>3. /\ \A k : HasPending(taken, k) <=> HasPending(owner, k) /\ k # "Close"
      /\ OpenIsWanted(owner) => OpenIsWanted(taken)
  BY <1>1, TakeTokens
<1>4. [kind |-> "Close", arg |-> None, config |-> None, superseded |-> FALSE] \in Action
  BY ActionTypes
<1> HIDE DEF taken
<1>5. /\ \A k \in ActionKinds : ClassOf(k) = ClassOf("Close") => ~HasPending(taken, k)
      /\ "Close" \notin DependentKinds
  BY <1>3, Kinds
<1>6. \/ /\ Tokened(t) /\ Elsewhere(taken, t)
         /\ \A k : HasPending(t, k) <=> HasPending(taken, k) \/ k = "Close"
         /\ AdmissionPends(taken) => AdmissionPends(t)
         /\ OpenIsWanted(taken) => OpenIsWanted(t)
      \/ Settled(t) /\ SameAuthority(taken, t)
  BY <1>2, <1>4, <1>5, IssueOutcome
<1> HIDE DEF t
<1>7. CASE /\ Tokened(t) /\ Elsewhere(taken, t)
           /\ \A k : HasPending(t, k) <=> HasPending(taken, k) \/ k = "Close"
           /\ AdmissionPends(taken) => AdmissionPends(t)
           /\ OpenIsWanted(taken) => OpenIsWanted(t)
  <2>1. taken.unknown \/ taken.exit = "Running"
    <3>1. ~owner.unknown => StoppedIsDrained(owner)
      BY <1>1 DEF Tidy, Orderly
    <3>2. "Close" \in ActionKinds \ {"StopNative"}
      BY Kinds
    <3> QED
      BY <1>1, <1>2, <3>1, <3>2 DEF StoppedIsDrained, Elsewhere
  <2>2. Tidy(t)
    BY <1>2, <1>7, <2>1, IndependentTokenSettled
  <2>3. /\ HasPending(t, "Close") /\ \A k : HasPending(t, k) <=> HasPending(owner, k)
        /\ OpenIsWanted(owner) => OpenIsWanted(t)
        /\ Elsewhere(owner, t)
    BY <1>1, <1>2, <1>3, <1>7 DEF Elsewhere
  <2>4. CloseUnderway(t) /\ (DependentsBlocked(t) <=> DependentsBlocked(owner))
    BY <2>3, BlockedByKind DEF CloseUnderway, Elsewhere
  <2>5. ~t.unknown => OpeningIsClear(t) /\ CandidateIsPlanned(t) /\ PlanContinues(t)
    BY <1>1, <2>3, <2>4 DEF Settled, Planned, OpeningIsClear, CandidateIsPlanned, PlanContinues,
       Elsewhere
  <2>6. Settled(t)
    BY <2>2, <2>4, <2>5 DEF Settled, Planned
  <2> QED
    BY <1>2, <1>7, <2>6, SameAuthorityComposes DEF Sound, t, taken
<1>8. CASE Settled(t) /\ SameAuthority(taken, t)
  BY <1>2, <1>8, SameAuthorityComposes DEF Sound, t, taken
<1> QED
  BY <1>6, <1>7, <1>8

\* An opening that was not applied leaves the gate closed.
LEMMA OpenNotAppliedSound ==
  ASSUME Sound(owner), NEW slot \in Slots, owner.pending[slot] # None,
         owner.pending[slot].kind = "Open"
  PROVE  Sound(OpenNotApplied(Take(owner, slot)))
<1> DEFINE taken == Take(owner, slot)
           shut  == [taken EXCEPT !.admission = IF @ = "Opening" THEN "Closed" ELSE @]
<1>1. OpenNotApplied(taken) \in {shut, RequestClose(shut, DefaultClose)}
  BY DEF OpenNotApplied
<1>2. /\ Tokened(taken) /\ Tidy(taken) /\ SuccessorWaits(taken) /\ Elsewhere(owner, taken)
      /\ Shape(taken)
      /\ Spared(owner, "Open") => Sound(taken)
  BY TakeSound
<1>3. CASE owner.admission # "Opening"
  <2>1. Sound(taken) /\ taken.admission # "Opening"
    BY <1>2, <1>3 DEF Spared, Elsewhere
  <2> HIDE DEF taken
  <2>2. Unmoved(taken, shut)
    BY <1>2, <2>1 DEF Unmoved, Elsewhere, Shape, WorkFields
  <2> HIDE DEF shut
  <2>3. Sound(shut) /\ Tidy(shut) /\ SuccessorWaits(shut)
    BY <1>2, <2>1, <2>2, UnmovedAlike, AlikeSound, SoundSteps DEF Sound
  <2> QED
    BY <1>1, <2>3, DefaultCloseSound DEF taken
<1>4. CASE owner.admission = "Opening"
  <2>1. taken.admission = "Opening"
    BY <1>2, <1>4 DEF Elsewhere
  <2>2. ASSUME ~taken.unknown
        PROVE  /\ taken.ownership.candidate # "Active"
               /\ ~taken.plan.candidate /\ ~taken.plan.paste /\ taken.plan.config = None
               /\ ~taken.plan.persist
               /\ Orderly(taken)
    <3>1. ~owner.unknown /\ OpeningIsClear(owner) /\ Orderly(taken)
      BY <1>2, <2>2, SoundSteps DEF Planned, Tidy, Elsewhere
    <3>2. /\ owner.ownership.candidate # "Active" /\ ~owner.plan.paste
      BY <1>4, <3>1 DEF OpeningIsClear
    <3> HIDE DEF taken
    <3> QED
      BY <1>2, <2>1, <3>1, <3>2 DEF Orderly, WorkWaitsForGate, Elsewhere
  <2> HIDE DEF taken
  <2>3. /\ Shape(shut) /\ shut.pending = taken.pending /\ shut.admission = "Closed"
        /\ shut.pastePhase = taken.pastePhase /\ shut.closePlan = taken.closePlan
        /\ shut.emergency = taken.emergency /\ shut.poisoned = taken.poisoned
        /\ shut.unknown = taken.unknown /\ shut.predecessor = taken.predecessor
        /\ shut.controller = taken.controller
        /\ shut.maintenance = taken.maintenance /\ shut.exit = taken.exit
        /\ shut.ownership = taken.ownership /\ shut.plan = taken.plan
    BY <1>2, <2>1 DEF Shape, WorkFields
  <2> HIDE DEF shut
  <2>4. SameTokens(taken, shut) /\ SuccessorWaits(shut)
    BY <1>2, <2>3 DEF SameTokens, SuccessorWaits, IsCapture
  <2>5. Tokened(shut) /\ (\A kind : HasPending(shut, kind) <=> HasPending(taken, kind))
        /\ (AdmissionPends(shut) <=> AdmissionPends(taken))
    BY <1>2, <2>3, <2>4, TokensAlike DEF Tokened, PoisonStops
  <2>6. DoubtIsUnknown(shut) /\ CloseUnderway(shut)
    BY <1>2, <2>3 DEF Tidy, DoubtIsUnknown, CloseUnderway
  <2>7. ASSUME ~shut.unknown PROVE Orderly(shut)
    <3>1. Orderly(taken)
      BY <2>2, <2>3, <2>7
    <3>2. /\ WorkWaitsForGate(shut) /\ AppliedWithoutCandidate(shut) /\ PasteRecords(shut)
          /\ CancellationUnderway(shut) /\ PersistIsLast(shut) /\ SealCancelsPaste(shut)
      BY <2>3, <2>5, <3>1 DEF Orderly, WorkWaitsForGate, AppliedWithoutCandidate, PasteRecords,
         CancellationUnderway, PersistIsLast, SealCancelsPaste
    <3>3. AdmissionPends(shut) /\ StoppedIsDrained(shut) /\ NeutralStays(shut)
      BY <2>1, <2>3, <2>5, <3>1 DEF Orderly, WorkWaitsForGate, StoppedIsDrained, NeutralStays
    <3> QED
      BY <3>2, <3>3 DEF Orderly
  <2>8. ~shut.unknown => OpeningIsClear(shut) /\ CandidateIsPlanned(shut) /\ PlanContinues(shut)
    BY <2>2, <2>3 DEF OpeningIsClear, CandidateIsPlanned, PlanContinues
  <2>9. Sound(shut) /\ Tidy(shut)
    BY <2>4, <2>5, <2>6, <2>7, <2>8 DEF Sound, Settled, Planned, Tidy
  <2> QED
    BY <1>1, <2>4, <2>9, DefaultCloseSound DEF taken
<1> QED
  BY <1>3, <1>4

\* A session mode or a configuration that was not applied.
LEMMA ModeFailedSound ==
  ASSUME Sound(owner), NEW slot \in Slots, owner.pending[slot] # None,
         owner.pending[slot].kind \in {"SessionMode", "Configuration"}, NEW failure
  PROVE  Sound(Failed(Take(owner, slot), owner.pending[slot], failure))
<1> DEFINE taken   == Take(owner, slot)
           off     == [taken EXCEPT !.mode = None]
           dropped == [taken EXCEPT !.applied = None]
<1>1. /\ Tokened(taken) /\ Shape(taken) /\ SuccessorWaits(taken)
      /\ Planned(taken)
      /\ owner.pending[slot].kind = "SessionMode" => Sound(taken)
  BY TakeSound DEF Spared
<1>2. Failed(taken, owner.pending[slot], failure) =
        IF owner.pending[slot].kind = "SessionMode" THEN off ELSE IssueNextDependent(dropped)
  BY DEF Failed
<1> HIDE DEF taken
<1>3. Unmoved(taken, off) /\ Unmoved(taken, dropped)
  BY <1>1 DEF Unmoved, Elsewhere, Shape, WorkFields
<1> HIDE DEF off, dropped
<1>4. owner.pending[slot].kind = "SessionMode" => Sound(off)
  BY <1>1, <1>3, UnmovedAlike, AlikeSound
<1>5. Planned(dropped) /\ SuccessorWaits(dropped)
  BY <1>1, <1>3, UnmovedAlike, AlikeSound, SameAuthorityComposes
<1>6. Sound(IssueNextDependent(dropped))
  BY <1>5, ContinueSound
<1> QED
  BY <1>2, <1>4, <1>6 DEF taken

\* A paste that was not admitted, or of whose admission nothing is known.
LEMMA AdmissionFailedSound ==
  ASSUME Sound(owner), NEW slot \in Slots, owner.pending[slot] # None,
         owner.pending[slot].kind = "AdmitPaste", NEW failure
  PROVE  Sound(Failed(Take(owner, slot), owner.pending[slot], failure))
<1> DEFINE taken == Take(owner, slot)
           arg   == owner.pending[slot].arg
           lost  == [taken EXCEPT !.pastePhase = [kind |-> "Indeterminate", auth |-> arg,
                                                  cancel |-> FALSE],
                                  !.ownership.paste = "Indeterminate"]
<1>1. /\ Tokened(taken) /\ Shape(taken) /\ SuccessorWaits(taken) /\ Elsewhere(owner, taken)
  BY TakeSound
<1>2. Failed(taken, owner.pending[slot], failure) =
        IF failure = "FailedNotApplied"
        THEN IssueNextDependent(IF taken.pastePhase.auth = arg THEN WithoutPaste(taken) ELSE taken)
        ELSE NativeConfirmationFault(lost)
  BY DEF Failed
<1>3. /\ Tokened(owner) /\ OneOfAClass(owner) /\ Shape(owner) /\ Planned(owner) /\ Tidy(owner)
      /\ ~owner.unknown => AdmissionPends(owner)
  BY SoundSteps DEF Tokened, Tidy, Orderly
<1>4. CASE failure = "FailedNotApplied" /\ taken.pastePhase.auth = arg
  <2>1. Planned(WithoutPaste(taken)) /\ SuccessorWaits(WithoutPaste(taken))
    <3>1. owner.pastePhase.auth = owner.pending[slot].arg
      BY <1>1, <1>4 DEF Elsewhere
    <3> QED
      BY <3>1, PasteGonePlanned
  <2> HIDE DEF taken
  <2>2. Sound(IssueNextDependent(WithoutPaste(taken)))
    BY <2>1, ContinueSound
  <2> QED
    BY <1>2, <1>4, <2>2 DEF taken
<1>5. CASE failure = "FailedNotApplied" /\ taken.pastePhase.auth # arg
  <2>1. owner.unknown \/ owner.pastePhase.kind # "Admitting"
    <3>1. owner.pastePhase.auth # arg
      BY <1>1, <1>5 DEF Elsewhere
    <3>2. \A i \in Slots : HasKind(owner.pending[i], "AdmitPaste") => i = slot
      BY <1>3 DEF OneOfAClass, HasKind
    <3> QED
      BY <1>3, <3>1, <3>2 DEF AdmissionPends
  <2>2. Planned(taken)
    BY <1>3, <2>1, TakeTidy DEF Spared
  <2> HIDE DEF taken
  <2>3. Sound(IssueNextDependent(taken))
    BY <1>1, <2>2, ContinueSound
  <2> QED
    BY <1>2, <1>5, <2>3 DEF taken
<1>6. CASE failure # "FailedNotApplied"
  <2>1. arg \in Pastes /\ arg # None
    <3>1. owner.pending[slot] \in Action
      BY <1>3 DEF Shape
    <3> QED
      BY <3>1, NoneAssumption DEF Action, ArgumentsOf
  <2> HIDE DEF taken, arg
  <2>2. /\ Shape(lost) /\ lost.pending = taken.pending /\ lost.plan = taken.plan
        /\ lost.poisoned = taken.poisoned
        /\ lost.predecessor = taken.predecessor /\ lost.controller = taken.controller
    BY <1>1, <2>1 DEF Shape, WorkFields
  <2> HIDE DEF lost
  <2>3. SameTokens(taken, lost) /\ SuccessorWaits(lost)
    BY <1>1, <2>2 DEF SameTokens, SuccessorWaits, IsCapture
  <2>4. Tokened(lost)
    BY <1>1, <2>2, <2>3, TokensAlike DEF Tokened, PoisonStops
  <2>5. Sound(NativeConfirmationFault(lost))
    BY <2>3, <2>4, FaultSound
  <2> QED
    BY <1>2, <1>6, <2>5 DEF taken
<1> QED
  BY <1>4, <1>5, <1>6

\* A cancellation of which nothing is known is the last dependent step.
LEMMA CancellationFailedSound ==
  ASSUME Sound(owner), NEW slot \in Slots, owner.pending[slot] # None,
         owner.pending[slot].kind \in {"CancelCandidate", "CancelPaste"}, NEW failure
  PROVE  Sound(Failed(Take(owner, slot), owner.pending[slot], failure))
<1> DEFINE taken    == Take(owner, slot)
           degraded == Degrade(taken)
           t        == Poison(degraded)
<1>1. /\ Tokened(taken) /\ SuccessorWaits(taken)
      /\ \A k \in DependentKinds : ~HasPending(taken, k)
  BY TakeSound, Kinds
<1>2. Failed(taken, owner.pending[slot], failure) = t
  BY DEF Failed
<1> HIDE DEF taken
<1>3. /\ Tidy(degraded) /\ degraded.unknown /\ SameTokens(taken, degraded)
      /\ SuccessorWaits(degraded)
  BY <1>1, DegradeTidy, SameAuthorityComposes
<1> HIDE DEF degraded
<1>4. \A k \in DependentKinds : ~HasPending(degraded, k)
  BY <1>1, <1>3, TokensAlike
<1>5. Tokened(t) /\ SuccessorWaits(t)
  BY <1>3, <1>4, PoisonTokened DEF Tidy
<1>6. t.unknown /\ t.poisoned
  BY <1>3 DEF Poison, Tidy, Tokened, Shape, WorkFields
<1> HIDE DEF t
<1>7. Settled(t)
  BY <1>5, <1>6, UnknownSettled DEF CloseUnderway
<1> QED
  BY <1>2, <1>5, <1>7 DEF Sound, taken

\* A seal that could not be persisted.
LEMMA PersistFailedSound ==
  ASSUME Sound(owner), NEW slot \in Slots, owner.pending[slot] # None,
         owner.pending[slot].kind = "Persist", NEW failure
  PROVE  Sound(Failed(Take(owner, slot), owner.pending[slot], failure))
<1> DEFINE taken  == Take(owner, slot)
           arg    == owner.pending[slot].arg
           record == [Settle(taken.maintenance, "SealedFailed") EXCEPT !.request = arg]
           failed == [taken EXCEPT !.maintenance = record, !.plan.persist = FALSE]
           t      == WithNativeFault(failed)
<1>1. /\ Tokened(taken) /\ Shape(taken) /\ SuccessorWaits(taken) /\ Elsewhere(owner, taken)
      /\ Planned(taken)
  BY TakeSound DEF Spared
<1>2. Failed(taken, owner.pending[slot], failure) = t
  BY DEF Failed
<1>3. arg \in Requests
  <2>1. owner.pending[slot] \in Action
    BY SoundSteps DEF Shape
  <2> QED
    BY <2>1 DEF Action, ArgumentsOf
<1>4. HasPending(owner, "Persist")
  BY DEF HasPending
<1>5. /\ ~owner.unknown => PersistIsLast(owner) /\ StoppedIsDrained(owner) /\ PlanContinues(owner)
      /\ PoisonStops(owner)
  BY SoundSteps DEF Tidy, Tokened, Orderly, Settled
<1>6. "Persist" \in DependentKinds /\ "Persist" \in ActionKinds \ {"StopNative"}
  BY Kinds
<1>7. ~owner.poisoned
  BY <1>4, <1>5, <1>6 DEF PoisonStops
<1> HIDE DEF taken, arg
<1>8. /\ Shape(t) /\ t.pending = taken.pending /\ t.admission = taken.admission
      /\ t.pastePhase = taken.pastePhase /\ t.closePlan = taken.closePlan
      /\ t.emergency = taken.emergency /\ t.poisoned = taken.poisoned
      /\ t.unknown = taken.unknown /\ t.predecessor = taken.predecessor
      /\ t.controller = taken.controller /\ t.exit = taken.exit
      /\ t.ownership = taken.ownership
      /\ t.maintenance.phase = "SealedFailed" /\ ~t.plan.persist
      /\ \A f \in {"candidate", "paste", "config", "drain"} : t.plan[f] = taken.plan[f]
  <2>1. /\ {"phase", "request"} \subseteq DOMAIN record
        /\ record.phase = "SealedFailed" /\ record.request = arg
    BY DEF Settle
  <2> HIDE DEF record
  <2>2. /\ WorkFields \subseteq DOMAIN failed /\ failed.maintenance = record
        /\ \A f \in WorkFields \ {"maintenance", "plan"} : failed[f] = taken[f]
        /\ {"candidate", "paste", "config", "persist", "drain"} \subseteq DOMAIN failed.plan
        /\ ~failed.plan.persist
        /\ \A f \in {"candidate", "paste", "config", "drain"} : failed.plan[f] = taken.plan[f]
    BY <1>1 DEF Shape, WorkFields
  <2> HIDE DEF failed
  <2>3. WorkFields \subseteq DOMAIN t /\ \A f \in WorkFields : t[f] = failed[f]
    BY <2>2 DEF WithNativeFault, WorkFields
  <2> HIDE DEF t
  <2> QED
    BY <1>1, <1>3, <2>1, <2>2, <2>3 DEF Shape, WorkFields
<1> HIDE DEF t
<1>9. SameTokens(taken, t) /\ SuccessorWaits(t)
  BY <1>1, <1>8 DEF SameTokens, SuccessorWaits, IsCapture
<1>10. /\ Tokened(t) /\ (\A kind : HasPending(t, kind) <=> HasPending(taken, kind))
       /\ (AdmissionPends(t) <=> AdmissionPends(taken))
       /\ (OpenIsWanted(t) <=> OpenIsWanted(taken))
  <2>1. ~t.poisoned
    BY <1>1, <1>7, <1>8 DEF Elsewhere
  <2> QED
    BY <1>1, <1>8, <1>9, <2>1, TokensAlike DEF Tokened, PoisonStops, OpenIsWanted
<1>11. DoubtIsUnknown(t) /\ CloseUnderway(t)
  BY <1>1, <1>8, <1>10 DEF Planned, Tidy, DoubtIsUnknown, CloseUnderway
<1>12. ASSUME ~t.unknown
       PROVE  Orderly(t) /\ OpeningIsClear(t) /\ CandidateIsPlanned(t) /\ PlanContinues(t)
  <2>1. /\ ~owner.unknown /\ ~taken.unknown /\ Orderly(taken) /\ OpeningIsClear(taken)
        /\ CandidateIsPlanned(taken)
    BY <1>1, <1>8, <1>12 DEF Elsewhere, Planned, Tidy
  <2>2. /\ taken.exit = "Running"
        /\ ~taken.plan.candidate /\ ~taken.plan.paste /\ taken.plan.config = None
        /\ taken.pastePhase.kind \notin {"Waiting", "Admitting"}
    BY <1>1, <1>4, <1>5, <1>6, <2>1 DEF Elsewhere, PersistIsLast, StoppedIsDrained
  <2>3. /\ WorkWaitsForGate(t) /\ AppliedWithoutCandidate(t) /\ PasteRecords(t)
        /\ CancellationUnderway(t) /\ PersistIsLast(t) /\ SealCancelsPaste(t)
    BY <1>8, <1>10, <2>1, <2>2 DEF Orderly, WorkWaitsForGate, AppliedWithoutCandidate,
       PasteRecords, CancellationUnderway, PersistIsLast, SealCancelsPaste
  <2>4. AdmissionPends(t) /\ StoppedIsDrained(t) /\ NeutralStays(t)
    BY <1>8, <1>10, <2>1, <2>2 DEF Orderly, StoppedIsDrained, NeutralStays
  <2>5. OpeningIsClear(t) /\ CandidateIsPlanned(t) /\ PlanContinues(t)
    BY <1>8, <1>10, <2>1, <2>2 DEF OpeningIsClear, CandidateIsPlanned, PlanContinues
  <2> QED
    BY <2>3, <2>4, <2>5 DEF Orderly
<1> QED
  BY <1>2, <1>9, <1>10, <1>11, <1>12 DEF Sound, Settled, Planned, Tidy, taken

\* A stop that failed leaves the owner running.
LEMMA StopFailedSound ==
  ASSUME Sound(owner), NEW slot \in Slots, owner.pending[slot] # None,
         owner.pending[slot].kind = "StopNative", NEW failure
  PROVE  Sound(Failed(Take(owner, slot), owner.pending[slot], failure))
<1> DEFINE taken == Take(owner, slot)
           t     == WithNativeFault([taken EXCEPT !.exit = "Running"])
<1>1. Sound(taken) /\ Shape(taken) /\ Settled(taken) /\ Planned(taken) /\ Tidy(taken)
  BY TakeSound, SoundSteps DEF Spared
<1>2. Failed(taken, owner.pending[slot], failure) = t
  BY DEF Failed
<1> HIDE DEF taken
<1>3. /\ Shape(t) /\ t.pending = taken.pending /\ t.admission = taken.admission
      /\ t.pastePhase = taken.pastePhase /\ t.closePlan = taken.closePlan
      /\ t.emergency = taken.emergency /\ t.poisoned = taken.poisoned
      /\ t.unknown = taken.unknown /\ t.predecessor = taken.predecessor
      /\ t.controller = taken.controller /\ t.exit = "Running"
      /\ t.maintenance = taken.maintenance
      /\ t.ownership = taken.ownership /\ t.plan = taken.plan
  BY <1>1 DEF WithNativeFault, Shape, WorkFields
<1> HIDE DEF t
<1>4. SameTokens(taken, t) /\ SuccessorWaits(t) /\ (OpenIsWanted(t) <=> OpenIsWanted(taken))
  BY <1>1, <1>3 DEF Sound, SameTokens, SuccessorWaits, IsCapture, OpenIsWanted
<1>5. /\ Tokened(t) /\ (\A kind : HasPending(t, kind) <=> HasPending(taken, kind))
      /\ (AdmissionPends(t) <=> AdmissionPends(taken))
      /\ (DependentsBlocked(t) <=> DependentsBlocked(taken))
  BY <1>1, <1>3, <1>4, TokensAlike DEF Tidy, Tokened, PoisonStops
<1>6. /\ DoubtIsUnknown(t) /\ CloseUnderway(t)
      /\ ~t.unknown => OpeningIsClear(t) /\ CandidateIsPlanned(t) /\ PlanContinues(t)
  BY <1>1, <1>3, <1>4, <1>5 DEF Settled, Planned, Tidy, DoubtIsUnknown, CloseUnderway,
     OpeningIsClear, CandidateIsPlanned, PlanContinues
<1>7. ASSUME ~t.unknown PROVE Orderly(t)
  <2>1. Orderly(taken)
    BY <1>1, <1>3, <1>7 DEF Tidy
  <2>2. /\ WorkWaitsForGate(t) /\ AppliedWithoutCandidate(t) /\ PasteRecords(t)
        /\ CancellationUnderway(t) /\ PersistIsLast(t) /\ SealCancelsPaste(t)
    BY <1>3, <1>5, <2>1 DEF Orderly, WorkWaitsForGate, AppliedWithoutCandidate, PasteRecords,
       CancellationUnderway, PersistIsLast, SealCancelsPaste
  <2>3. AdmissionPends(t) /\ StoppedIsDrained(t) /\ NeutralStays(t)
    BY <1>3, <1>5, <2>1 DEF Orderly, StoppedIsDrained, NeutralStays
  <2> QED
    BY <2>2, <2>3 DEF Orderly
<1> QED
  BY <1>2, <1>4, <1>5, <1>6, <1>7 DEF Sound, Settled, Planned, Tidy, taken

\* A failure of whatever kind.
LEMMA FailedSound ==
  ASSUME Sound(owner), NEW slot \in Slots, owner.pending[slot] # None, NEW failure
  PROVE  Sound(Failed(Take(owner, slot), owner.pending[slot], failure))
<1> DEFINE taken  == Take(owner, slot)
           action == owner.pending[slot]
<1>1. Tokened(taken) /\ SuccessorWaits(taken)
  BY TakeSound
<1>2. action.kind \in ActionKinds
  BY SoundSteps, BlockedByKind
<1>3. Sound(UncertainBarrier(taken))
  <2> HIDE DEF taken
  <2> QED
    BY <1>1, UncertainBarrierSettled, SameAuthorityComposes DEF Sound
<1>4. CASE action.kind = "Close"
  BY <1>3, <1>4, CloseAgainSound DEF Failed
<1>5. CASE action.kind = "Open"
  BY <1>3, <1>5, OpenNotAppliedSound DEF Failed
<1> QED
  BY <1>2, <1>4, <1>5, Kinds, ModeFailedSound, AdmissionFailedSound, CancellationFailedSound,
     PersistFailedSound, StopFailedSound

\* Failures of native actions.
LEMMA FailSound ==
  ASSUME Sound(owner), NEW slot \in Slots, Fail(slot)
  PROVE  Sound(owner')
<1>1. ASSUME NEW failure \in Failures, FailNativeAction(slot, failure) PROVE Sound(owner')
  BY <1>1, FailedSound DEF FailNativeAction, Outstanding
<1>2. CASE FailNativeAdapterContract(slot)
  <2> DEFINE failed == Failed(Take(owner, slot), owner.pending[slot], "Indeterminate")
  <2>1. owner' \in {failed, NativeConfirmationFault(failed)} /\ owner.pending[slot] # None
    BY <1>2 DEF FailNativeAdapterContract, Outstanding
  <2>2. Sound(failed)
    BY <2>1, FailedSound
  <2> HIDE DEF failed
  <2>3. Sound(NativeConfirmationFault(failed))
    BY <2>2, SoundSteps, FaultSound DEF Sound
  <2> QED
    BY <2>1, <2>2, <2>3
<1> QED
  BY <1>1, <1>2 DEF Fail

-----------------------------------------------------------------------------
(* The specification                                                       *)

\* Nothing is held, planned or begun by a new owner.
LEMMA InitWork == Init => WorkInvariant
<1>1. /\ NewOwner.admission = "Closed" /\ NewOwner.exit = "Running"
      /\ \A i \in Slots : NewOwner.pending[i] = None
      /\ NewOwner.plan = NoDependents /\ NewOwner.predecessor = None
      /\ NewOwner.ownership = Neutral /\ NewOwner.pastePhase = NoPaste
      /\ NewOwner.emergency = FALSE /\ NewOwner.poisoned = FALSE /\ NewOwner.unknown = FALSE
      /\ NewOwner.maintenance.phase = "None"
  BY DEF NewOwner, NoMaintenance
<1>2. /\ Neutral.candidate = "None" /\ Neutral.paste = "None" /\ NoPaste.kind = "None"
      /\ ~NoDependents.candidate /\ ~NoDependents.paste /\ NoDependents.config = None
      /\ ~NoDependents.persist
  BY DEF Neutral, NoPaste, NoDependents
<1>3. /\ OneOfAClass(NewOwner) /\ PoisonStops(NewOwner) /\ DoubtIsUnknown(NewOwner)
      /\ CloseUnderway(NewOwner) /\ SuccessorWaits(NewOwner)
  BY <1>1 DEF OneOfAClass, PoisonStops, DoubtIsUnknown, CloseUnderway, SuccessorWaits
<1>4. \A kind : ~HasPending(NewOwner, kind)
  BY <1>1 DEF HasPending
<1>5. /\ WorkWaitsForGate(NewOwner) /\ AppliedWithoutCandidate(NewOwner)
      /\ PasteRecords(NewOwner) /\ CancellationUnderway(NewOwner) /\ AdmissionPends(NewOwner)
      /\ PersistIsLast(NewOwner) /\ SealCancelsPaste(NewOwner)
      /\ StoppedIsDrained(NewOwner) /\ NeutralStays(NewOwner)
  BY <1>1, <1>2, <1>4
     DEF WorkWaitsForGate, AppliedWithoutCandidate, PasteRecords, CancellationUnderway,
         AdmissionPends, PersistIsLast, SealCancelsPaste, StoppedIsDrained, NeutralStays
<1>6. /\ OpeningIsClear(NewOwner) /\ CandidateIsPlanned(NewOwner) /\ PlanContinues(NewOwner)
  BY <1>1, <1>2 DEF OpeningIsClear, CandidateIsPlanned, PlanContinues
<1> QED
  BY <1>3, <1>5, <1>6 DEF Init, WorkInvariant, WorkSettled, Orderly

\* Every call of the reducer preserves the invariant.
LEMMA NextWork ==
  ASSUME InductiveInvariant, WorkInvariant, [Next]_vars
  PROVE  WorkInvariant'
<1>1. owner \in State /\ Core(owner)
  BY DEF InductiveInvariant, Core
<1>2. owner' \in State
  BY NextInvariant DEF InductiveInvariant, Core
<1>3. Sound(owner)
  BY <1>1, SoundIsInvariant DEF WorkInvariant
<1>4. Sound(owner')
  <2>1. CASE UNCHANGED vars
    BY <1>3, <2>1 DEF vars
  <2>2. ASSUME NEW slot \in Slots, Confirm(slot) \/ Fail(slot)
        PROVE  Sound(owner')
    BY <1>1, <1>3, <2>2, ConfirmSound, FailSound
  <2>3. CASE Startup \/ Capture \/ Retire \/ Native \/ MaintainAndExit
    BY <1>1, <1>3, <2>3, StartupSound, CaptureSound, RetireSound, NativeSound,
       MaintainAndExitSound
  <2> QED
    BY <2>1, <2>2, <2>3 DEF Next
<1> QED
  BY <1>2, <1>4, SoundIsInvariant DEF WorkInvariant

\* The work behind the gate is in order in every reachable state, for every
\* number of connections and tokens, whatever the adapter confirms or fails.
THEOREM OwnerWorkHolds == Spec => []WorkInvariant
<1>1. InductiveInvariant /\ WorkInvariant /\ [Next]_vars => WorkInvariant'
  BY NextWork
<1> QED
  BY InitWork, <1>1, OwnerInvariantHolds, PTL DEF Spec

-----------------------------------------------------------------------------
(* What follows from the invariant                                         *)

\* A close can be outstanding, a semantic action, a dependent one and the
\* stop: these are all the classes.
Classes == {"Dependent", "Semantic", "Close", "StopNative"}

\* Each token is of a class.
LEMMA ClassesOfTokens ==
  ASSUME owner \in State
  PROVE  \A i \in Slots : owner.pending[i] # None => ClassOf(owner.pending[i].kind) \in Classes
<1>1. \A i \in Slots : owner.pending[i] # None => owner.pending[i].kind \in ActionKinds
  BY StateShape, BlockedByKind
<1>2. \A kind \in ActionKinds : ClassOf(kind) \in Classes
  BY Kinds DEF Classes
<1> QED
  BY <1>1, <1>2

\* There are four classes.
LEMMA FourClasses == IsFiniteSet(Classes) /\ Cardinality(Classes) = 4
<1> DEFINE A == {"Dependent"}
           B == A \cup {"Semantic"}
           C == B \cup {"Close"}
           D == C \cup {"StopNative"}
<1>1. IsFiniteSet(A) /\ Cardinality(A) = 1
  BY FS_Singleton
<1>2. IsFiniteSet(B) /\ Cardinality(B) = 2
  <2>1. "Semantic" \notin A
    OBVIOUS
  <2> HIDE DEF A
  <2> QED
    BY <1>1, <2>1, FS_AddElement
<1>3. IsFiniteSet(C) /\ Cardinality(C) = 3
  <2>1. "Close" \notin B
    OBVIOUS
  <2> HIDE DEF B
  <2> QED
    BY <1>2, <2>1, FS_AddElement
<1>4. IsFiniteSet(D) /\ Cardinality(D) = 4
  <2>1. "StopNative" \notin C
    OBVIOUS
  <2> HIDE DEF C
  <2> QED
    BY <1>3, <2>1, FS_AddElement
<1>5. D = Classes
  BY DEF Classes
<1> QED
  BY <1>4, <1>5

\* With more slots than classes there is always a free one.
LEMMA SlotIsFree ==
  ASSUME owner \in State, OneOfAClass(owner), IsFiniteSet(Slots), Cardinality(Slots) > 4
  PROVE  TokensNeverExhaust
<1> SUFFICES ASSUME \A i \in Slots : owner.pending[i] # None
             PROVE  FALSE
  BY DEF TokensNeverExhaust, Allocatable
<1> DEFINE f == [i \in Slots |-> ClassOf(owner.pending[i].kind)]
<1>1. f \in [Slots -> Classes]
  BY ClassesOfTokens
<1>2. Cardinality(Classes) < Cardinality(Slots)
  BY FourClasses, FS_CardinalityType
<1>3. PICK i \in Slots, j \in Slots : i # j /\ f[i] = f[j]
  <2> HIDE DEF f
  <2>1. \E x, y \in Slots : x # y /\ f[x] = f[y]
    BY <1>1, <1>2, FourClasses, FS_PigeonHole
  <2> QED
    BY <2>1
<1>4. ClassOf(owner.pending[i].kind) = ClassOf(owner.pending[j].kind)
  BY <1>3
<1> QED
  BY <1>3, <1>4 DEF OneOfAClass

\* Of the dependent actions one at most is outstanding.
LEMMA OneDependentOfAll ==
  ASSUME OneOfAClass(owner)
  PROVE  OneDependent
<1>1. \A i, j \in Dependents : i = j
  BY Kinds DEF Dependents, OneOfAClass
<1>2. Dependents = {} \/ \E i : Dependents = {i}
  <2> DEFINE D == Dependents
  <2> HIDE DEF D
  <2> SUFFICES D = {} \/ \E i : D = {i}
    BY DEF D
  <2>1. \A i, j \in D : i = j
    BY <1>1 DEF D
  <2> QED
    BY <2>1
<1>3. Cardinality(Dependents) \in {0, 1}
  BY <1>2, FS_EmptySet, FS_Singleton
<1> QED
  BY <1>3 DEF OneDependent

\* The steps a close demands reach the adapter one at a time, the
\* cancellations first, and none is forgotten, stranded or resumed after an
\* uncertain one, whatever was merged into the plan and in whatever order
\* the confirmations and failures come.
THEOREM OwnerDependentsInOrder == Spec => []DependentsInOrder
<1>1. WorkInvariant => DependentsInOrder
  <2> SUFFICES ASSUME WorkInvariant PROVE DependentsInOrder
    OBVIOUS
  <2>1. OneDependent
    BY OneDependentOfAll DEF WorkInvariant, WorkSettled
  <2>2. CancelBeforeApply
    <3> SUFFICES ASSUME ~owner.unknown, Pending("Configuration") \/ Pending("Persist")
                 PROVE  /\ owner.ownership.candidate # "Active"
                        /\ ~Pending("CancelCandidate") /\ ~Pending("CancelPaste")
      BY DEF CancelBeforeApply
    <3>1. owner.ownership.candidate # "Active"
      BY DEF WorkInvariant, WorkSettled, Orderly, AppliedWithoutCandidate, Pending
    <3>2. ~Pending("CancelCandidate") /\ ~Pending("CancelPaste")
      <4>1. OneOfAClass(owner)
        BY DEF WorkInvariant, WorkSettled
      <4>2. PICK i \in Slots : /\ owner.pending[i] # None
                               /\ owner.pending[i].kind \in {"Configuration", "Persist"}
        BY DEF Pending, HasPending
      <4>3. \A j \in Slots : /\ owner.pending[j] # None
                             /\ owner.pending[j].kind \in {"CancelCandidate", "CancelPaste"}
                             => i = j
        BY <4>1, <4>2, Kinds DEF OneOfAClass
      <4> QED
        BY <4>2, <4>3 DEF Pending, HasPending
    <3> QED
      BY <3>1, <3>2
  <2>3. PlanNeverStranded
    BY DEF WorkInvariant, WorkSettled, PlanContinues, PlanNeverStranded
  <2>4. CancellationNeverForgotten
    BY DEF WorkInvariant, WorkSettled, Orderly, CancellationUnderway,
           CancellationNeverForgotten, Pending
  <2>5. UncertainCancellationStops
    BY DEF WorkInvariant, WorkSettled, PoisonStops, UncertainCancellationStops,
           Dependents, HasPending
  <2> QED
    BY <2>1, <2>2, <2>3, <2>4, <2>5 DEF DependentsInOrder
<1> QED
  BY <1>1, OwnerWorkHolds, PTL

\* What is sealed, stopped, or told to a predecessor as neutral, is behind a
\* closed gate and holds nothing, and stays so while the adapter still
\* confirms and reports.
THEOREM OwnerNeutralIsTrue == Spec => []NeutralIsTrue
<1>1. InductiveInvariant /\ WorkInvariant => NeutralIsTrue
  <2> SUFFICES ASSUME InductiveInvariant, WorkInvariant PROVE NeutralIsTrue
    OBVIOUS
  <2>1. SealBehindClose
    BY DEF WorkInvariant, WorkSettled, Orderly, WorkWaitsForGate, SealBehindClose
  <2>2. StoppedMeansDrained
    <3> SUFFICES ASSUME owner.exit # "Running", ~owner.unknown
                 PROVE  /\ owner.admission = "Closed" /\ NativeNeutral(owner.ownership)
                        /\ owner.plan = NoDependents /\ owner.closePlan = None
                        /\ owner.predecessor = None
                        /\ \A slot \in Slots :
                             owner.pending[slot] # None => owner.pending[slot].kind = "StopNative"
      BY DEF StoppedMeansDrained
    <3>1. WorkWaitsForGate(owner) /\ StoppedIsDrained(owner)
      BY DEF WorkInvariant, WorkSettled, Orderly
    <3>2. owner.admission = "Closed"
      BY <3>1 DEF WorkWaitsForGate
    <3>3. owner \in State
      BY DEF InductiveInvariant, Core
    <3>4. \A slot \in Slots : owner.pending[slot] # None => owner.pending[slot].kind \in ActionKinds
      BY <3>3, StateShape, BlockedByKind
    <3> QED
      BY <3>1, <3>2, <3>4 DEF StoppedIsDrained, HasPending
  <2>3. NeutralOfferStaysTrue
    BY DEF WorkInvariant, WorkSettled, Orderly, NeutralStays, NeutralOfferStaysTrue
  <2> QED
    BY <2>1, <2>2, <2>3 DEF NeutralIsTrue
<1> QED
  BY <1>1, OwnerInvariantHolds, OwnerWorkHolds, PTL

\* A close is under way for as long as the gate is in doubt, and a token for
\* it is always free: the code has eight slots, and no more than four actions
\* are ever outstanding, whatever the order of calls and confirmations.
THEOREM OwnerCloseAssured ==
  IsFiniteSet(Slots) /\ Cardinality(Slots) > 4 => (Spec => []CloseAssured)
<1> SUFFICES ASSUME IsFiniteSet(Slots), Cardinality(Slots) > 4
             PROVE  Spec => []CloseAssured
  OBVIOUS
<1>1. InductiveInvariant /\ WorkInvariant => CloseAssured
  <2> SUFFICES ASSUME InductiveInvariant, WorkInvariant PROVE CloseAssured
    OBVIOUS
  <2>1. CloseOutstanding
    BY DEF WorkInvariant, WorkSettled, CloseUnderway, CloseOutstanding, Pending
  <2>2. TokensNeverExhaust
    BY SlotIsFree DEF InductiveInvariant, Core, WorkInvariant, WorkSettled
  <2> QED
    BY <2>1, <2>2 DEF CloseAssured
<1> QED
  BY <1>1, OwnerInvariantHolds, OwnerWorkHolds, PTL
=============================================================================
