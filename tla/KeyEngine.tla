------------------------------ MODULE KeyEngine ------------------------------
(***************************************************************************)
(* The pure transactional reducer of captured keys,                        *)
(* src/helper/keyboard-core/src/transactional/engine.rs and engine/*.rs.   *)
(* The engine is a record.  Every input returns [engine, turn, passed]:    *)
(* the turn is NoTurn when the input is complete and otherwise the effect  *)
(* the adapter must carry out; passed is the edge the foreground receives. *)
(*                                                                         *)
(* Metrics, timestamps and native key data are left out, and so are the    *)
(* effect counts no adapter can report (EffectProtocolViolation) and       *)
(* events of the helper's own tagged input, which the engine passes by.    *)
(* Both adapters give an event the engine's own revision.                  *)
(***************************************************************************)
EXTENDS KeyJournal, FiniteSets

CONSTANTS
  MenuKinds,               \* the modifiers whose release opens a menu
  NeutralizationRequired,  \* MenuNeutralizationPolicy
  NoEvent, NoTurn, NoMatch

States == {"Idle", "Candidate", "Committed", "DrainOnly"}
Nothing == [letters |-> {}, sides |-> {}]

\* with_physical_snapshot over the unconfigured engine
New(snapshot) ==
  [revision |-> 0, admission |-> TRUE, shuttingDown |-> FALSE, terminal |-> FALSE,
   state |-> "Idle", owned |-> {},
   match |-> NoMatch, expected |-> {}, journal |-> <<>>,
   binding |-> NoBinding, upPending |-> FALSE,
   physical |-> snapshot,
   foreground |-> [letters |-> snapshot.letters, sides |-> snapshot.sides],
   fenced |-> [letters |-> snapshot.letters, sides |-> snapshot.sides],
   neutralized |-> {}, cleanup |-> <<>>, menuCleanup |-> {}]

\* What the engine returns.
Complete(e, event, capture) ==
  IF capture THEN [engine |-> e, turn |-> NoTurn, passed |-> NoEvent]
  ELSE [engine |-> [e EXCEPT !.foreground = Apply(@, event)], turn |-> NoTurn, passed |-> event]
CompleteControl(e) == [engine |-> e, turn |-> NoTurn, passed |-> NoEvent]
Need(e, turn) == [engine |-> e, turn |-> turn, passed |-> NoEvent]

\* A turn: the effect, the event it belongs to (NoEvent for a control), what
\* becomes of that event when the effect is not carried out in full, what the
\* effect is for, the letters the engine owned before the turn, and whether the
\* callback had to return before the turn was over.
Turn(effect, event, capture, for) ==
  [effect |-> effect, event |-> event, capture |-> capture, for |-> for,
   menu |-> {}, requested |-> <<>>, deferred |-> <<>>, before |-> {}, withheld |-> FALSE]

IsCleanup(turn) == turn.effect \in {"CleanupMenu", "CleanupInjected"}

\* Ownership.
ToState(e, state, owned) ==
  [e EXCEPT !.state = state, !.owned = owned, !.match = NoMatch, !.expected = {},
            !.journal = <<>>, !.binding = NoBinding, !.upPending = FALSE]
ToIdle(e) == ToState(e, "Idle", {})
ToDrain(e, owned) == ToState(e, "DrainOnly", owned)
ToDrainOrIdle(e, owned) == IF owned = {} THEN ToIdle(e) ELSE ToDrain(e, owned)
KeepCommitted(e, owned) == IF owned = {} THEN ToIdle(e) ELSE [e EXCEPT !.owned = owned]

Held(e) == e.physical.letters
Close(e) == [e EXCEPT !.admission = FALSE]
Terminal(e) == [e EXCEPT !.admission = FALSE, !.terminal = TRUE]
MoveOwnedToDrain(e) == ToDrain(e, e.owned \cap Held(e))

TerminalEvent(e, event, capture) == Complete(MoveOwnedToDrain(Terminal(e)), event, capture)

\* discard_candidate_into_terminal_drain
Discard(e, event, capture) ==
  IF e.state # "Candidate" THEN TerminalEvent(e, event, capture)
  ELSE LET up == IF event.phase = "Up" THEN {event.key} ELSE {}
       IN  Complete(ToDrainOrIdle(Terminal(e), (e.owned \cap Held(e)) \ up), event,
                    capture \/ event.key \in e.owned)

DiscardControl(e) == CompleteControl(ToDrainOrIdle(Terminal(e), e.owned))

\* Fences and reconciliation with a native snapshot.
Fence(e, sides) ==
  [e EXCEPT !.fenced.letters = @ \cup Held(e),
            !.fenced.sides = IF sides THEN @ \cup e.physical.sides ELSE @]

StillHeld(keys, snapshot) ==
  [letters |-> keys.letters \cap snapshot.letters, sides |-> keys.sides \cap snapshot.sides]

Rebase(e, owned, snapshot) ==
  [e EXCEPT !.physical = snapshot,
            !.foreground = [letters |-> snapshot.letters \ owned, sides |-> snapshot.sides]]

ApplyReconciliation(e, snapshot, close) ==
  LET owned == e.owned \cap snapshot.letters
      rebased == [Rebase(e, owned, snapshot) EXCEPT
                    !.fenced = [letters |-> snapshot.letters, sides |-> snapshot.sides],
                    !.neutralized = {}]
  IN  IF close THEN ToDrain(Terminal(rebased), owned) ELSE ToIdle(rebased)

ApplyObservedReconciliation(e, snapshot) ==
  LET owned == e.owned \cap snapshot.letters
      rebased == [Rebase(e, owned, snapshot) EXCEPT
                    !.fenced = StillHeld(@, snapshot),
                    !.neutralized = @ \cap Combined(snapshot.sides)]
  IN  CASE e.state = "Idle" -> rebased
        [] e.state = "Committed" -> KeepCommitted(rebased, owned)
        [] e.state \in {"Candidate", "DrainOnly"} -> ToDrainOrIdle(rebased, owned)

ObservePhysical(e, snapshot) ==
  [e EXCEPT !.physical = snapshot, !.fenced = StillHeld(@, snapshot),
            !.neutralized = @ \cap Combined(snapshot.sides)]

\* Does the snapshot agree with the edge the engine predicts?
Consistent(e, event, snapshot) ==
  LET known == [letters |-> Held(e), sides |-> e.physical.sides]
      held == known.letters \cup known.sides
  IN  /\ event.key # OtherKey => (event.phase = "Down") # (event.key \in held)
      /\ Apply(known, event) = [letters |-> snapshot.letters, sides |-> snapshot.sides]

HandleMismatch(e, event, snapshot) ==
  LET fenced == Fence(Terminal(e), TRUE)
  IN  IF e.state = "Candidate" THEN Discard(fenced, event, FALSE)
      ELSE Complete(ApplyReconciliation(fenced, snapshot, TRUE), event, event.key \in e.owned)

SatisfyCleanup(e, event) ==
  IF event.phase = "Up" /\ event.key \notin e.owned
  THEN [e EXCEPT !.cleanup = WithoutLetter(@, event.key)]
  ELSE e

\* Requests for effects.
RequestReplay(e, event, capture, for) == Need(e, Turn("Replay", event, capture, for))

\* Mutant of CancelCandidate: the edge that passes is not replayed with the rest.
CancelWithoutEdge(e, event, capture) == RequestReplay(e, event, capture, "Event")

\* request_candidate_cancellation of an event that leaves admission open: an
\* edge that would pass joins the end of the replay and its original is held back.
CancelCandidate(e, event, capture) ==
  IF capture THEN RequestReplay(e, event, TRUE, "Event")
  ELSE RequestReplay([e EXCEPT !.journal = Append(@, event)], event, FALSE, "Event")

DeliverActivation(e, event, for) == Need(e, Turn("Activate", event, TRUE, for))

RequestActivation(e, event, for) ==
  LET menu == (e.expected \cap MenuKinds) \ e.neutralized
  IN  IF NeutralizationRequired /\ menu # {}
      THEN Need(e, [Turn("Neutralize", event, TRUE, for) EXCEPT !.menu = menu])
      ELSE DeliverActivation(e, event, for)

CleanupInjected(e, event, capture, for, requested, deferred) ==
  Need(e, [Turn("CleanupInjected", event, capture, for) EXCEPT
             !.requested = requested, !.deferred = deferred])

RetryCleanup(e) ==
  LET newlyHeld == Held(e) \ e.owned
      ready == Ready(e.cleanup, newlyHeld)
  IN  IF e.menuCleanup # {}
      THEN Need(e, [Turn("CleanupMenu", NoEvent, TRUE, "Retry") EXCEPT !.menu = e.menuCleanup])
      ELSE IF ready = <<>> THEN CompleteControl(e)
      ELSE CleanupInjected(e, NoEvent, TRUE, "Retry", ready, Blocked(e.cleanup, newlyHeld))

\* An edge, by the state of the engine.
HandleClosedGate(e, event) ==
  LET closed == Terminal(e)
      owned == e.owned \ (IF event.phase = "Up" THEN {event.key} ELSE {})
  IN  CASE e.state = "Candidate" -> Discard(closed, event, FALSE)
        [] e.state = "Idle" -> Complete(closed, event, FALSE)
        [] e.state \in {"Committed", "DrainOnly"} ->
             IF event.key \in e.owned THEN Complete(ToDrainOrIdle(closed, owned), event, TRUE)
             ELSE Complete(ToDrain(closed, e.owned), event, FALSE)

HandleDrain(e, event) ==
  LET owned == e.owned \ (IF event.phase = "Up" THEN {event.key} ELSE {})
  IN  IF event.key \in e.owned THEN Complete(ToDrainOrIdle(e, owned), event, TRUE)
      ELSE Complete(e, event, FALSE)

\* event_starts_candidate
MayStart(e, event, priorLetters) ==
  /\ e.state = "Idle" /\ event.key \in Letters /\ event.phase = "Down"
  /\ priorLetters = {} /\ e.fenced = Nothing /\ ~e.physical.altGr
  /\ e.admission /\ ~e.shuttingDown /\ ~e.terminal /\ Enabled(e.revision)
  /\ Start(e.revision, Combined(e.physical.sides), event.key).class # "NoCandidate"

HandleIdle(e, event, priorLetters) ==
  LET match == Start(e.revision, Combined(e.physical.sides), event.key)
      candidate == [e EXCEPT !.state = "Candidate", !.owned = {event.key}, !.match = match,
                             !.expected = Combined(e.physical.sides), !.journal = <<event>>]
  IN  IF ~MayStart(e, event, priorLetters) THEN Complete(e, event, FALSE)
      ELSE IF match.class = "Exact" THEN RequestActivation(candidate, event, "Down")
      ELSE Complete(candidate, event, TRUE)

\* A modifier that only goes away completes the exact shortcut that waits.
ModifierCompletes(e, event) ==
  /\ PendingExact(e.match) # NoBinding
  /\ event.phase = "Up" /\ event.key \in Sides
  /\ Combined(e.physical.sides) \subseteq e.expected

ContinueDown(e, event) ==
  LET match == Advance(e.match, event.key)
      owner == [e EXCEPT !.owned = @ \cup {event.key}]
      advanced == [owner EXCEPT !.match = match]
  IN  CASE match.class = "NoCandidate" -> CancelCandidate(owner, event, TRUE)
        [] match.class = "Exact" -> RequestActivation(advanced, event, "Down")
        [] OTHER -> Complete(advanced, event, TRUE)

ContinueUp(e, event) ==
  LET released == [e EXCEPT !.owned = @ \ {event.key}]
      pending == PendingExact(e.match)
  IN  IF pending # NoBinding /\ Trigger(pending) = event.key
      THEN RequestActivation(released, event, "Complete")
      ELSE CancelCandidate(released, event, TRUE)

HandleCandidate(e, event) ==
  LET valid == (event.phase = "Down") # (event.key \in e.owned)
      journaled == [e EXCEPT !.journal = Append(@, event)]
  IN  IF MustReplayBeforeNextCapture(e.journal) \/ e.physical.altGr
      THEN CancelCandidate(e, event, FALSE)
      ELSE IF Combined(e.physical.sides) # e.expected
      THEN IF ModifierCompletes(e, event) THEN RequestActivation(e, event, "Complete")
           ELSE CancelCandidate(e, event, FALSE)
      ELSE IF event.key \in Sides THEN Complete(e, event, FALSE)
      ELSE IF event.key = OtherKey \/ ~valid THEN CancelCandidate(e, event, FALSE)
      ELSE CASE event.phase = "Repeat" -> Complete(journaled, event, TRUE)
             [] event.phase = "Down" -> ContinueDown(journaled, event)
             [] event.phase = "Up" -> ContinueUp(journaled, event)

HandleCommitted(e, event) ==
  LET released == e.owned \ {event.key}
  IN  IF event.key \notin e.owned THEN Complete(e, event, FALSE)
      ELSE IF event.phase # "Up" THEN Complete(e, event, TRUE)
      ELSE IF event.key = Trigger(e.binding) /\ e.upPending
      THEN DeliverActivation([e EXCEPT !.owned = released, !.upPending = FALSE], event, "Up")
      ELSE Complete(KeepCommitted(e, released), event, TRUE)

BeginEvent(e, event, snapshot, gate) ==
  LET observed == ObservePhysical(e, snapshot)
      current == SatisfyCleanup(observed, event)
  IN  IF ~Consistent(e, event, snapshot) THEN HandleMismatch(observed, event, snapshot)
      ELSE IF gate = "Closed" THEN HandleClosedGate(current, event)
      ELSE CASE e.state = "Idle" -> HandleIdle(current, event, Held(e))
             [] e.state = "Candidate" -> HandleCandidate(current, event)
             [] e.state = "Committed" -> HandleCommitted(current, event)
             [] e.state = "DrainOnly" -> HandleDrain(current, event)

PassUncapturable(e, event, snapshot) ==
  LET observed == ObservePhysical(e, snapshot)
  IN  IF ~Consistent(e, event, snapshot) THEN HandleMismatch(observed, event, snapshot)
      ELSE Complete(Fence(SatisfyCleanup(observed, event), FALSE), event, FALSE)

\* Controls.
InstallConfig(e) ==
  Fence([e EXCEPT !.revision = @ + 1,
                  !.admission = Enabled(e.revision + 1) /\ ~e.terminal /\ ~e.shuttingDown], TRUE)

ReplaceConfig(e) ==
  IF e.state = "Candidate" THEN RequestReplay(e, NoEvent, TRUE, "Install")
  ELSE CompleteControl(InstallConfig(e))

\* CancelCandidate, and the reasons of Cancel that leave admission open
CancelControl(e) ==
  IF e.state = "Candidate" THEN RequestReplay(e, NoEvent, TRUE, "Cancel") ELSE CompleteControl(e)

CancelTerminally(e) ==
  CompleteControl(IF e.state \in {"Candidate", "Committed"} THEN ToDrain(Terminal(e), e.owned)
                  ELSE Terminal(e))

Reconcile(e, snapshot) ==
  CASE e.state = "Candidate" ->
         RequestReplay([e EXCEPT !.physical = snapshot, !.fenced = StillHeld(@, snapshot)],
                       NoEvent, TRUE, "Reconcile")
    [] e.state \in {"Committed", "DrainOnly"} ->
         CompleteControl(ApplyReconciliation(e, snapshot, TRUE))
    [] e.state = "Idle" -> CompleteControl(ApplyReconciliation(e, snapshot, FALSE))

\* Mutant of ReconcileObserved: a release the adapter missed is not delivered.
ReconcileSilently(e, snapshot) == CompleteControl(ApplyObservedReconciliation(e, snapshot))

ReconcileObserved(e, snapshot) ==
  LET released == e.state = "Committed" /\ e.upPending /\ Trigger(e.binding) \notin snapshot.letters
      applied == ApplyObservedReconciliation(e, snapshot)
  IN  IF ~released THEN CompleteControl(applied)
      ELSE Need([applied EXCEPT !.upPending = FALSE], Turn("Activate", NoEvent, TRUE, "ObservedUp"))

\* Mutant of Shutdown: a candidate is left to go on.
ShutdownLate(e) == CompleteControl([Close(e) EXCEPT !.shuttingDown = TRUE])

Shutdown(e) ==
  LET closed == [Close(e) EXCEPT !.shuttingDown = TRUE]
  IN  CompleteControl(IF e.state \in {"Candidate", "Committed"} THEN ToDrain(closed, e.owned)
                      ELSE closed)

\* close_before_unsubmitted_effect
CloseBeforeEffect(e, turn) ==
  IF turn.effect = "Activate" /\ turn.for = "Up" THEN TerminalEvent(e, turn.event, TRUE)
  ELSE IF turn.effect = "Activate" /\ turn.for = "ObservedUp" THEN DiscardControl(e)
  ELSE IF turn.event # NoEvent THEN Complete(Close(e), turn.event, turn.capture)
  ELSE CompleteControl(Close(e))

\* How a turn ends.
FinishTerminal(e, turn) ==
  IF turn.event = NoEvent THEN CompleteControl(Terminal(e))
  ELSE Complete(Terminal(e), turn.event, turn.capture)

FinishReplay(e, turn) ==
  CASE turn.for = "Event" -> Complete(e, turn.event, TRUE)
    [] turn.for = "Install" -> CompleteControl(InstallConfig(e))
    [] turn.for = "Cancel" -> CompleteControl(e)
    [] turn.for = "Reconcile" -> CompleteControl(ApplyReconciliation(e, e.physical, FALSE))

FinishActivation(e, turn) ==
  LET committed == [ToState(e, "Committed", e.owned) EXCEPT
                      !.binding = e.match.binding, !.upPending = turn.for = "Down"]
  IN  Complete(KeepCommitted(committed, e.owned), turn.event,
               ~(turn.for = "Complete" /\ turn.event.key \in Sides))

\* The outcomes of the effects, Continuation::resume.
Neutralized(e, turn, accepted) ==
  CASE accepted = 2 ->
         DeliverActivation([e EXCEPT !.neutralized = @ \cup turn.menu], turn.event, turn.for)
    [] accepted = 1 ->
         Need([e EXCEPT !.menuCleanup = turn.menu],
              [Turn("CleanupMenu", turn.event, TRUE, turn.for) EXCEPT !.menu = turn.menu])
    [] accepted = 0 -> Discard(Terminal(e), turn.event, TRUE)

MenuCleaned(e, turn, accepted) ==
  LET cleaned == IF accepted = 1 THEN [e EXCEPT !.menuCleanup = {}] ELSE e
  IN  IF turn.event # NoEvent THEN Discard(Terminal(cleaned), turn.event, TRUE)
      ELSE IF accepted = 1 /\ e.cleanup # <<>> THEN RetryCleanup(cleaned)
      ELSE CompleteControl(cleaned)

ActivationDelivered(e, turn, delivered) ==
  CASE turn.for \in {"Down", "Complete"} ->
         IF delivered THEN FinishActivation(e, turn) ELSE Discard(Terminal(e), turn.event, TRUE)
    [] turn.for = "Up" ->
         Complete(IF delivered THEN KeepCommitted(e, e.owned) ELSE ToDrain(Terminal(e), e.owned),
                  turn.event, TRUE)
    [] turn.for = "ObservedUp" -> IF delivered THEN CompleteControl(e) ELSE DiscardControl(e)

ReplayedInFull(e, turn) ==
  LET shown == [Fence(e, FALSE) EXCEPT !.foreground = ApplyAll(@, e.journal)]
      missing == ForMissingLetters(CleanupForAccepted(e.journal), Held(e))
      rebased == ApplyReconciliation(ToIdle(shown), e.physical, FALSE)
  IN  IF turn.for = "Reconcile" /\ missing # <<>>
      THEN CleanupInjected(
             [rebased EXCEPT !.foreground.letters = @ \cup ToSet(missing), !.cleanup = missing],
             NoEvent, TRUE, "Reconcile", missing, <<>>)
      ELSE FinishReplay(ToIdle(shown), turn)

ReplayedInPart(e, turn, submitted) ==
  LET prefix == SubSeq(e.journal, 1, submitted)
      shown == [e EXCEPT !.foreground = ApplyAll(@, prefix)]
      drained == MoveOwnedToDrain(Terminal(shown))
      cleanup == CleanupForAccepted(prefix)
  IN  IF cleanup = <<>> THEN FinishTerminal(drained, turn)
      ELSE CleanupInjected([drained EXCEPT !.cleanup = cleanup],
                           turn.event, turn.capture, "Replay", cleanup, <<>>)

Replayed(e, turn, submitted) ==
  IF submitted = Len(e.journal) THEN ReplayedInFull(e, turn) ELSE ReplayedInPart(e, turn, submitted)

ReplaySuppressed(e, turn) == FinishTerminal(ToDrain(e, e.owned \cap Held(e)), turn)

CleanedUp(e, turn, submitted) ==
  LET accepted == Releases(SubSeq(turn.requested, 1, submitted))
      remaining == FollowedBy(turn.deferred, Suffix(turn.requested, submitted))
      cleaned == [e EXCEPT !.foreground = ApplyAll(@, accepted), !.cleanup = remaining]
  IN  CASE turn.for = "Retry" -> CompleteControl(cleaned)
        [] turn.for = "Reconcile" /\ remaining = <<>> -> FinishReplay(cleaned, turn)
        [] OTHER -> FinishTerminal(cleaned, turn)
=============================================================================
