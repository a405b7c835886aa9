---------------------------- MODULE KeyCallbacks ----------------------------
(***************************************************************************)
(* The native owner thread around the key engine: it turns keyboard edges  *)
(* into events, carries out the effects the engine asks for and sends it   *)
(* the owner's controls, one turn at a time.                               *)
(* src/helper/keyboard-owner/src/platform/windows/hook: transaction.rs,    *)
(* transaction/deferred.rs, callback.rs, callback/event.rs, commands.rs,   *)
(* desktop.rs.  ReconcileGap is the recovery of the event tap of macOS.    *)
(*                                                                         *)
(* real is the keyboard itself, tracked what the adapter has observed of   *)
(* it, seen what the foreground application, and with it the system's own  *)
(* key state, has been shown, told the activation the controller was told  *)
(* is held.  kept are the modifiers whose release waits for the menu       *)
(* neutralization, lost the keys of which a callback missed an edge or an  *)
(* edge overtook their replay, hidden the letters pressed anew that a      *)
(* racing callback swallowed.                                              *)
(***************************************************************************)
EXTENDS KeyEngine

CONSTANTS
  AltGrSide,  \* the side that may be AltGr
  MaxLapses   \* bound: edges the owner misses, or that come in during a replay

ASSUME LapsesAssumption == MaxLapses \in Nat

VARIABLES engine, turn, gate, real, tracked, seen, told, raced, kept, lost, hidden, missed, overtaking

vars == <<engine, turn, gate, real, tracked, seen, told, raced, kept, lost, hidden, missed, overtaking>>

HeldKeys == [letters : SUBSET Letters, sides : SUBSET Sides]

\* What the adapter makes of the keys that are down: AltGr is one side of the
\* keyboard under some layouts.
Snapshot(held, altGr) ==
  [letters |-> held.letters, sides |-> held.sides, altGr |-> altGr /\ AltGrSide \in held.sides]

Init ==
  /\ real \in HeldKeys
  /\ tracked = Snapshot(real, FALSE)
  /\ engine = New(tracked)
  /\ turn = NoTurn
  /\ gate = "Open"
  /\ seen = real
  /\ told = NoBinding
  /\ raced = "No"
  /\ kept = {}
  /\ lost = {}
  /\ hidden = {}
  /\ missed = 0 /\ overtaking = 0

\* What the keyboard does; a letter repeats while it is held.
NativeEdges ==
  LET down == real.letters \cup real.sides
  IN  {edge \in Edges :
         \/ edge.key = OtherKey /\ edge.phase = "Down"
         \/ edge.key \in Letters /\ edge.phase = "Repeat" /\ edge.key \in down
         \/ edge.key # OtherKey /\ edge.phase = IF edge.key \in down THEN "Up" ELSE "Down"}

\* A native down is a repeat of a key the adapter has down.
Observed(edge) ==
  [edge EXCEPT !.phase = IF edge.phase = "Up" THEN "Up"
                         ELSE IF edge.key \in tracked.letters \cup tracked.sides THEN "Repeat"
                         ELSE "Down"]
Track(edge) ==
  {Snapshot(Apply([letters |-> tracked.letters, sides |-> tracked.sides], edge), altGr) :
     altGr \in IF edge.key = AltGrSide /\ edge.phase = "Down" THEN BOOLEAN ELSE {tracked.altGr}}

\* A turn the gate keeps from its effect ends at once; a cleanup goes ahead.
Drive(result) ==
  IF result.turn # NoTurn /\ gate = "Closed" /\ ~IsCleanup(result.turn)
  THEN CloseBeforeEffect(result.engine, result.turn)
  ELSE result

\* The turn, as the owner thread keeps it.  Outside of the hook are a
\* neutralization and a replay that a callback asks for.
Kept(asked) ==
  IF asked = NoTurn THEN NoTurn
  ELSE [asked EXCEPT
          !.before = IF turn = NoTurn THEN engine.owned ELSE turn.before,
          !.withheld = \/ asked.event # NoEvent /\ asked.effect \in {"Neutralize", "Replay"}
                       \/ turn # NoTurn /\ turn.withheld]

\* A callback that returned before its turn was over has captured its edge,
\* whatever the engine says of the edge in the end.
Settle(result, shown) ==
  LET driven == Drive(result)
      passes == driven.passed # NoEvent /\ (turn = NoTurn \/ ~turn.withheld)
  IN  /\ engine' = driven.engine
      /\ turn' = Kept(driven.turn)
      /\ seen' = IF passes THEN Apply(shown, driven.passed) ELSE shown

\* Bounds: an edge lapses while the engine may still capture, and after one that did
\* only one of the things comes that end its work from outside.
Working == gate = "Open" /\ ~engine.terminal /\ ~engine.shuttingDown
MayLapse == Working /\ missed + overtaking < MaxLapses
MayEnd == Working \/ missed + overtaking = 0

AtRest == turn = NoTurn /\ raced = "No" /\ kept = {}

\* A release that would open the menu has to wait for the dummy key.
KeepsBack(asked, edge) ==
  {side \in Sides : side = edge.key /\ KindOf[side] \in MenuKinds
                    /\ edge.phase = "Up" /\ asked # NoTurn /\ asked.effect = "Neutralize"}

\* A release the adapter and the engine both have no down for goes by.
AlreadyObserved(edge) ==
  /\ edge.phase = "Up" /\ engine.cleanup = <<>> /\ engine.menuCleanup = {}
  /\ edge.key \notin tracked.letters \cup tracked.sides \cup Held(engine) \cup engine.physical.sides
                      \cup engine.owned

\* A letter is judged under the modifiers that were tracked, be they stale: the
\* callback samples no native ones.
MayBegin(edge) == AtRest /\ ~AlreadyObserved(edge)

Pressed(edge) ==
  /\ real' = Apply(real, edge)
  /\ lost' = IF edge.phase = "Up" THEN lost \ ({edge.key} \ seen'.letters) ELSE lost
  /\ hidden' = hidden \ {edge.key}

Callback(edge) ==
  /\ MayBegin(edge)
  /\ \E snapshot \in Track(edge) :
       /\ tracked' = snapshot
       /\ Settle(BeginEvent(engine, Observed(edge), snapshot, gate), seen)
  /\ kept' = KeepsBack(turn', edge)
  /\ Pressed(edge)
  /\ UNCHANGED <<gate, told, raced, missed, overtaking>>

\* The first key of a shortcut over a target the owner could not identify.
UncapturableCallback(edge) ==
  /\ MayBegin(edge)
  /\ MayStart(engine, Observed(edge), Held(engine))
  /\ \E snapshot \in Track(edge) :
       /\ tracked' = snapshot
       /\ Settle(PassUncapturable(engine, Observed(edge), snapshot), seen)
  /\ Pressed(edge)
  /\ UNCHANGED <<gate, told, raced, kept, missed, overtaking>>

PassObservedRelease(edge) ==
  /\ AtRest /\ AlreadyObserved(edge)
  /\ seen' = Apply(seen, edge)
  /\ Pressed(edge)
  /\ UNCHANGED <<engine, turn, gate, tracked, told, raced, kept, missed, overtaking>>

\* An edge goes past the hook: the application sees it and the owner does not.
MissedEdge(edge) ==
  /\ AtRest /\ MayLapse
  /\ edge.key # OtherKey /\ edge.phase # "Repeat"
  /\ real' = Apply(real, edge)
  /\ seen' = Apply(seen, edge)
  /\ lost' = lost \cup ({edge.key} \cap Letters)
  /\ hidden' = hidden \ {edge.key}
  /\ missed' = missed + 1
  /\ UNCHANGED <<engine, turn, gate, tracked, told, raced, kept, overtaking>>

\* A callback while an effect of an event is under way outside of the hook:
\* it is tracked, and passes unless it would release what the neutralization needs
\* or is of a letter the engine owned before it.  So it passes before what is being
\* replayed.  One callback races at most, and no auto-repeat.
RacedCallback(edge) ==
  /\ turn # NoTurn /\ turn.event # NoEvent
  /\ raced = "No"
  /\ edge.key # OtherKey /\ edge.phase # "Repeat"
  /\ real' = Apply(real, edge)
  /\ tracked' \in Track(edge)
  /\ raced' = turn.effect
  /\ \/ /\ turn.effect = "Neutralize"
        /\ kept' = kept \cup KeepsBack(turn, edge)
        /\ LET swallowed == edge.key \in turn.before
           IN  /\ seen' = IF KeepsBack(turn, edge) # {} \/ swallowed THEN seen ELSE Apply(seen, edge)
               /\ hidden' = IF swallowed /\ edge.phase = "Down" THEN hidden \cup {edge.key}
                            ELSE hidden \ {edge.key}
        /\ UNCHANGED <<lost, overtaking>>
     \/ /\ turn.effect = "Replay" /\ MayLapse
        /\ seen' = Apply(seen, edge)
        /\ lost' = lost \cup ({edge.key} \cap {earlier.key : earlier \in ToSet(engine.journal)})
        /\ hidden' = hidden \ {edge.key}
        /\ overtaking' = overtaking + 1
        /\ UNCHANGED kept
  /\ UNCHANGED <<engine, turn, gate, told, missed>>

\* Mutant of RebaseAfterRace: the engine is not told.
ForgetRace ==
  /\ turn = NoTurn /\ raced # "No"
  /\ raced' = "No"
  /\ UNCHANGED <<engine, turn, gate, real, tracked, seen, told, kept, lost, hidden, missed, overtaking>>

\* What the owner thread does once the effect is over: it rebases the engine
\* on what it tracked, and lets the releases go that it kept back.
RebaseAfterRace ==
  /\ turn = NoTurn /\ raced # "No"
  /\ raced' = "No"
  /\ Settle(IF raced = "Neutralize" THEN ReconcileObserved(engine, tracked)
            ELSE Reconcile(engine, tracked), seen)
  /\ UNCHANGED <<gate, real, tracked, told, kept, lost, hidden, missed, overtaking>>

\* Mutant of ReleaseModifiers: also the ones that are down again.
ReleaseAllKept ==
  /\ turn = NoTurn /\ raced = "No" /\ kept # {}
  /\ kept' = {}
  /\ seen' = [seen EXCEPT !.sides = @ \ kept]
  /\ UNCHANGED <<engine, turn, gate, real, tracked, told, raced, lost, hidden, missed, overtaking>>

\* The releases still needed are injected; if the system does not take them all,
\* the hook is terminal.
ReleaseModifiers ==
  LET needed == kept \ tracked.sides
  IN  /\ turn = NoTurn /\ raced = "No" /\ kept # {}
      /\ kept' = {}
      /\ \E accepted \in SUBSET needed :
           /\ seen' = [seen EXCEPT !.sides = @ \ accepted]
           /\ gate' = IF accepted = needed THEN gate ELSE "Closed"
      /\ UNCHANGED <<engine, turn, real, tracked, told, raced, lost, hidden, missed, overtaking>>

\* The controls.
ControlTurn(result) ==
  /\ AtRest
  /\ Settle(result, seen)
  /\ UNCHANGED <<gate, real, tracked, told, raced, kept, lost, hidden, missed, overtaking>>

Configure ==
  /\ engine.revision < Len(Configurations)
  /\ ControlTurn(ReplaceConfig(engine))
CloseAdmission == ControlTurn(CompleteControl(Close(engine)))
Cancel == ControlTurn(CancelControl(engine))
CancelForGood == MayEnd /\ ControlTurn(CancelTerminally(engine))
StopEngine == MayEnd /\ ControlTurn(Shutdown(engine))
RetryNativeCleanup ==
  /\ engine.cleanup # <<>> \/ engine.menuCleanup # {}
  /\ ControlTurn(RetryCleanup(engine))

\* The poll of the system's key state, which never saw a captured letter go down
\* and judges AltGr anew; the only thing that corrects the modifiers.
ReconcileNative ==
  LET retained == engine.owned \cap tracked.letters
      sampled == [seen EXCEPT !.letters = @ \cup retained]
  IN  /\ AtRest /\ engine.cleanup = <<>> /\ engine.menuCleanup = {}
      /\ \E altGr \in BOOLEAN : tracked' = Snapshot(sampled, altGr)
      /\ \/ engine.physical.letters # tracked'.letters \/ engine.physical.sides # tracked'.sides
         \/ engine.physical.sides # tracked.sides \/ tracked.altGr # tracked'.altGr
      /\ Settle(Reconcile(engine, tracked'), seen)
      /\ UNCHANGED <<gate, real, told, raced, kept, lost, hidden, missed, overtaking>>

\* After a gap in the callbacks the hardware itself is read.
ReconcileGap ==
  /\ AtRest /\ missed > 0
  /\ tracked' = Snapshot(real, tracked.altGr)
  /\ Settle(Reconcile(engine, tracked'), seen)
  /\ lost' = {key \in lost : key \in Letters => (key \in seen.letters) # (key \in real.letters \ engine.owned)}
  /\ UNCHANGED <<gate, real, told, raced, kept, hidden, missed, overtaking>>

CloseGate ==
  /\ gate = "Open" /\ MayEnd
  /\ gate' = "Closed"
  /\ UNCHANGED <<engine, turn, real, tracked, seen, told, raced, kept, lost, hidden, missed, overtaking>>

\* The effects.
Asked(effect) == turn # NoTurn /\ turn.effect = effect
EffectTurn(result, shown) ==
  /\ Settle(result, shown)
  /\ UNCHANGED <<gate, real, tracked, raced, kept, lost, hidden, missed, overtaking>>

NeutralizeMenu ==
  /\ Asked("Neutralize")
  /\ \E accepted \in 0..2 : EffectTurn(Neutralized(engine, turn, accepted), seen)
  /\ UNCHANGED told

CleanupMenu ==
  /\ Asked("CleanupMenu")
  /\ \E accepted \in 0..1 : EffectTurn(MenuCleaned(engine, turn, accepted), seen)
  /\ UNCHANGED told

Deliver ==
  /\ Asked("Activate")
  /\ \E delivered \in BOOLEAN :
       /\ EffectTurn(ActivationDelivered(engine, turn, delivered), seen)
       /\ told' = IF ~delivered THEN told
                  ELSE IF turn.for = "Down" THEN engine.match.binding ELSE NoBinding

Replay ==
  /\ Asked("Replay")
  /\ \E submitted \in 0..Len(engine.journal) :
       EffectTurn(Replayed(engine, turn, submitted),
                  ApplyAll(seen, SubSeq(engine.journal, 1, submitted)))
  /\ UNCHANGED told

SuppressReplay ==
  /\ Asked("Replay")
  /\ EffectTurn(ReplaySuppressed(engine, turn), seen)
  /\ UNCHANGED told

ReleaseInjected ==
  /\ Asked("CleanupInjected")
  /\ \E submitted \in 0..Len(turn.requested) :
       EffectTurn(CleanedUp(engine, turn, submitted),
                  ApplyAll(seen, Releases(SubSeq(turn.requested, 1, submitted))))
  /\ UNCHANGED told

Next ==
  \/ \E edge \in NativeEdges :
       Callback(edge) \/ UncapturableCallback(edge) \/ MissedEdge(edge)
       \/ RacedCallback(edge) \/ PassObservedRelease(edge)
  \/ RebaseAfterRace \/ ReleaseModifiers
  \/ Configure \/ CloseAdmission \/ Cancel \/ CancelForGood \/ StopEngine
  \/ RetryNativeCleanup \/ ReconcileNative \/ ReconcileGap \/ CloseGate
  \/ NeutralizeMenu \/ CleanupMenu \/ Deliver \/ Replay \/ SuppressReplay \/ ReleaseInjected

Spec == Init /\ [][Next]_vars
=============================================================================
