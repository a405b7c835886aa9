----------------------------- MODULE KeyMatcher -----------------------------
(***************************************************************************)
(* The compiled shortcut matcher of the keyboard core,                     *)
(* src/helper/keyboard-core/src/transactional/matcher.rs, and the edges it *)
(* is fed.  The bit sets of the source are sets of bindings.               *)
(***************************************************************************)
EXTENDS Naturals, Sequences

CONSTANTS
  Letters,         \* the activation letters
  Sides,           \* the modifier keys, one for each side of the keyboard
  KindOf,          \* which modifier a side is a side of
  Configurations,  \* the owner's configurations, in the order it installs them
  NoBinding

ASSUME KeysAssumption == Letters \cap Sides = {}

OtherKey == "other"
Keys == Letters \cup Sides \cup {OtherKey}
Phases == {"Down", "Repeat", "Up"}
Edges == [key : Keys, phase : Phases]

Kinds == {KindOf[s] : s \in Sides}
Combined(sides) == {KindOf[s] : s \in sides}

\* A binding is an ordered shortcut under an exact combination of modifiers.
Trigger(binding) == binding.keys[Len(binding.keys)]

\* Revision zero is the unconfigured engine.
Enabled(revision) == revision # 0 /\ Configurations[revision].enabled
Bindings(revision) == IF revision = 0 THEN {} ELSE Configurations[revision].bindings

Classify(candidates, depth) ==
  LET exact == {b \in candidates : Len(b.keys) = depth}
  IN  [candidates |-> candidates,
       depth |-> depth,
       class |-> CASE candidates = {} -> "NoCandidate"
                   [] candidates # {} /\ exact = {} -> "Prefix"
                   [] exact # {} /\ exact = candidates -> "Exact"
                   [] OTHER -> "ExactWithLonger",
       binding |-> IF exact = {} THEN NoBinding ELSE CHOOSE b \in exact : TRUE]

Start(revision, modifiers, letter) ==
  Classify({b \in Bindings(revision) : b.modifiers = modifiers /\ b.keys[1] = letter}, 1)

Advance(match, letter) ==
  LET depth == match.depth + 1
  IN  Classify({b \in match.candidates : Len(b.keys) >= depth /\ b.keys[depth] = letter}, depth)

\* The binding a later release of its trigger completes.
PendingExact(match) == IF match.class = "ExactWithLonger" THEN match.binding ELSE NoBinding
=============================================================================
