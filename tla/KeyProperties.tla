--------------------------- MODULE KeyProperties ---------------------------
(***************************************************************************)
(* What the key engine promises the user, the foreground application and   *)
(* the controller.                                                         *)
(***************************************************************************)
EXTENDS KeyCallbacks

Snapshots == [letters : SUBSET Letters, sides : SUBSET Sides, altGr : BOOLEAN]
Events == Edges \cup {NoEvent}

\* The types of the engine and of the turn, with what their parts say of each
\* other: only a candidate has a journal and a match, an idle engine owns
\* nothing, and the bounded journal has room for what it holds.
KeyTypeOK ==
  /\ engine.revision \in 0..Len(Configurations)
  /\ engine.state \in States
  /\ engine.physical \in Snapshots
  /\ engine.foreground \in HeldKeys /\ engine.fenced \in HeldKeys
  /\ engine.owned \subseteq Letters
  /\ engine.state = "Idle" => engine.owned = {}
  /\ engine.journal # <<>> <=> engine.state = "Candidate"
  /\ engine.match # NoMatch <=> engine.state = "Candidate"
  /\ engine.binding # NoBinding <=> engine.state = "Committed"
  /\ engine.upPending => engine.state = "Committed"
  /\ ToSet(engine.journal) \subseteq Edges
  /\ Len(engine.journal) <= JournalCapacity
  /\ ToSet(engine.cleanup) \subseteq Letters
  /\ Len(engine.cleanup) = Cardinality(ToSet(engine.cleanup))
  /\ real \in HeldKeys /\ seen \in HeldKeys /\ tracked \in Snapshots
  /\ turn # NoTurn => turn.event \in Events

\* A captured or replayed letter is never left down in the foreground
\* application: between turns every letter it holds is held by the user, or
\* waits in the retained cleanup, or is one of which an edge was missed or has
\* overtaken its replay.
NoStuckLetter ==
  AtRest => seen.letters \subseteq real.letters \cup ToSet(engine.cleanup) \cup lost

\* Nothing the user types is swallowed for good: while the engine works, the
\* application has been shown every letter that is held but those the engine
\* still owns and those a race with the neutralization has hidden, and no letter
\* besides, leaving aside those of which an edge was missed or has overtaken its
\* replay.
NothingSwallowed ==
  AtRest /\ ~engine.terminal /\ ~engine.shuttingDown =>
    /\ seen.letters \subseteq (real.letters \ engine.owned) \cup lost
    /\ real.letters \ engine.owned \subseteq seen.letters \cup hidden \cup lost

\* Documented, and not so: every down the foreground application is shown has its
\* up, while the owner observes and injects.
EveryDownHasItsUp ==
  AtRest /\ ~engine.terminal /\ gate = "Open" /\ missed = 0 => seen.letters \subseteq real.letters

\* The modifiers the foreground application holds are the ones the user
\* holds, replayed, kept back or passed, as long as capture has not failed: but
\* for one of which an edge has overtaken its replay.
ModifiersFollow ==
  AtRest /\ ~engine.terminal /\ gate = "Open" => seen.sides \ lost = real.sides \ lost

\* Documented, and not so: modifier sides remain balanced across success, failure,
\* shutdown and recovery, so that no modifier stays down that the user has let go.
\* (The system's refusal of an injected release, which ends capture, is left aside.)
ModifiersBalanced == AtRest /\ gate = "Open" => seen.sides \subseteq real.sides

\* An activation that was told is ended: the controller believes it is held
\* only while the engine waits for the release of its trigger.
ActivationPaired ==
  AtRest /\ told # NoBinding =>
    \/ engine.terminal \/ engine.shuttingDown
    \/ engine.state = "Committed" /\ engine.upPending /\ engine.binding = told

\* A key the engine owns is down, so that its release, which ends the
\* ownership and lets the owner drain, is still to come.
OwnedIsHeld ==
  AtRest /\ missed = 0 /\ gate = "Open" => engine.owned \subseteq real.letters

\* Whatever races, the adapter and the engine agree on what is held, so that no
\* edge is ever taken for a mismatch, which would end capture for good.
TrackersAgree == AtRest => engine.physical = tracked

\* What the engine believes of the keyboard is so: the keys it owns are held,
\* and what it takes to be down is what the adapter saw.  (And what it keeps fits
\* together, the bounded journal included.)
BeliefsAreTrue == KeyTypeOK /\ OwnedIsHeld /\ TrackersAgree

\* Once terminal or shutting down, an engine captures no further key and
\* accepts no further activation.
TerminalNeverCaptures ==
  [][AtRest /\ (engine.terminal \/ engine.shuttingDown) =>
       /\ engine'.terminal \/ engine'.shuttingDown
       /\ engine'.owned \subseteq engine.owned
       /\ told' \in {told, NoBinding}]_vars
=============================================================================
