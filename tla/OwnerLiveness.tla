--------------------------- MODULE OwnerLiveness ----------------------------
(***************************************************************************)
(* What the lifecycle reducer must eventually do, and the fairness of the  *)
(* protocol server and of the native adapter under which it does.          *)
(***************************************************************************)
EXTENDS OwnerDocumented

\* drive_actions_and_offer executes every action it is handed and gives the
\* adapter's answer back to the reducer (protocol_server/actions.rs).  That
\* some action is answered is enough: no token is starved for ever, since
\* the controller may add work only when none is outstanding.
AnswerAction == \E slot \in Slots : Confirm(slot) \/ Fail(slot)

\* flush_admitted_events writes the admitted effects out, or drops them with
\* their connection.
FlushEffects == owner.ownership.effects > 0 /\ SetAdmittedEffects(0)

\* A close that is retried for as long as it takes is carried out at a time
\* when the queue of admitted effects is empty.
CloseCarriedOut ==
  /\ owner.ownership.effects = 0
  /\ (\E slot \in Slots : ConfirmAdmissionClosed(slot)) \/ ConfirmEmergencyAdmissionClosed

\* Behind a closed gate the user lets go of the keys, and the native side
\* finishes its replay and reports it.
Drained == [candidate |-> "None", drain |-> 0, cleanup |-> 0, conservative |-> FALSE,
            paste |-> owner.ownership.paste]

NativeDrains ==
  /\ owner.admission = "Closed" /\ Drained \in Observations
  /\ Reported(Drained) # owner.ownership
  /\ LegalObservation(owner, Reported(Drained))
  /\ ObserveNative(Drained)

PasteFinishes ==
  /\ owner.pastePhase.kind \in {"Claimed", "Indeterminate"}
  /\ ConfirmPasteCompleted

\* advance_predecessor_terminal offers what is true after every drive, and
\* the transport writes it or loses the connection.
TellPredecessor ==
  \/ \E event \in TerminalEvents : OfferPredecessorTerminal(event)
  \/ ConfirmPredecessorTerminalWritten
  \/ FailPredecessorTerminalWrite

\* Weak fairness of AnswerAction and strong fairness of CloseCarriedOut, with
\* their ENABLED conditions written out: TLC is slow to find them.
AnswerDue == Alive /\ ~PendingEmpty(owner)
CloseDue == Alive /\ owner.ownership.effects = 0 /\ (Pending("Close") \/ owner.emergency)

FairSpec ==
  /\ Spec
  /\ []<>~AnswerDue \/ []<><<AnswerAction>>_vars
  /\ <>[]~CloseDue \/ []<><<CloseCarriedOut>>_vars
  /\ WF_vars(FlushEffects)
  /\ WF_vars(NativeDrains)
  /\ WF_vars(PasteFinishes)
  /\ WF_vars(TellPredecessor)

-----------------------------------------------------------------------------
\* Every close that was begun is carried through, however often it fails,
\* is superseded or races an open, unless a cancellation was left uncertain.
ClosingEnds ==
  (owner.admission \in {"Closing", "Unknown"} /\ ~owner.poisoned) ~>
    (owner.admission = "Closed" \/ owner.poisoned)

\* A maintenance transaction that began over known native state is decided.
SealingEnds ==
  (owner.maintenance.phase \in {"Sealing", "Persisting"} /\ ~owner.unknown) ~>
    owner.maintenance.phase \in {"Exclusive", "Sealed", "SealedFailed"}

\* A retired controller is always told how its lease ended (KBO-INV-019),
\* unless rollback was latched over a maintenance transaction: that can
\* strand the drain (SealedNeutralIsReady of OwnerDocumented).
PredecessorTold ==
  (owner.predecessor # None) ~>
    \/ owner.predecessor = None
    \/ owner.rollback /\ owner.maintenance.phase # "None"

-----------------------------------------------------------------------------
\* "Recovery means authoritative close and drain followed by owner exit"
\* (keyboard-owner-state-machine.md:73): a degraded owner whose native state
\* is known and that no controller holds exits.
DegradedOwnerExits ==
  (/\ owner.health = "Degraded" /\ ~owner.unknown
   /\ owner.maintenance.phase = "None" /\ owner.controller.kind = "NoController") ~>
    (owner.exit = "Exiting" \/ owner.unknown)
=============================================================================
