-------------------------- MODULE OwnerDocumented ---------------------------
(***************************************************************************)
(* Statements of docs/ about the lifecycle reducer which its code does not *)
(* keep.  Each is checked alone, by a run that finds it violated.          *)
(***************************************************************************)
EXTENDS OwnerProperties

\* "That latch forbids neutral, new capture leases, maintenance-ready, and
\* clean exit" (keyboard-owner-state-machine.md:190): an owner whose native
\* state is unknown does not exit.
UnknownNeverExits == owner.unknown => owner.exit # "Exiting"

\* "a newly authenticated maintenance-only client may reacquire the same
\* transaction/operation" (keyboard-owner-lifecycle.md): a transaction whose
\* maintainer has gone is in the phase from which it can be reacquired.
AbandonedSealIsReacquirable ==
  owner.maintenance.phase = "Exclusive" => owner.controller.kind = "Maintenance"

\* "maintenance sealed, closed, known neutral, no pending actions |
\* MaintenanceReady" (keyboard-owner-state-machine.md:229): nothing else
\* keeps a sealed owner from being ready.
SealedNeutralIsReady ==
  (/\ owner.maintenance.phase = "Sealed" /\ owner.admission = "Closed"
   /\ NativeNeutral(owner.ownership) /\ ~owner.unknown
   /\ PendingEmpty(owner)) => QuiescentForDisposition(owner)

\* Rollback must "supersede pending open/close/config/session/paste work"
\* (keyboard-owner-wire-reducer-mapping.md:33): after it, no configuration
\* of the revoked lease is handed to the adapter as current work.
RollbackSupersedesConfiguration ==
  owner.rollback =>
    \A slot \in Slots :
      (owner.pending[slot] # None /\ owner.pending[slot].kind = "Configuration") =>
        owner.pending[slot].superseded

\* A claimed paste is next Claimed, Indeterminate or None
\* (keyboard-owner-state-machine.md, section 7.2): it is not cancelled, least
\* of all while native state is known.
ClaimedPasteNeverCancelled ==
  [][owner.pastePhase.kind \in {"Claimed", "Indeterminate"} /\ ~owner'.unknown =>
       owner'.pastePhase.kind \in {"Claimed", "Indeterminate", "None"}]_vars
=============================================================================
