---------------------------- MODULE MCOwnerState ----------------------------
(* Instances of the lifecycle reducer for TLC.                             *)
EXTENDS OwnerDocumented, OwnerInvariant, TLC

Seen(candidate, drain, cleanup, conservative, paste) ==
  [candidate |-> candidate, drain |-> drain, cleanup |-> cleanup,
   conservative |-> conservative, paste |-> paste]

\* Four token slots are as good as the code's eight: no run fills them.
MCSlots == 1..4

OneRevision == {1}
TwoRevisions == 1..2

\* A candidate beside a paste that is not admitted, waiting or cancelled.
PasteObservations ==
  {Seen("Active", 0, 0, FALSE, "None"), Seen("None", 0, 0, FALSE, "None"),
   Seen("Active", 0, 0, FALSE, "Waiting"), Seen("None", 0, 0, FALSE, "Waiting"),
   Seen("None", 0, 0, FALSE, "Cancelling")}

\* A candidate that resolves beside a paste claimed meanwhile.
ClaimedObservations ==
  {Seen("Active", 0, 0, FALSE, "None"), Seen("None", 0, 0, FALSE, "Claimed")}

\* Drained keys, replay cleanup and conservative work, each with its own rule.
DrainObservations ==
  {Seen("None", 1, 0, FALSE, "None"), Seen("Cancelling", 0, 1, FALSE, "None"),
   Seen("None", 0, 1, FALSE, "None"), Seen("None", 0, 0, TRUE, "None"),
   Seen("Active", 0, 0, FALSE, "None"), Seen("None", 0, 0, FALSE, "None")}

ConnectionSymmetry == Permutations(Connections)
=============================================================================
