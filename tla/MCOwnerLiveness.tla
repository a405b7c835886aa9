-------------------------- MODULE MCOwnerLiveness ---------------------------
(* A small instance of the lifecycle reducer for its liveness.             *)
EXTENDS OwnerLiveness

Seen(candidate, drain, paste) ==
  [candidate |-> candidate, drain |-> drain, cleanup |-> 0,
   conservative |-> FALSE, paste |-> paste]

MCSlots == 1..3

OneRevision == {1}

\* A candidate, a drained key, and nothing.
SealObservations ==
  {Seen("Active", 0, "None"), Seen("None", 1, "None"), Seen("None", 0, "None")}
=============================================================================
