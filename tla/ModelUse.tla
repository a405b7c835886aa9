------------------------------ MODULE ModelUse ------------------------------
(***************************************************************************)
(* What the lease on a model's files promises the worker processes:        *)
(* nothing reads the files while they change.  Workers read them for the   *)
(* calls they serve, and a mutation changes them.                          *)
(***************************************************************************)
CONSTANTS Workers, Changers

VARIABLES reading,    \* the workers that serve a call on the model
          changing    \* the mutations that are changing the files

use == <<reading, changing>>

Init == reading = {} /\ changing = {}

BeginReading(worker) ==
  /\ changing = {}
  /\ worker \notin reading
  /\ reading' = reading \cup {worker}
  /\ UNCHANGED changing

\* Several workers may stop at once: they are killed together.
EndReading(workers) ==
  /\ workers # {} /\ workers \subseteq reading
  /\ reading' = reading \ workers
  /\ UNCHANGED changing

BeginChanging(changer) ==
  /\ reading = {} /\ changing = {}
  /\ changing' = {changer}
  /\ UNCHANGED reading

EndChanging ==
  /\ changing # {}
  /\ changing' = {}
  /\ UNCHANGED reading

Next ==
  \/ \E worker \in Workers : BeginReading(worker)
  \/ \E workers \in SUBSET Workers : EndReading(workers)
  \/ \E changer \in Changers : BeginChanging(changer)
  \/ EndChanging

Spec == Init /\ [][Next]_use
=============================================================================
