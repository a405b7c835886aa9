------------------------- MODULE CaptureReconciler -------------------------
(***************************************************************************)
(* The reconciliation of the native key capture with the mode a dictation  *)
(* session wants: the reconciler as a record and what the application does *)
(* to it (app/src/main/echo/helper-capture-reconciler.ts).                 *)
(*                                                                         *)
(* The revision counter is only ever compared with its value when the call *)
(* in flight was made: the call's field "fresh" says that they are equal.  *)
(***************************************************************************)
CONSTANTS NoCall, Unknown

Modes == {"off", "recording", "cancel-only"}

\* The helper has served a set; it has stopped for a reset.
Calls == [kind : {"set", "delay", "reset"}, mode : Modes, fresh : BOOLEAN, served : BOOLEAN]

ASSUME NoCallAssumption == NoCall \notin Calls
ASSUME UnknownAssumption == Unknown \notin Modes

Reconcilers ==
  [desired : Modes, applied : Modes \cup {Unknown}, running : BOOLEAN,
   call : Calls \cup {NoCall}, off : BOOLEAN, disposed : BOOLEAN]

NewReconciler ==
  [desired |-> "off", applied |-> "off", running |-> FALSE, call |-> NoCall,
   off |-> TRUE, disposed |-> FALSE]

Call(kind, mode) == [kind |-> kind, mode |-> mode, fresh |-> TRUE, served |-> FALSE]

-----------------------------------------------------------------------------
(* What the application does to the reconciler                             *)

\* The revision moves: the answer to the call in flight is stale.
Revise(r) == IF r.call = NoCall THEN r ELSE [r EXCEPT !.call.fresh = FALSE]

\* Mutant of MarkNativeCaptureArmed: what was applied is still taken to be.
MarkArmedOnly(r) == [Revise(r) EXCEPT !.off = FALSE]

MarkNativeCaptureArmed(r) == [Revise(r) EXCEPT !.applied = Unknown, !.off = FALSE]

MarkAppliedUnknown(r) == [Revise(r) EXCEPT !.applied = Unknown]

BeginGeneration(r) == Revise(r)

BeginShutdown(r) ==
  IF r.disposed THEN r ELSE [Revise(r) EXCEPT !.disposed = TRUE, !.desired = "off"]

Refused(r, mode) == r.disposed /\ mode # "off"

\* request: TRUE for the caller when it waits for the reconciliation.
Joins(r, mode) == ~Refused(r, mode) /\ (r.running \/ r.applied # mode)

Request(r, mode) ==
  IF Refused(r, mode) THEN r
  ELSE LET wanted == IF r.desired = mode THEN r ELSE [Revise(r) EXCEPT !.desired = mode]
       IN  [wanted EXCEPT !.off = @ /\ mode = "off",
                          !.running = @ \/ r.applied # mode]

MayContinue(r) == (~r.disposed \/ r.desired = "off") /\ r.applied # r.desired

\* The head of the loop, which runs when the synchronous code above is over.
Reconcile(r) ==
  IF ~r.running \/ r.call # NoCall THEN r
  ELSE IF MayContinue(r)
       THEN [r EXCEPT !.call = Call("set", r.desired)]
       ELSE [r EXCEPT !.running = FALSE]

Returned(r) == [r EXCEPT !.call = NoCall]
Throw(r) == [Returned(r) EXCEPT !.running = FALSE]

ConfirmCaptureOff(r) == [r EXCEPT !.off = TRUE]

\* Mutant of Settled: an answer is not asked which revision it is about.
SettledAnyhow(r, answer) ==
  LET back == [Returned(r) EXCEPT !.applied = Unknown]
  IN  IF answer = "ack"
      THEN LET applied == [back EXCEPT !.applied = r.call.mode]
           IN  Reconcile(IF r.call.mode = "off" THEN ConfirmCaptureOff(applied) ELSE applied)
      ELSE Throw(back)

\* An answer to setSessionCapture, of a call that "failed" because the
\* helper is not there, of one that found no "capacity".
Settled(r, answer) ==
  LET call == r.call
      back == [Returned(r) EXCEPT !.applied = Unknown]
  IN  IF ~call.fresh THEN Reconcile(back)
      ELSE IF answer = "ack"
      THEN LET applied == [back EXCEPT !.applied = call.mode]
           IN  Reconcile(IF call.mode = "off" THEN ConfirmCaptureOff(applied) ELSE applied)
      ELSE IF call.mode # "off" THEN Throw(back)
      ELSE IF r.disposed \/ answer = "failed" THEN [Throw(back) EXCEPT !.off = FALSE]
      ELSE IF answer = "capacity" THEN [back EXCEPT !.call = Call("delay", "off")]
      ELSE [back EXCEPT !.call = Call("reset", "off")]

\* The end of resetSessionCapture, or of the delay before a new try.
Retried(r, reset) ==
  LET back == [Returned(r) EXCEPT !.applied = Unknown]
  IN  IF r.call.kind = "delay" \/ ~r.call.fresh THEN Reconcile(back)
      ELSE IF reset THEN Reconcile(ConfirmCaptureOff([back EXCEPT !.applied = "off"]))
      ELSE [Throw(back) EXCEPT !.off = FALSE]

\* What the helper says of a set that it has served, and what it writes of the
\* shortcut when it is pressed.
Answers == {"ack", "wrong", "error"}
Activations == {"down", "complete"}

\* A call that the helper serves.
Setting(r) == r.call # NoCall /\ r.call.kind = "set"

\* What one turn of the application leaves of the reconciler r: it may have
\* noted a new generation or the shutdown, and asked for a mode or two.
Asked(r) == {r} \cup {Request(r, mode) : mode \in Modes}

Turned(r, after) ==
  \E noted \in {r, BeginGeneration(r), BeginShutdown(r)} :
    \E first \in Asked(noted) : \E second \in Asked(first) : after = Reconcile(second)

\* The end of the reconciliation, for those who wait for it.
Resolved(before, after) == before.running /\ ~after.running
Rejected(before, after) == Resolved(before, after) /\ after.applied = Unknown

=============================================================================
