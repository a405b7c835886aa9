--------------------------- MODULE CaptureHelper ---------------------------
(***************************************************************************)
(* The reconciler with the helper process at the other end of its pipe:    *)
(* what the application may rely on, whatever the dictation session asks   *)
(* of it and when.                                                         *)
(*                                                                         *)
(* native is the capture mode of the helper and wire what the helper has   *)
(* written and the application has not read.  A helper may arm the capture *)
(* before it publishes an activation, so the application's idea of the     *)
(* mode is behind by what is on the wire.  up: the helper is ready, as the *)
(* application sees it.  What the helper may do is more than helper/src    *)
(* does: what the modules of the key engine model of it is left open here. *)
(***************************************************************************)
EXTENDS CaptureReconciler, Sequences

CONSTANT Notices  \* what else the helper writes

VARIABLES rec, native, wire, up

helperVars == <<rec, native, wire, up>>

\* A press of the shortcut the application has not read yet.
Armed == \E i \in DOMAIN wire : wire[i] \in Activations

Init ==
  /\ rec = NewReconciler
  /\ native = "off"
  /\ wire = <<>>
  /\ up = TRUE

Turn == UNCHANGED <<native, wire, up>> /\ Turned(rec, rec')

Press ==
  /\ up
  /\ \E kind \in Activations : wire' = Append(wire, kind)
  /\ native' \in {native, "recording"}
  /\ UNCHANGED <<rec, up>>

Serve ==
  /\ up
  /\ Setting(rec)
  /\ ~rec.call.served
  /\ rec' = [rec EXCEPT !.call.served = TRUE]
  /\ \E answer \in Answers :
       /\ native' = IF answer = "ack" THEN rec.call.mode ELSE native
       /\ wire' = Append(wire, answer)
  /\ UNCHANGED up

Write ==
  /\ up
  /\ \E notice \in Notices \ (Answers \cup Activations) : wire' = Append(wire, notice)
  /\ UNCHANGED <<rec, native, up>>

\* The application reads what the helper wrote first.
Read ==
  /\ wire # <<>>
  /\ wire' = Tail(wire)
  /\ \/ /\ Head(wire) \in Activations
        /\ \/ rec.disposed /\ Turned(rec, rec')
           \/ Turned(MarkNativeCaptureArmed(rec), rec')
     \/ /\ Head(wire) \in Answers
        /\ Setting(rec)
        /\ Turned(Settled(rec, Head(wire)), rec')
     \/ /\ Head(wire) \notin Answers \cup Activations
        /\ Turned(rec, rec')
  /\ UNCHANGED <<native, up>>

\* The pipe is at its capacity: the call never leaves the application.
CallIsFull ==
  /\ Setting(rec)
  /\ ~rec.call.served
  /\ Turned(Settled(rec, "capacity"), rec')
  /\ UNCHANGED <<native, wire, up>>

\* A call to a helper that is not there.
CallFails ==
  /\ Setting(rec)
  /\ ~up
  /\ Turned(Settled(rec, "failed"), rec')
  /\ UNCHANGED <<native, wire, up>>

\* A reset has stopped the helper on its way.
RetryCall ==
  /\ rec.call # NoCall
  /\ ~Setting(rec)
  /\ rec.call.kind = "reset" => rec.call.served
  /\ \E reset \in BOOLEAN : (reset => up) /\ Turned(Retried(rec, reset), rec')
  /\ UNCHANGED <<native, wire, up>>

\* The helper goes, by a fault or by a reset; what it wrote last is lost.
HelperLost ==
  /\ up
  /\ up' = FALSE
  /\ wire' = <<>>
  /\ LET left == IF rec.call # NoCall /\ rec.call.kind = "reset"
                 THEN [rec EXCEPT !.call.served = TRUE] ELSE rec
     IN  Turned(MarkAppliedUnknown(left), rec')
  /\ UNCHANGED native

\* Its successor starts with the capture off.
HelperReady ==
  /\ ~up
  /\ ~Setting(rec)
  /\ up' = TRUE
  /\ native' = "off"
  /\ Turned(rec, rec')
  /\ UNCHANGED wire

Next ==
  \/ Turn
  \/ Press
  \/ Serve
  \/ Write
  \/ Read
  \/ CallIsFull
  \/ CallFails
  \/ RetryCall
  \/ HelperLost
  \/ HelperReady

Spec == Init /\ [][Next]_helperVars

-----------------------------------------------------------------------------
\* captureOffGuaranteed is the truth: the helper captures no key, or has just
\* been armed by a press the application has not read yet.
CaptureOffIsTrue == rec.off /\ up /\ ~rec.disposed => native = "off" \/ Armed

=============================================================================
