------------------------ MODULE CaptureHelperProofs ------------------------
(***************************************************************************)
(* Proof that the reconciler believes the capture to be off only when it   *)
(* is, for every way in which its requests, the presses, the answers and   *)
(* the loss of the helper can interleave.                                  *)
(***************************************************************************)
EXTENDS CaptureHelper, CaptureProofs

\* The inductive invariant of the reconciler with its helper.
Invariant == Agree(rec, native, wire, up, Notices)

\* It holds of a new reconciler and a helper that captures nothing.
LEMMA InvariantInit == Init => Invariant
BY NewAgrees DEF Init, Invariant

\* Reading is reading a press, an answer or anything else.
LEMMA ReadKeeps == ASSUME Invariant, Read PROVE Invariant'
<1>1. /\ Agree(rec, native, wire, up, Notices) /\ up \in BOOLEAN
      /\ wire # <<>> /\ wire' = Tail(wire) /\ native' = native /\ up' = up
  BY DEF Invariant, Agree, Read
<1>2. \/ Head(wire) \in Activations /\ rec.disposed /\ Turned(rec, rec')
      \/ Head(wire) \in Activations /\ Turned(MarkNativeCaptureArmed(rec), rec')
      \/ Head(wire) \in Answers /\ Turned(Settled(rec, Head(wire)), rec')
      \/ Head(wire) \notin Answers \cup Activations /\ Turned(rec, rec')
  BY DEF Read
<1>3. Agree(rec', native, Tail(wire), up, Notices)
  BY <1>1, <1>2, ReadLateKeeps, ReadPressKeeps, ReadAnswerKeeps, ReadNoticeKeeps
<1> QED BY <1>1, <1>3 DEF Invariant

\* Every step of the application or the helper.
LEMMA InvariantNext == Invariant /\ [Next]_helperVars => Invariant'
<1> SUFFICES ASSUME Invariant, [Next]_helperVars PROVE Invariant'
  OBVIOUS
<1>0. Agree(rec, native, wire, up, Notices) /\ up \in BOOLEAN
  BY DEF Invariant, Agree
<1>1. CASE Turn
  BY <1>0, <1>1, TurnKeeps DEF Turn, Invariant
<1>2. CASE Press
  <2>1. PICK kind \in Activations : wire' = Append(wire, kind)
    BY <1>2 DEF Press
  <2> QED BY <1>0, <1>2, <2>1, PressKeeps DEF Press, Invariant
<1>3. CASE Serve
  <2>1. PICK answer \in Answers :
          /\ native' = IF answer = "ack" THEN rec.call.mode ELSE native
          /\ wire' = Append(wire, answer)
    BY <1>3 DEF Serve
  <2> QED BY <1>0, <1>3, <2>1, ServeKeeps DEF Serve, Invariant
<1>4. CASE Write
  <2>1. PICK notice \in Notices \ (Answers \cup Activations) : wire' = Append(wire, notice)
    BY <1>4 DEF Write
  <2> QED BY <1>0, <1>4, <2>1, WriteKeeps DEF Write, Invariant
<1>5. CASE Read
  BY <1>5, ReadKeeps
<1>6. CASE CallIsFull \/ CallFails
  <2>1. PICK answer \in {"capacity", "failed"} : Turned(Settled(rec, answer), rec')
    BY <1>6 DEF CallIsFull, CallFails
  <2> QED BY <1>0, <1>6, <2>1, CallFailsKeeps DEF CallIsFull, CallFails, Invariant
<1>7. CASE RetryCall
  <2>1. PICK reset \in BOOLEAN : Turned(Retried(rec, reset), rec')
    BY <1>7 DEF RetryCall
  <2> QED BY <1>0, <1>7, <2>1, RetryKeeps DEF RetryCall, Invariant
<1>8. CASE HelperLost
  <2>1. /\ Turned(MarkAppliedUnknown(Left(rec)), rec') /\ native' = native
        /\ up' = FALSE /\ wire' = <<>>
    BY <1>8 DEF HelperLost, Left
  <2> QED BY <1>0, <2>1, LostKeeps DEF Invariant
<1>9. CASE HelperReady
  <2>1. ~up /\ Turned(rec, rec') /\ native' = "off" /\ up' = TRUE /\ wire' = wire
    BY <1>9 DEF HelperReady
  <2> QED BY <1>0, <2>1, ReadyKeeps DEF Invariant
<1>10. CASE UNCHANGED helperVars
  BY <1>0, <1>10 DEF helperVars, Invariant
<1> QED BY <1>1, <1>2, <1>3, <1>4, <1>5, <1>6, <1>7, <1>8, <1>9, <1>10 DEF Next

-----------------------------------------------------------------------------
\* Whatever a dictation session asks of the reconciler, whatever the helper
\* answers and whenever it is lost: the capture is off, or armed by a press
\* that is still to be read, when captureOffGuaranteed says that it is off.
THEOREM CaptureOffGuaranteed == Spec => []CaptureOffIsTrue
<1>1. Invariant => CaptureOffIsTrue
  BY DEF Invariant, Agree, OffIsTrue, CaptureOffIsTrue, ArmedBy, Armed
<1> QED BY <1>1, InvariantInit, InvariantNext, PTL DEF Spec
=============================================================================
