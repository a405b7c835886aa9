--------------------------- MODULE CaptureProofs ---------------------------
(***************************************************************************)
(* What is proved of the reconciler of the capture, of its state and the   *)
(* helper's as values: the modules in which the two are variables, be it   *)
(* CaptureHelper or a dictation session, take their proofs from here.      *)
(*                                                                         *)
(* The reconciler's own part of the invariant is Sound, which every one of *)
(* its operations preserves.  Follows(r, t) says what a turn may make of a *)
(* reconciler: it issues calls and makes them stale, it neither answers    *)
(* them nor comes to believe that the capture is off.                      *)
(***************************************************************************)
EXTENDS CaptureReconciler, Integers, Sequences, TLAPS

\* What an answer is about when the revision has not moved.
AboutDesired(r) == r.call # NoCall /\ r.call.fresh => r.call.mode = r.desired

\* Nothing but "off" is asked for while the capture is taken to be off.
OffIsDesired(r) ==
  /\ r.desired # "off" => ~r.off
  /\ Setting(r) /\ r.call.mode # "off" => ~r.off

\* The helper that a reset has stopped has moved the revision.
ResetIsStale(r) ==
  r.call # NoCall /\ r.call.kind = "reset" /\ r.call.served => ~r.call.fresh

\* A reconciler whose belief, request and call belong together.
Sound(r) ==
  /\ r \in Reconcilers
  /\ AboutDesired(r)
  /\ OffIsDesired(r)
  /\ ResetIsStale(r)

\* The same call is in flight, and no fresher than it was.
SameCall(r, t) ==
  /\ t.call # NoCall
  /\ t.call.kind = r.call.kind /\ t.call.mode = r.call.mode /\ t.call.served = r.call.served
  /\ t.call.fresh => r.call.fresh

\* A turn keeps the call in flight, or makes one that is still to be served; it
\* takes the capture to be off only if it was, and the end for good.
Follows(r, t) ==
  /\ IF r.call = NoCall THEN t.call = NoCall \/ ~t.call.served ELSE SameCall(r, t)
  /\ t.off => r.off
  /\ r.disposed => t.disposed

-----------------------------------------------------------------------------
(* The operations of the reconciler                                        *)

\* The revision may move at any time.
LEMMA ReviseSound ==
  ASSUME NEW r, Sound(r)
  PROVE  Sound(Revise(r)) /\ Follows(r, Revise(r)) /\ Revise(r).desired = r.desired
         /\ Revise(r).off = r.off /\ (Revise(r).call # NoCall => ~Revise(r).call.fresh)
         /\ Revise(r).disposed = r.disposed
<1>1. CASE r.call = NoCall
  BY <1>1 DEF Sound, Follows, Revise, AboutDesired, OffIsDesired, ResetIsStale
<1>2. CASE r.call # NoCall
  <2>1. r.call \in Calls
    BY <1>2 DEF Sound, Reconcilers
  <2>2. [r.call EXCEPT !.fresh = FALSE] \in Calls
    BY <2>1 DEF Calls
  <2>3. [r.call EXCEPT !.fresh = FALSE] # NoCall
    BY <2>2, NoCallAssumption
  <2>4. Revise(r) = [r EXCEPT !.call = [r.call EXCEPT !.fresh = FALSE]]
    BY <1>2 DEF Revise
  <2> QED
    BY <1>2, <2>1, <2>2, <2>3, <2>4, ZenonT(40)
    DEF Sound, Follows, SameCall, AboutDesired, OffIsDesired, ResetIsStale, Setting, Reconcilers, Calls
<1> QED BY <1>1, <1>2

\* What follows what follows r follows r.
LEMMA FollowsTransitive ==
  ASSUME NEW r, NEW s, NEW t, Follows(r, s), Follows(s, t), s.call = NoCall \/ s.call \in Calls,
         t.call = NoCall \/ t.call \in Calls
  PROVE  Follows(r, t)
BY DEF Follows, SameCall, Calls

\* A new generation, the shutdown and the loss of the helper.
LEMMA NotedSound ==
  ASSUME NEW r, Sound(r)
  PROVE  /\ Sound(BeginGeneration(r)) /\ Follows(r, BeginGeneration(r))
         /\ Sound(BeginShutdown(r)) /\ Follows(r, BeginShutdown(r))
         /\ Sound(MarkAppliedUnknown(r)) /\ Follows(r, MarkAppliedUnknown(r))
         /\ Sound(MarkNativeCaptureArmed(r)) /\ Follows(r, MarkNativeCaptureArmed(r))
         /\ ~MarkNativeCaptureArmed(r).off
<1>1. Sound(BeginGeneration(r)) /\ Follows(r, BeginGeneration(r))
  BY ReviseSound DEF BeginGeneration
<1> DEFINE s == Revise(r)
<1>2. /\ Sound(s) /\ Follows(r, s) /\ s.desired = r.desired /\ s.off = r.off
      /\ s.call # NoCall => ~s.call.fresh
  BY ReviseSound
<1> HIDE DEF s
<1>3. Sound(BeginShutdown(r)) /\ Follows(r, BeginShutdown(r))
  <2>1. CASE r.disposed
    BY <2>1 DEF BeginShutdown, Follows, SameCall, Sound, Reconcilers
  <2>2. CASE ~r.disposed
    <3>1. BeginShutdown(r) = [s EXCEPT !.disposed = TRUE, !.desired = "off"]
      BY <2>2 DEF BeginShutdown, s
    <3> QED
      BY <1>2, <3>1 DEF Sound, Follows, SameCall, AboutDesired, OffIsDesired, ResetIsStale, Setting,
                        Reconcilers, Modes
  <2> QED BY <2>1, <2>2
<1>4. Sound(MarkAppliedUnknown(r)) /\ Follows(r, MarkAppliedUnknown(r))
  <2>1. MarkAppliedUnknown(r) = [s EXCEPT !.applied = Unknown]
    BY DEF MarkAppliedUnknown, s
  <2> QED
    BY <1>2, <2>1 DEF Sound, Follows, SameCall, AboutDesired, OffIsDesired, ResetIsStale, Setting, Reconcilers
<1>5. /\ Sound(MarkNativeCaptureArmed(r)) /\ Follows(r, MarkNativeCaptureArmed(r))
      /\ ~MarkNativeCaptureArmed(r).off
  <2>1. MarkNativeCaptureArmed(r) = [s EXCEPT !.applied = Unknown, !.off = FALSE]
    BY DEF MarkNativeCaptureArmed, s
  <2> QED
    BY <1>2, <2>1 DEF Sound, Follows, SameCall, AboutDesired, OffIsDesired, ResetIsStale, Setting, Reconcilers
<1> QED BY <1>1, <1>3, <1>4, <1>5

\* A request changes what is desired, and never towards believing it off.
LEMMA RequestSound ==
  ASSUME NEW r, NEW mode \in Modes, Sound(r)
  PROVE  Sound(Request(r, mode)) /\ Follows(r, Request(r, mode))
<1>1. CASE Refused(r, mode)
  BY <1>1 DEF Request, Follows, SameCall, Sound, Reconcilers
<1>2. CASE ~Refused(r, mode)
  <2> DEFINE w == IF r.desired = mode THEN r ELSE [Revise(r) EXCEPT !.desired = mode]
  <2>1. /\ w \in Reconcilers /\ w.desired = mode /\ w.off = r.off /\ Follows(r, w)
        /\ AboutDesired(w) /\ ResetIsStale(w)
        /\ Setting(w) /\ w.call.mode # "off" => ~w.off
    <3>1. CASE r.desired = mode
      BY <3>1 DEF Sound, OffIsDesired, Follows, SameCall, Reconcilers
    <3>2. CASE r.desired # mode
      <4> DEFINE s == Revise(r)
      <4>1. /\ Sound(s) /\ Follows(r, s) /\ s.off = r.off
            /\ s.call # NoCall => ~s.call.fresh
        BY ReviseSound
      <4> HIDE DEF s
      <4>2. w = [s EXCEPT !.desired = mode]
        BY <3>2 DEF s
      <4> QED
        BY <4>1, <4>2 DEF Sound, Follows, SameCall, AboutDesired, OffIsDesired, ResetIsStale, Setting, Reconcilers
    <3> QED BY <3>1, <3>2
  <2>2. Request(r, mode) = [w EXCEPT !.off = @ /\ mode = "off", !.running = @ \/ r.applied # mode]
    BY <1>2 DEF Request
  <2> HIDE DEF w
  <2> DEFINE t == Request(r, mode)
  <2>3. /\ t.call = w.call /\ t.desired = w.desired /\ t.disposed = w.disposed /\ t.applied = w.applied
        /\ t.off = (w.off /\ mode = "off") /\ t.running = (w.running \/ r.applied # mode)
        /\ t \in Reconcilers
    BY <2>1, <2>2 DEF Reconcilers
  <2> HIDE DEF t
  <2>4. Sound(t) /\ Follows(r, t)
    BY <2>1, <2>3 DEF Sound, Follows, SameCall, AboutDesired, OffIsDesired, ResetIsStale, Setting
  <2> QED BY <2>4 DEF t
<1> QED BY <1>1, <1>2

\* The head of the loop makes a call about what is desired.
LEMMA ReconcileSound ==
  ASSUME NEW r, Sound(r)
  PROVE  Sound(Reconcile(r)) /\ Follows(r, Reconcile(r))
<1>1. CASE ~r.running \/ r.call # NoCall
  BY <1>1 DEF Reconcile, Follows, SameCall, Sound, Reconcilers
<1>2. CASE r.running /\ r.call = NoCall /\ MayContinue(r)
  <2>1. Reconcile(r) = [r EXCEPT !.call = Call("set", r.desired)]
    BY <1>2 DEF Reconcile
  <2>2. Call("set", r.desired) \in Calls
    BY DEF Sound, Reconcilers, Call, Calls
  <2>3. Call("set", r.desired).kind = "set" /\ Call("set", r.desired).mode = r.desired
        /\ Call("set", r.desired).served = FALSE
    BY DEF Call
  <2> QED
    BY <1>2, <2>1, <2>2, <2>3
    DEF Sound, Follows, SameCall, AboutDesired, OffIsDesired, ResetIsStale, Setting, Reconcilers
<1>3. CASE r.running /\ r.call = NoCall /\ ~MayContinue(r)
  <2>1. Reconcile(r) = [r EXCEPT !.running = FALSE]
    BY <1>3 DEF Reconcile
  <2> QED
    BY <1>3, <2>1 DEF Sound, Follows, SameCall, AboutDesired, OffIsDesired, ResetIsStale, Setting, Reconcilers
<1> QED BY <1>1, <1>2, <1>3

\* A turn of the application.
LEMMA TurnedSound ==
  ASSUME NEW r, NEW after, Sound(r), Turned(r, after)
  PROVE  Sound(after) /\ Follows(r, after)
<1>1. PICK noted \in {r, BeginGeneration(r), BeginShutdown(r)} :
        \E first \in Asked(noted) : \E second \in Asked(first) : after = Reconcile(second)
  BY DEF Turned
<1>2. Sound(noted) /\ Follows(r, noted)
  BY <1>1, NotedSound DEF Follows, SameCall, Sound, Reconcilers
<1>3. PICK first \in Asked(noted) : \E second \in Asked(first) : after = Reconcile(second)
  BY <1>1
<1>4. \A s, t : Sound(s) /\ t \in Asked(s) => Sound(t) /\ Follows(s, t)
  BY RequestSound DEF Asked, Follows, SameCall, Sound, Reconcilers
<1>5. Sound(first) /\ Follows(noted, first)
  BY <1>2, <1>3, <1>4
<1>6. PICK second \in Asked(first) : after = Reconcile(second)
  BY <1>3
<1>7. Sound(second) /\ Follows(first, second)
  BY <1>4, <1>5, <1>6
<1>8. Sound(after) /\ Follows(second, after)
  BY <1>6, <1>7, ReconcileSound
<1>9. \A s : Sound(s) => s.call = NoCall \/ s.call \in Calls
  BY DEF Sound, Reconcilers
<1>10. Follows(r, first)
  BY <1>2, <1>5, <1>9, FollowsTransitive
<1>11. Follows(r, second)
  BY <1>10, <1>5, <1>7, <1>9, FollowsTransitive
<1> QED BY <1>7, <1>8, <1>9, <1>11, FollowsTransitive

\* The reconciler is at rest: its loop has nothing to do before somebody asks.
AtRest(r) == Reconcile(r) = r

\* So it is when the loop has been entered, and after every turn.
LEMMA ReconcileRests ==
  ASSUME NEW r, Sound(Reconcile(r))
  PROVE  AtRest(Reconcile(r))
<1> DEFINE after == Reconcile(r)
<1>1. after \in Reconcilers
  BY DEF Sound
<1>2. CASE after = r
  BY <1>2 DEF AtRest
<1>3. CASE after = [r EXCEPT !.call = Call("set", r.desired)]
  <2>1. after.call = Call("set", r.desired) /\ r.desired \in Modes
    BY <1>1, <1>3 DEF Reconcilers
  <2>2. Call("set", r.desired) \in Calls
    BY <2>1 DEF Call, Calls
  <2> QED BY <2>1, <2>2, NoCallAssumption DEF AtRest, Reconcile
<1>4. CASE after = [r EXCEPT !.running = FALSE]
  <2>1. ~after.running
    BY <1>1, <1>4 DEF Reconcilers
  <2> QED BY <2>1 DEF AtRest, Reconcile
<1> QED BY <1>2, <1>3, <1>4 DEF Reconcile

\* A turn leaves the reconciler at rest.
LEMMA TurnedRests ==
  ASSUME NEW r, NEW after, Sound(r), Turned(r, after)
  PROVE  AtRest(after)
<1>1. PICK second : after = Reconcile(second)
  BY DEF Turned
<1> QED BY <1>1, TurnedSound, ReconcileRests

\* A turn may leave it as it is.
LEMMA RestTurns == ASSUME NEW r, AtRest(r) PROVE Turned(r, r)
BY DEF AtRest, Turned, Asked

-----------------------------------------------------------------------------
(* The answers of the helper                                               *)

\* What the reconciler makes of an answer, or of none: it believes the capture
\* to be off when it did, or when an answer about "off" is not stale.
LEMMA SettledSound ==
  ASSUME NEW r, NEW answer, Sound(r), Setting(r)
  PROVE  /\ Sound(Settled(r, answer))
         /\ Settled(r, answer).call # NoCall => ~Settled(r, answer).call.served
         /\ Settled(r, answer).disposed = r.disposed
         /\ Settled(r, answer).off => r.off \/ (answer = "ack" /\ r.call.fresh /\ r.call.mode = "off")
<1> DEFINE back == [Returned(r) EXCEPT !.applied = Unknown]
<1>1. /\ back \in Reconcilers /\ back.call = NoCall /\ back.off = r.off /\ back.disposed = r.disposed
      /\ back.desired = r.desired /\ Sound(back)
      /\ r.call \in Calls
  BY DEF Returned, Sound, Setting, Reconcilers, AboutDesired, OffIsDesired, ResetIsStale
<1>2. \A s : Sound(s) /\ s.call = NoCall =>
        /\ Sound(Reconcile(s)) /\ Reconcile(s).off = s.off /\ Reconcile(s).disposed = s.disposed
        /\ Reconcile(s).call # NoCall => ~Reconcile(s).call.served
  <2> SUFFICES ASSUME NEW s, Sound(s), s.call = NoCall
               PROVE  /\ Sound(Reconcile(s)) /\ Reconcile(s).off = s.off
                      /\ Reconcile(s).disposed = s.disposed
                      /\ Reconcile(s).call # NoCall => ~Reconcile(s).call.served
    OBVIOUS
  <2>1. Sound(Reconcile(s)) /\ Follows(s, Reconcile(s))
    BY ReconcileSound
  <2>2. Reconcile(s).off = s.off /\ Reconcile(s).disposed = s.disposed
    BY DEF Reconcile, Sound, Reconcilers
  <2> QED BY <2>1, <2>2 DEF Follows
<1>3. CASE ~r.call.fresh
  <2>1. Settled(r, answer) = Reconcile(back)
    BY <1>3 DEF Settled
  <2> QED BY <1>1, <1>2, <2>1
<1>4. CASE r.call.fresh /\ answer = "ack"
  <2> DEFINE applied == [back EXCEPT !.applied = r.call.mode]
             known == IF r.call.mode = "off" THEN ConfirmCaptureOff(applied) ELSE applied
  <2>1. Settled(r, answer) = Reconcile(known)
    BY <1>4 DEF Settled
  <2>2. r.call.mode = r.desired
    BY <1>4 DEF Sound, AboutDesired, Setting
  <2>3. /\ Sound(known) /\ known.call = NoCall /\ known.disposed = r.disposed
        /\ known.off => r.off \/ r.call.mode = "off"
    BY <1>1, <2>2 DEF ConfirmCaptureOff, Sound, Reconcilers, Calls, AboutDesired, OffIsDesired, ResetIsStale, Setting
  <2> HIDE DEF known
  <2> QED BY <1>2, <1>4, <2>1, <2>3
<1>5. CASE r.call.fresh /\ answer # "ack"
  <2> DEFINE t == Settled(r, answer)
  <2>1. \/ t = Throw(back)
        \/ t = [Throw(back) EXCEPT !.off = FALSE]
        \/ t = [back EXCEPT !.call = Call("delay", "off")] /\ r.call.mode = "off"
        \/ t = [back EXCEPT !.call = Call("reset", "off")] /\ r.call.mode = "off"
    BY <1>5 DEF Settled
  <2>2. Call("delay", "off") \in Calls /\ Call("reset", "off") \in Calls
    BY DEF Call, Calls, Modes
  <2>3. r.call.mode = r.desired
    BY <1>5 DEF Sound, AboutDesired, Setting
  <2> HIDE DEF t, back
  <2>4. Sound(t) /\ (t.call # NoCall => ~t.call.served) /\ t.disposed = r.disposed /\ (t.off => r.off)
    <3>1. CASE t = Throw(back) \/ t = [Throw(back) EXCEPT !.off = FALSE]
      BY <1>1, <3>1 DEF Throw, Returned, Sound, Reconcilers, AboutDesired, OffIsDesired, ResetIsStale, Setting
    <3>2. CASE t = [back EXCEPT !.call = Call("delay", "off")] /\ r.call.mode = "off"
      BY <1>1, <2>2, <2>3, <3>2 DEF Call, Sound, Reconcilers, AboutDesired, OffIsDesired, ResetIsStale, Setting
    <3>3. CASE t = [back EXCEPT !.call = Call("reset", "off")] /\ r.call.mode = "off"
      BY <1>1, <2>2, <2>3, <3>3 DEF Call, Sound, Reconcilers, AboutDesired, OffIsDesired, ResetIsStale, Setting
    <3> QED BY <2>1, <3>1, <3>2, <3>3
  <2> QED BY <2>4 DEF t
<1> QED BY <1>3, <1>4, <1>5

\* The end of a delay, or of a reset, which is always stale.
LEMMA RetriedSound ==
  ASSUME NEW r, NEW reset \in BOOLEAN, Sound(r), r.call # NoCall, ~Setting(r),
         r.call.kind = "reset" => r.call.served
  PROVE  /\ Sound(Retried(r, reset))
         /\ Retried(r, reset).call # NoCall => ~Retried(r, reset).call.served
         /\ Retried(r, reset).disposed = r.disposed
         /\ Retried(r, reset).off => r.off
<1> DEFINE back == [Returned(r) EXCEPT !.applied = Unknown]
<1>1. Sound(back) /\ back.call = NoCall /\ back.off = r.off /\ back.disposed = r.disposed
  BY DEF Returned, Sound, Setting, Reconcilers, AboutDesired, OffIsDesired, ResetIsStale
<1>2. r.call.kind = "delay" \/ ~r.call.fresh
  BY DEF Sound, Setting, Reconcilers, Calls, ResetIsStale
<1>3. Retried(r, reset) = Reconcile(back)
  BY <1>2 DEF Retried
<1> HIDE DEF back
<1>4. Sound(Reconcile(back)) /\ Follows(back, Reconcile(back))
  BY <1>1, ReconcileSound
<1>5. Reconcile(back).disposed = back.disposed
  BY <1>1 DEF Reconcile, Sound, Reconcilers
<1> QED BY <1>1, <1>3, <1>4, <1>5 DEF Follows

------------------------------------------------------------------------

-----------------------------------------------------------------------------
(* The reconciler r, the mode n of the helper, what is on the wire w, and  *)
(* whether the helper is up: the helper writes messages of W.              *)

\* The message at i is the answer to a call.
IsAnswer(w, i) == i \in DOMAIN w /\ w[i] \in Answers

\* A press of the shortcut the application has not read yet.
ArmedBy(w) == \E i \in DOMAIN w : w[i] \in Activations

\* The wire carries an answer only to the set that was served, and one only.
OneAnswer(r, w) ==
  /\ \A i, j \in DOMAIN w : IsAnswer(w, i) /\ IsAnswer(w, j) => i = j
  /\ \A i \in DOMAIN w : IsAnswer(w, i) => Setting(r) /\ r.call.served

\* An acknowledgement of "off" that will be believed.
Believable(r, w) ==
  /\ ~r.disposed
  /\ Setting(r) /\ r.call.fresh /\ r.call.mode = "off"
  /\ \E i \in DOMAIN w : w[i] = "ack"

\* Such an acknowledgement is true.
AckIsTrue(r, n, w) == Believable(r, w) => n = "off" \/ ArmedBy(w)

\* captureOffGuaranteed is.
OffIsTrue(r, n, w, u) == r.off /\ u /\ ~r.disposed => n = "off" \/ ArmedBy(w)

\* What the reconciler believes is what the helper has, or will have when its
\* messages are read.
Agree(r, n, w, u, W) ==
  /\ Sound(r)
  /\ w \in Seq(Answers \cup Activations \cup W)
  /\ u \in BOOLEAN
  /\ ~u => w = <<>>
  /\ OneAnswer(r, w)
  /\ AckIsTrue(r, n, w)
  /\ OffIsTrue(r, n, w, u)

\* At first nothing is captured, called or written.
LEMMA NewAgrees ==
  ASSUME NEW W, NEW u \in BOOLEAN
  PROVE  Agree(NewReconciler, "off", <<>>, u, W)
<1>1. Sound(NewReconciler)
  BY DEF NewReconciler, Sound, Reconcilers, Modes, AboutDesired, OffIsDesired, ResetIsStale, Setting
<1> QED BY <1>1 DEF Agree, OneAnswer, IsAnswer, AckIsTrue, Believable, OffIsTrue

\* What is appended to the wire.
LEMMA Appended ==
  ASSUME NEW W, NEW w \in Seq(W), NEW x \in W
  PROVE  LET v == Append(w, x)
         IN  /\ v \in Seq(W)
             /\ v # <<>>
             /\ Len(w) + 1 \in DOMAIN v /\ v[Len(w) + 1] = x
             /\ \A i \in DOMAIN w : i \in DOMAIN v /\ v[i] = w[i]
             /\ \A i \in DOMAIN v : i = Len(w) + 1 \/ i \in DOMAIN w
             /\ Len(w) + 1 \notin DOMAIN w
OBVIOUS

\* What is taken from the wire.
LEMMA TakenOff ==
  ASSUME NEW W, NEW w \in Seq(W), w # <<>>
  PROVE  LET v == Tail(w)
         IN  /\ v \in Seq(W)
             /\ 1 \in DOMAIN w /\ Head(w) = w[1]
             /\ \A i \in DOMAIN v : i + 1 \in DOMAIN w /\ v[i] = w[i + 1] /\ i + 1 # 1
             /\ \A i \in DOMAIN w : i # 1 => i - 1 \in DOMAIN v /\ v[i - 1] = w[i]
OBVIOUS

\* A turn of the application that finds the reconciler as it was.
LEMMA TurnKeeps ==
  ASSUME NEW r, NEW n, NEW w, NEW u \in BOOLEAN, NEW W, NEW t, Agree(r, n, w, u, W), Turned(r, t)
  PROVE  Agree(t, n, w, u, W)
<1>1. Sound(t) /\ Follows(r, t)
  BY TurnedSound DEF Agree
<1>2. OneAnswer(t, w)
  BY <1>1 DEF Agree, OneAnswer, IsAnswer, Follows, SameCall, Setting
<1>3. AckIsTrue(t, n, w)
  <2> SUFFICES ASSUME Believable(t, w) PROVE n = "off" \/ ArmedBy(w)
    BY DEF AckIsTrue
  <2>1. PICK i \in DOMAIN w : w[i] = "ack"
    BY DEF Believable
  <2>2. Setting(r) /\ r.call.served
    BY <2>1 DEF Agree, OneAnswer, IsAnswer, Answers
  <2> QED BY <1>1, <2>1, <2>2 DEF Agree, AckIsTrue, Believable, Follows, SameCall, Setting
<1>4. OffIsTrue(t, n, w, u)
  BY <1>1 DEF Agree, OffIsTrue, Follows
<1> QED BY <1>1, <1>2, <1>3, <1>4 DEF Agree

\* A press: whatever the helper captures now, the press is on the wire.
LEMMA PressKeeps ==
  ASSUME NEW r, NEW n, NEW w, NEW u \in BOOLEAN, NEW W, NEW m, NEW kind \in Activations,
         Agree(r, n, w, u, W), u
  PROVE  Agree(r, m, Append(w, kind), u, W)
<1> DEFINE v == Append(w, kind)
<1>1. kind \in Answers \cup Activations \cup W /\ kind \notin Answers
      /\ w \in Seq(Answers \cup Activations \cup W)
  BY DEF Activations, Answers, Agree
<1>2. /\ v \in Seq(Answers \cup Activations \cup W)
      /\ Len(w) + 1 \in DOMAIN v /\ v[Len(w) + 1] = kind
      /\ \A i \in DOMAIN v : i = Len(w) + 1 \/ i \in DOMAIN w
      /\ \A i \in DOMAIN w : v[i] = w[i]
  BY <1>1, Appended
<1> HIDE DEF v
<1>3. ArmedBy(v)
  BY <1>2 DEF ArmedBy
<1>4. OneAnswer(r, v)
  BY <1>1, <1>2 DEF Agree, OneAnswer, IsAnswer
<1>5. Agree(r, m, v, u, W)
  BY <1>2, <1>3, <1>4 DEF Agree, AckIsTrue, OffIsTrue
<1> QED BY <1>5 DEF v

\* Anything else the helper writes of its own accord.
LEMMA WriteKeeps ==
  ASSUME NEW r, NEW n, NEW w, NEW u \in BOOLEAN, NEW W, NEW notice \in W \ (Answers \cup Activations),
         Agree(r, n, w, u, W), u
  PROVE  Agree(r, n, Append(w, notice), u, W)
<1> DEFINE v == Append(w, notice)
<1>1. notice \in Answers \cup Activations \cup W /\ w \in Seq(Answers \cup Activations \cup W)
  BY DEF Agree
<1>2. /\ v \in Seq(Answers \cup Activations \cup W)
      /\ v[Len(w) + 1] = notice
      /\ \A i \in DOMAIN w : i \in DOMAIN v /\ v[i] = w[i]
      /\ \A i \in DOMAIN v : i = Len(w) + 1 \/ i \in DOMAIN w
  BY <1>1, Appended
<1> HIDE DEF v
<1>3. ArmedBy(w) => ArmedBy(v)
  BY <1>2 DEF ArmedBy
<1>4. OneAnswer(r, v)
  BY <1>2 DEF Agree, OneAnswer, IsAnswer
<1>5. Believable(r, v) => Believable(r, w)
  BY <1>2 DEF Believable, Answers
<1>6. Agree(r, n, v, u, W)
  BY <1>2, <1>3, <1>4, <1>5 DEF Agree, AckIsTrue, OffIsTrue
<1> QED BY <1>6 DEF v

\* The helper serves a set: its acknowledgement is true when it is written.
LEMMA ServeKeeps ==
  ASSUME NEW r, NEW n, NEW w, NEW u \in BOOLEAN, NEW W, NEW answer \in Answers, Agree(r, n, w, u, W), u,
         Setting(r), ~r.call.served
  PROVE  Agree([r EXCEPT !.call.served = TRUE], IF answer = "ack" THEN r.call.mode ELSE n,
               Append(w, answer), u, W)
<1> DEFINE v == Append(w, answer)
           s == [r EXCEPT !.call.served = TRUE]
           m == IF answer = "ack" THEN r.call.mode ELSE n
<1>1. answer \in Answers \cup Activations \cup W /\ w \in Seq(Answers \cup Activations \cup W)
  BY DEF Agree
<1>2. /\ v \in Seq(Answers \cup Activations \cup W)
      /\ Len(w) + 1 \in DOMAIN v /\ v[Len(w) + 1] = answer
      /\ \A i \in DOMAIN w : i \in DOMAIN v /\ v[i] = w[i]
      /\ \A i \in DOMAIN v : i = Len(w) + 1 \/ i \in DOMAIN w
  BY <1>1, Appended
<1>3. \A i \in DOMAIN w : ~IsAnswer(w, i)
  BY DEF Agree, OneAnswer
<1>4. /\ Sound(s) /\ Setting(s) /\ s.call.served /\ s.call.mode = r.call.mode
      /\ s.off = r.off /\ s.disposed = r.disposed
  <2>1. r.call \in Calls /\ r \in Reconcilers
    BY DEF Agree, Sound, Setting, Reconcilers
  <2>2. [r.call EXCEPT !.served = TRUE] \in Calls
    BY <2>1 DEF Calls
  <2>3. [r.call EXCEPT !.served = TRUE] # NoCall
    BY <2>2, NoCallAssumption
  <2>4. s = [r EXCEPT !.call = [r.call EXCEPT !.served = TRUE]]
    OBVIOUS
  <2> QED
    BY <2>1, <2>2, <2>3, <2>4
    DEF Agree, Sound, AboutDesired, OffIsDesired, ResetIsStale, Setting, Reconcilers, Calls
<1>5. answer = "ack" => m = r.call.mode
  OBVIOUS
<1>6. answer # "ack" => m = n
  OBVIOUS
<1> HIDE DEF v, s, m
<1>7. ArmedBy(w) => ArmedBy(v)
  BY <1>2 DEF ArmedBy
<1>8. OneAnswer(s, v)
  BY <1>2, <1>3, <1>4 DEF OneAnswer, IsAnswer
<1>9. AckIsTrue(s, m, v)
  <2>1. CASE answer = "ack"
    BY <1>4, <1>5, <2>1 DEF AckIsTrue, Believable
  <2>2. CASE answer # "ack"
    BY <1>2, <1>3, <2>2 DEF AckIsTrue, Believable, IsAnswer, Answers
  <2> QED BY <2>1, <2>2
<1>10. OffIsTrue(s, m, v, u)
  BY <1>4, <1>5, <1>6, <1>7 DEF Agree, OffIsTrue, Sound, OffIsDesired
<1>11. Agree(s, m, v, u, W)
  BY <1>2, <1>4, <1>8, <1>9, <1>10 DEF Agree
<1> QED BY <1>11 DEF v, s, m

\* What remains to be seen when no answer is on the wire any more.
LEMMA NothingAnswered ==
  ASSUME NEW r, NEW n, NEW w, NEW u \in BOOLEAN, NEW W, Sound(r),
         w \in Seq(Answers \cup Activations \cup W), ~u => w = <<>>,
         \A i \in DOMAIN w : w[i] \notin Answers, OffIsTrue(r, n, w, u)
  PROVE  Agree(r, n, w, u, W)
BY DEF Agree, OneAnswer, IsAnswer, AckIsTrue, Believable, Answers

\* The wire loses its first message.
LEMMA TailKeeps ==
  ASSUME NEW r, NEW n, NEW w, NEW u \in BOOLEAN, NEW W, Agree(r, n, w, u, W), w # <<>>
  PROVE  /\ Tail(w) \in Seq(Answers \cup Activations \cup W)
         /\ ~u => Tail(w) = <<>>
         /\ Head(w) \notin Activations /\ ArmedBy(w) => ArmedBy(Tail(w))
         /\ OneAnswer(r, Tail(w))
         /\ Believable(r, Tail(w)) => Believable(r, w)
         /\ Head(w) \in Answers => \A i \in DOMAIN Tail(w) : Tail(w)[i] \notin Answers
<1> DEFINE v == Tail(w)
<1>1. /\ v \in Seq(Answers \cup Activations \cup W)
      /\ 1 \in DOMAIN w /\ Head(w) = w[1]
      /\ \A i \in DOMAIN v : i + 1 \in DOMAIN w /\ v[i] = w[i + 1] /\ i + 1 # 1
      /\ \A i \in DOMAIN w : i # 1 => i - 1 \in DOMAIN v /\ v[i - 1] = w[i]
  BY TakenOff DEF Agree
<1>2. u
  BY DEF Agree
<1> HIDE DEF v
<1>3. Head(w) \notin Activations /\ ArmedBy(w) => ArmedBy(v)
  BY <1>1 DEF ArmedBy
<1>4. OneAnswer(r, v)
  <2>1. ASSUME NEW i \in DOMAIN v, NEW j \in DOMAIN v, IsAnswer(v, i), IsAnswer(v, j) PROVE i = j
    <3>1. IsAnswer(w, i + 1) /\ IsAnswer(w, j + 1)
      BY <1>1, <2>1 DEF IsAnswer
    <3>2. i + 1 = j + 1 /\ i \in Int /\ j \in Int
      BY <1>1, <3>1 DEF Agree, OneAnswer, IsAnswer
    <3> QED BY <3>2
  <2>2. ASSUME NEW i \in DOMAIN v, IsAnswer(v, i) PROVE Setting(r) /\ r.call.served
    BY <1>1, <2>2 DEF Agree, OneAnswer, IsAnswer
  <2> QED BY <2>1, <2>2 DEF OneAnswer
<1>5. Believable(r, v) => Believable(r, w)
  BY <1>1 DEF Believable
<1>6. Head(w) \in Answers => \A i \in DOMAIN v : v[i] \notin Answers
  BY <1>1 DEF Agree, OneAnswer, IsAnswer
<1> QED BY <1>1, <1>2, <1>3, <1>4, <1>5, <1>6 DEF v

\* An answer to a call that a turn left stale, or has not issued.
LEMMA TurnedAnswers ==
  ASSUME NEW r, NEW t, NEW w, OneAnswer(r, w), Follows(r, t)
  PROVE  OneAnswer(t, w) /\ (Believable(t, w) => Believable(r, w))
<1>1. OneAnswer(t, w)
  BY DEF OneAnswer, IsAnswer, Follows, SameCall, Setting
<1>2. ASSUME Believable(t, w) PROVE Believable(r, w)
  <2>1. PICK i \in DOMAIN w : w[i] = "ack"
    BY <1>2 DEF Believable
  <2>2. Setting(r) /\ r.call.served
    BY <2>1 DEF OneAnswer, IsAnswer, Answers
  <2> QED BY <1>2, <2>1, <2>2 DEF Believable, Follows, SameCall, Setting
<1> QED BY <1>1, <1>2

\* The application reads what says nothing of the capture.
LEMMA ReadNoticeKeeps ==
  ASSUME NEW r, NEW n, NEW w, NEW u \in BOOLEAN, NEW W, NEW t, Agree(r, n, w, u, W), w # <<>>,
         Head(w) \notin Answers \cup Activations, Turned(r, t)
  PROVE  Agree(t, n, Tail(w), u, W)
<1>1. Sound(t) /\ Follows(r, t)
  BY TurnedSound DEF Agree
<1>2. /\ Tail(w) \in Seq(Answers \cup Activations \cup W)
      /\ ~u => Tail(w) = <<>>
      /\ ArmedBy(w) => ArmedBy(Tail(w))
      /\ OneAnswer(r, Tail(w))
      /\ Believable(r, Tail(w)) => Believable(r, w)
  BY TailKeeps
<1>3. OneAnswer(t, Tail(w)) /\ (Believable(t, Tail(w)) => Believable(r, w))
  BY <1>1, <1>2, TurnedAnswers
<1> QED BY <1>1, <1>2, <1>3 DEF Agree, AckIsTrue, OffIsTrue, Follows

\* The application reads a press when it is over, and does not look at it.
LEMMA ReadLateKeeps ==
  ASSUME NEW r, NEW n, NEW w, NEW u \in BOOLEAN, NEW W, NEW t, Agree(r, n, w, u, W), w # <<>>,
         r.disposed, Turned(r, t)
  PROVE  Agree(t, n, Tail(w), u, W)
<1>1. Sound(t) /\ Follows(r, t)
  BY TurnedSound DEF Agree
<1>2. t.disposed
  BY <1>1 DEF Follows
<1>3. /\ Tail(w) \in Seq(Answers \cup Activations \cup W)
      /\ ~u => Tail(w) = <<>>
      /\ OneAnswer(r, Tail(w))
  BY TailKeeps
<1>4. OneAnswer(t, Tail(w))
  BY <1>1, <1>3, TurnedAnswers
<1> QED BY <1>1, <1>2, <1>3, <1>4 DEF Agree, AckIsTrue, Believable, OffIsTrue

\* The application reads a press: the helper captures for all that it knows.
LEMMA ReadPressKeeps ==
  ASSUME NEW r, NEW n, NEW w, NEW u \in BOOLEAN, NEW W, NEW t, Agree(r, n, w, u, W), w # <<>>,
         Turned(MarkNativeCaptureArmed(r), t)
  PROVE  Agree(t, n, Tail(w), u, W)
<1> DEFINE armed == MarkNativeCaptureArmed(r)
<1>1. /\ Sound(armed) /\ Follows(r, armed) /\ ~armed.off
      /\ armed.call # NoCall => ~armed.call.fresh
  <2>1. Sound(r) /\ Sound(Revise(r)) /\ (Revise(r).call # NoCall => ~Revise(r).call.fresh)
    BY ReviseSound DEF Agree
  <2> QED BY <2>1, NotedSound DEF MarkNativeCaptureArmed, Sound, Reconcilers
<1> HIDE DEF armed
<1>2. Sound(t) /\ Follows(armed, t)
  BY <1>1, TurnedSound DEF armed
<1>3. Follows(r, t)
  BY <1>1, <1>2, FollowsTransitive DEF Agree, Sound, Reconcilers
<1>4. /\ Tail(w) \in Seq(Answers \cup Activations \cup W)
      /\ ~u => Tail(w) = <<>>
      /\ OneAnswer(r, Tail(w))
  BY TailKeeps
<1>5. OneAnswer(armed, Tail(w))
  BY <1>1, <1>4, TurnedAnswers
<1>6. OneAnswer(t, Tail(w)) /\ (Believable(t, Tail(w)) => Believable(armed, Tail(w)))
  BY <1>2, <1>5, TurnedAnswers
<1>7. ~Believable(armed, Tail(w))
  BY <1>1 DEF Believable, Setting
<1>8. ~t.off
  BY <1>1, <1>2 DEF Follows
<1> QED BY <1>2, <1>4, <1>6, <1>7, <1>8 DEF Agree, AckIsTrue, OffIsTrue

\* The application reads the answer to its set.
LEMMA ReadAnswerKeeps ==
  ASSUME NEW r, NEW n, NEW w, NEW u \in BOOLEAN, NEW W, NEW t, Agree(r, n, w, u, W), w # <<>>,
         Head(w) \in Answers, Turned(Settled(r, Head(w)), t)
  PROVE  Agree(t, n, Tail(w), u, W)
<1> DEFINE settled == Settled(r, Head(w))
<1>1. 1 \in DOMAIN w /\ Head(w) = w[1]
  BY DEF Agree
<1>2. Setting(r)
  BY <1>1 DEF Agree, OneAnswer, IsAnswer
<1>3. /\ Sound(settled) /\ settled.disposed = r.disposed
      /\ settled.off => r.off \/ (Head(w) = "ack" /\ r.call.fresh /\ r.call.mode = "off")
  BY <1>2, SettledSound DEF Agree
<1>4. Turned(settled, t)
  OBVIOUS
<1> HIDE DEF settled
<1>5. Sound(t) /\ Follows(settled, t)
  BY <1>3, <1>4, TurnedSound
<1>6. /\ Tail(w) \in Seq(Answers \cup Activations \cup W)
      /\ ~u => Tail(w) = <<>>
      /\ ArmedBy(w) => ArmedBy(Tail(w))
      /\ \A i \in DOMAIN Tail(w) : Tail(w)[i] \notin Answers
  BY TailKeeps DEF Answers, Activations
<1>7. OffIsTrue(t, n, Tail(w), u)
  <2> SUFFICES ASSUME t.off, u, ~t.disposed PROVE n = "off" \/ ArmedBy(w)
    BY <1>6 DEF OffIsTrue
  <2>1. ~r.disposed /\ settled.off
    BY <1>3, <1>5 DEF Follows
  <2>2. CASE r.off
    BY <2>1, <2>2 DEF Agree, OffIsTrue
  <2>3. CASE Head(w) = "ack" /\ r.call.fresh /\ r.call.mode = "off"
    BY <1>1, <1>2, <2>1, <2>3 DEF Agree, AckIsTrue, Believable
  <2> QED BY <1>3, <2>1, <2>2, <2>3
<1> QED BY <1>5, <1>6, <1>7, NothingAnswered DEF Agree

\* A call that no answer will come to is settled by the application.
LEMMA UnansweredKeeps ==
  ASSUME NEW r, NEW n, NEW w, NEW u \in BOOLEAN, NEW W, NEW s, NEW t, Agree(r, n, w, u, W),
         Sound(s), s.disposed = r.disposed, s.off => r.off, Turned(s, t),
         ~Setting(r) \/ ~r.call.served \/ ~u
  PROVE  Agree(t, n, w, u, W)
<1>1. \A i \in DOMAIN w : w[i] \notin Answers
  BY DEF Agree, OneAnswer, IsAnswer
<1>2. Sound(t) /\ Follows(s, t)
  BY TurnedSound
<1>3. OffIsTrue(t, n, w, u)
  BY <1>2 DEF Agree, OffIsTrue, Follows
<1> QED BY <1>1, <1>2, <1>3, NothingAnswered DEF Agree

\* A set that fails on its way to the helper.
LEMMA CallFailsKeeps ==
  ASSUME NEW r, NEW n, NEW w, NEW u \in BOOLEAN, NEW W, NEW t, NEW answer \in {"capacity", "failed"},
         Agree(r, n, w, u, W), Setting(r), ~r.call.served \/ ~u, Turned(Settled(r, answer), t)
  PROVE  Agree(t, n, w, u, W)
<1>1. /\ Sound(Settled(r, answer)) /\ Settled(r, answer).disposed = r.disposed
      /\ Settled(r, answer).off => r.off
  BY SettledSound DEF Agree
<1> QED BY <1>1, UnansweredKeeps

\* The end of a delay, or of a reset that has stopped the helper.
LEMMA RetryKeeps ==
  ASSUME NEW r, NEW n, NEW w, NEW u \in BOOLEAN, NEW W, NEW t, NEW reset \in BOOLEAN,
         Agree(r, n, w, u, W), r.call # NoCall, ~Setting(r),
         r.call.kind = "reset" => r.call.served, Turned(Retried(r, reset), t)
  PROVE  Agree(t, n, w, u, W)
<1>1. /\ Sound(Retried(r, reset)) /\ Retried(r, reset).disposed = r.disposed
      /\ Retried(r, reset).off => r.off
  BY RetriedSound DEF Agree
<1> QED BY <1>1, UnansweredKeeps

\* A reset that has stopped the helper has been served.
Left(r) == IF r.call # NoCall /\ r.call.kind = "reset" THEN [r EXCEPT !.call.served = TRUE] ELSE r

\* The helper goes, and what it wrote with it.
LEMMA LostKeeps ==
  ASSUME NEW r, NEW n, NEW w, NEW u \in BOOLEAN, NEW W, NEW t, NEW v \in BOOLEAN,
         ~v, Agree(r, n, w, u, W),
         Turned(MarkAppliedUnknown(Left(r)), t)
  PROVE  Agree(t, n, <<>>, v, W) /\ Follows(MarkAppliedUnknown(Left(r)), t)
         /\ MarkAppliedUnknown(Left(r)).disposed = r.disposed
<1> DEFINE left == Left(r)
<1>1. Sound(MarkAppliedUnknown(left)) /\ MarkAppliedUnknown(left).disposed = r.disposed
  <2>1. CASE r.call # NoCall /\ r.call.kind = "reset"
    <3>1. r.call \in Calls /\ r \in Reconcilers
      BY <2>1 DEF Agree, Sound, Reconcilers
    <3>2. [r.call EXCEPT !.served = TRUE, !.fresh = FALSE] \in Calls
      BY <3>1 DEF Calls
    <3>3. [r.call EXCEPT !.served = TRUE] \in Calls
      BY <3>1 DEF Calls
    <3>4. left.call = [r.call EXCEPT !.served = TRUE] /\ left.call # NoCall
      BY <2>1, <3>1, <3>3, NoCallAssumption DEF Reconcilers, Left
    <3>5. MarkAppliedUnknown(left) =
            [r EXCEPT !.call = [r.call EXCEPT !.served = TRUE, !.fresh = FALSE], !.applied = Unknown]
      BY <2>1, <3>1, <3>4 DEF MarkAppliedUnknown, Revise, Reconcilers, Calls, Left
    <3> QED
      BY <2>1, <3>1, <3>2, <3>5, NoCallAssumption
      DEF Agree, Sound, AboutDesired, OffIsDesired, ResetIsStale, Setting, Reconcilers, Calls
  <2>2. CASE ~(r.call # NoCall /\ r.call.kind = "reset")
    BY <2>2, NotedSound, ReviseSound DEF Agree, Left, MarkAppliedUnknown, Sound, Reconcilers
  <2> QED BY <2>1, <2>2
<1>2. Sound(t) /\ Follows(MarkAppliedUnknown(left), t)
  BY <1>1, TurnedSound
<1>3. OffIsTrue(t, n, <<>>, v)
  BY DEF OffIsTrue
<1> HIDE DEF left
<1>4. Agree(t, n, <<>>, v, W)
  BY <1>2, <1>3 DEF Agree, OneAnswer, IsAnswer, AckIsTrue, Believable
<1> QED BY <1>1, <1>2, <1>4 DEF left

\* Its successor starts with the capture off.
LEMMA ReadyKeeps ==
  ASSUME NEW r, NEW n, NEW w, NEW u \in BOOLEAN, NEW W, NEW t, NEW v \in BOOLEAN,
         Agree(r, n, w, u, W), ~u, Turned(r, t)
  PROVE  Agree(t, "off", w, v, W)
<1>1. w = <<>> /\ Sound(t)
  BY TurnedSound DEF Agree
<1>2. OffIsTrue(t, "off", w, v)
  BY DEF OffIsTrue
<1> QED BY <1>1, <1>2 DEF Agree, OneAnswer, IsAnswer, AckIsTrue, Believable

=============================================================================
