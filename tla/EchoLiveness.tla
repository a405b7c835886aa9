---------------------------- MODULE EchoLiveness ----------------------------
(***************************************************************************)
(* What a dictation session must eventually do, and the fairness under     *)
(* which it does.                                                          *)
(***************************************************************************)
EXTENDS EchoProperties

\* What the application, the recorder, the worker and the helper do of
\* themselves: an effect in the promise chain goes on, a timer fires, a request
\* is answered or times out, the pipe is read and a helper that is gone is
\* started anew.  The user's steps, the timers that end a recording and the
\* faults are not among them, nor is that a microphone stops where the
\* application gives up on it.
Progress ==
  \/ EffectStep
  \/ ResetTimerFires
  \/ ContinueShutdown
  \/ StopTimesOut
  \/ NoFirstAudio
  \/ \E k \in SessionIds :
       \/ MicrophoneOpens(k)
       \/ ~May("stop") /\ MicrophoneStops(k)
       \/ FirstFrame(k)
       \/ GrantSettles(k)
       \/ StreamSettles(k)
  \/ Serve
  \/ Paste
  \/ Read
  \/ CallSettles
  \/ HelperResets
  \/ HelperReady

\* They all go on for as long as one of them can.
FairSpec == Spec /\ WF_vars(Progress)

-----------------------------------------------------------------------------
\* A session whose dictation was submitted, or that is past it, ends: no
\* answer that is late, lost or about an earlier session leaves it, or the
\* terminal phase it shows, for ever.
SessionEnds ==
  (c.s.phase # "idle" /\ (IsCapture(c.s.phase) => c.s.submitPending)) ~>
    (c.s.phase = "idle" \/ c.disposed)

\* The end of the application waits for a session's effects, and has them.
ShutdownEnds == c.disposed ~> c.shutdown = "over"

\* The keys are given back: a helper that captures them for a session that
\* has ended, or for a press that started none, is told to stop.
CaptureReleased ==
  (c.s.phase = "idle" /\ ~c.disposed) ~> (native = "off" \/ c.s.phase # "idle" \/ c.disposed)
=============================================================================
