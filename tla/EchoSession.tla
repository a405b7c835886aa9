---------------------------- MODULE EchoSession ----------------------------
(***************************************************************************)
(* A dictation session in the application (app/src/main/echo): the events  *)
(* it dispatches to the reducer, the effects it runs one after the other,  *)
(* and the capture pipeline.  The microphone, the model's lease and the    *)
(* transcription stream of a session, the helper and the paste it injects  *)
(* are the other side of it.                                               *)
(*                                                                         *)
(* c is the context of the session: its fields are those of                *)
(* EchoSessionContext and EchoCaptureContext.  The abort controllers are   *)
(* kept as the answers to the questions the code asks of them: aborted,    *)
(* the current one; owner "aborted", the one the capture was armed with;   *)
(* signal, the one the running effect has in hand.                         *)
(*                                                                         *)
(* The first effect of the queue is the one that runs; stage is how far it *)
(* is, hwait and mwait the answers of the helper and the microphone that   *)
(* it waits for.  written is the session's history, committed whether the  *)
(* notice of its paste has come.                                           *)
(***************************************************************************)
EXTENDS EchoReducer, CaptureReconciler, SequencesExt

CONSTANTS MaxSessions, Plans

\* What may happen of itself: what fails, the two kinds of a press, a session
\* with a smart profile, an answer that is late for a session's end, and the
\* end of the application.  Where the model is not among them its lease is
\* there at once.
Faults ==
  {"widget", "microphone", "model", "stream", "inference", "sync", "answer", "capacity", "helper"}
Happenings == Faults \cup {"down", "complete", "smart", "stop", "shutdown"}

SessionIds == 1 .. MaxSessions

ASSUME MaxSessionsAssumption == MaxSessions \in Nat
ASSUME PlansAssumption ==
  Plans \subseteq
    [happens : SUBSET Happenings, sessions : 0 .. MaxSessions, presses : Nat, faults : Nat]

\* plan bounds a behaviour: the sessions, presses and faults it still has, and
\* which of the above occur in it.
VARIABLES c, native, wire, up, held, mic, grant, stream, paste, plan

vars == <<c, native, wire, up, held, mic, grant, stream, paste, plan>>

NewContext ==
  [s |-> IdleSession, queue |-> <<>>, stage |-> "ready", signal |-> FALSE,
   hwait |-> "none", mwait |-> "none", aborted |-> FALSE,
   owner |-> "none", captureId |-> FALSE, captureOpening |-> FALSE, stopCompleted |-> FALSE,
   nativeCaptureLost |-> FALSE, active |-> FALSE, teardownComplete |-> TRUE, resetTimer |-> FALSE,
   pendingError |-> FALSE, written |-> <<>>, committed |-> FALSE, disposed |-> FALSE, shutdown |-> "no",
   rec |-> NewReconciler]

IsActive(d) == d.owner = "active"
CaptureStillCurrent(d) == IsActive(d) /\ IsCapture(d.s.phase)

\* context.abort.abort(), which every signal in use has been taken from.
AbortOperation(d) ==
  [d EXCEPT !.aborted = TRUE, !.signal = TRUE,
            !.owner = IF @ = "active" THEN "aborted" ELSE @]

\* requestBestEffort, with the microtask that starts the reconciliation.
Ask(d, mode) == [d EXCEPT !.rec = Request(@, mode)]

-----------------------------------------------------------------------------
(* Dispatching an event                                                    *)

ScheduleTerminalReset(d) ==
  IF d.disposed \/ ~d.rec.off \/ ~d.teardownComplete \/ ~IsTerminal(d.s.phase)
  THEN d ELSE [d EXCEPT !.resetTimer = TRUE]

\* The new generation of the capture and its controller.
BeginSession(d) ==
  [d EXCEPT !.rec = BeginGeneration(@), !.owner = "active", !.captureOpening = FALSE,
            !.stopCompleted = FALSE, !.nativeCaptureLost = FALSE, !.aborted = FALSE,
            !.teardownComplete = FALSE, !.written = <<>>, !.committed = FALSE]

\* The history of a session takes its first outcome.
Record(d, previous) ==
  LET s == d.s
  IN  IF s.id = 0 \/ d.written # <<>> \/ previous.phase = s.phase \/ ~s.transcript THEN d
      ELSE IF s.phase \in {"restoringClipboard", "completed"}
      THEN [d EXCEPT !.written = Append(@, "done")]
      ELSE IF s.phase = "error" THEN [d EXCEPT !.written = Append(@, "error")]
      ELSE d

Manage(d, previous) ==
  LET next == d.s
      released == IF next.phase = "idle" \/ IsTerminal(next.phase)
                  THEN [d EXCEPT !.active = FALSE] ELSE d
      mode == CaptureModeFor(next.phase)
  IN  IF previous.phase = "idle" /\ next.phase = "arming" THEN BeginSession(released)
      ELSE IF mode # CaptureModeFor(previous.phase) THEN Ask(released, mode)
      ELSE released

Dispatch(d, transition) ==
  LET previous == d.s
      next == transition.state
      failed == IF next.phase = "error" /\ previous.phase # "error"
                THEN AbortOperation(d) ELSE d
      renewed == IF next.phase = "transcribing" /\ ~d.captureId
                 THEN [AbortOperation(failed) EXCEPT !.aborted = FALSE] ELSE failed
      moved == Record(Manage([renewed EXCEPT !.s = next], previous), previous)
      queued == [moved EXCEPT !.queue = @ \o transition.effects]
  IN  IF next = previous /\ transition.effects = <<>> THEN d
      ELSE IF next.phase = "error" /\ next.id = 0 /\ previous.phase = "idle"
      THEN ScheduleTerminalReset(queued)
      ELSE queued

ReportOperationalFailure(d) ==
  IF d.disposed THEN d
  ELSE IF \/ d.nativeCaptureLost /\ d.s.phase # "idle"
          \/ d.s.phase \in {"inserting", "restoringClipboard"}
          \/ IsTerminal(d.s.phase)
  THEN [d EXCEPT !.pendingError = TRUE]
  ELSE IF d.s.phase = "idle" THEN Dispatch(d, OperationalFailure(d.s))
  ELSE Dispatch(AbortOperation(d), Fail(d.s))

DispatchReset(d) ==
  LET idle == Dispatch(d, Stay(IdleSession))
  IN  IF idle.pendingError
      THEN ReportOperationalFailure([idle EXCEPT !.pendingError = FALSE])
      ELSE idle

AbortSession(d, provider) ==
  LET aborted == AbortOperation(d)
      rawFallback == provider /\ d.s.phase = "processingSmart" /\ d.s.transcript
  IN  Dispatch(IF rawFallback THEN [aborted EXCEPT !.aborted = FALSE] ELSE aborted,
               Abort(d.s, provider))

-----------------------------------------------------------------------------
(* The effects                                                             *)

Running(effect, stage) == c.queue # <<>> /\ Head(c.queue) = effect /\ c.stage = stage

At(d, stage) == [d EXCEPT !.stage = stage]

Done(d) == [d EXCEPT !.queue = Tail(@), !.stage = "ready", !.signal = FALSE,
                     !.hwait = "none", !.mwait = "none"]

\* The signal is taken from the controller there is.
TakeSignal(d) == [d EXCEPT !.signal = d.aborted]

Over(d) == d.disposed \/ d.s.phase = "idle" \/ IsTerminal(d.s.phase)

\* Mutant of Throws: an effect whose session is over is left as it is.
ThrowsWithin(d, abortError) ==
  IF Over(d) THEN d
  ELSE Done(IF abortError /\ d.signal THEN d ELSE Dispatch(AbortOperation(d), Fail(d.s)))

\* The effect throws; an AbortError is expected of an operation aborted or over.
Throws(d, abortError) ==
  Done(IF Over(d) \/ (abortError /\ d.signal) THEN d ELSE Dispatch(AbortOperation(d), Fail(d.s)))

\* captureReconciler.request, for an effect that waits for the answer.
Await(d, mode) ==
  [Ask(d, mode) EXCEPT !.hwait = IF Joins(d.rec, mode) THEN "waiting" ELSE "ok"]

\* The waiter of a reconciliation that ends.  The opening of a capture whose
\* keyboard is lost does not need it.
Woken(d, before) ==
  IF d.hwait # "waiting" \/ ~Resolved(before, d.rec) THEN d
  ELSE [d EXCEPT !.hwait = IF Rejected(before, d.rec) /\ ~d.nativeCaptureLost
                           THEN "failed" ELSE "ok"]

\* The turn is over: the reconciliation starts.
Becomes(d) == c' = Woken([d EXCEPT !.rec = Reconcile(@)], c.rec)

May(happening) == happening \in plan.happens

Fault(kind) ==
  /\ May(kind)
  /\ plan.faults > 0
  /\ plan' = [plan EXCEPT !.faults = @ - 1]

Session == IF c.s.id = 0 THEN 1 ELSE c.s.id

-----------------------------------------------------------------------------
(* start-capture                                                           *)

BeginStartCapture ==
  /\ Running("start-capture", "ready")
  /\ LET d == TakeSignal(c)
     IN  Becomes(IF ~IsActive(d) THEN Throws(d, TRUE)
                 ELSE IF ~IsCapture(d.s.phase) THEN Done(d)
                 ELSE At(d, "widget"))
  /\ UNCHANGED <<native, wire, up, held, mic, grant, stream, paste, plan>>

\* The widget is up: the helper and the microphone are asked at once, the
\* model's lease has been since the session began.
OpenCapture ==
  /\ Running("start-capture", "widget")
  /\ IF ~IsActive(c)
     THEN Becomes(Done(c)) /\ UNCHANGED mic
     ELSE /\ Becomes(At([Await(c, "recording") EXCEPT !.captureOpening = TRUE], "opening"))
          /\ mic' = [mic EXCEPT ![Session] = "opening"]
  /\ UNCHANGED <<native, wire, up, held, grant, stream, paste, plan>>

WidgetFails ==
  /\ Running("start-capture", "widget")
  /\ Fault("widget")
  /\ Becomes(IF IsActive(c) THEN Throws(c, FALSE) ELSE Done(c))
  /\ UNCHANGED <<native, wire, up, held, mic, grant, stream, paste>>

CaptureOpened ==
  /\ Running("start-capture", "opening")
  /\ ~c.signal
  /\ c.hwait = "ok"
  /\ ~c.captureOpening
  /\ mic[Session] # "failed"
  /\ grant[Session] \in {"held", "released"}
  /\ Becomes(Done(IF CaptureStillCurrent(c) THEN Dispatch(c, Ready(c.s, "captureReady")) ELSE c))
  /\ UNCHANGED <<native, wire, up, held, mic, grant, stream, paste, plan>>

CaptureOpenFails ==
  /\ Running("start-capture", "opening")
  /\ ~c.signal
  /\ \/ c.hwait = "failed"
     \/ ~c.captureOpening /\ mic[Session] = "failed"
     \/ grant[Session] = "failed"
  /\ Becomes(Throws(c, FALSE))
  /\ UNCHANGED <<native, wire, up, held, mic, grant, stream, paste, plan>>

\* raceWithAbort: the effect leaves what it waits for.
EffectAborted ==
  /\ \/ Running("start-capture", "opening")
     \/ Running("begin-extended", "streaming")
     \/ Running("transcribe", "inferring")
     \/ Running("process-smart", "processing")
  /\ c.signal
  /\ Becomes(Throws(c, TRUE))
  /\ UNCHANGED <<native, wire, up, held, mic, grant, stream, paste, plan>>

-----------------------------------------------------------------------------
(* begin-extended-transcription, stop-and-transcribe                       *)

BeginExtended ==
  /\ Running("begin-extended", "ready")
  /\ LET d == TakeSignal(c)
     IN  IF IsActive(d)
         THEN /\ Becomes(At(d, "streaming"))
              /\ stream' = [stream EXCEPT ![Session] = "opening"]
         ELSE Becomes(Throws(d, TRUE)) /\ UNCHANGED stream
  /\ UNCHANGED <<native, wire, up, held, mic, grant, paste, plan>>

StreamOpened ==
  /\ Running("begin-extended", "streaming")
  /\ ~c.signal
  /\ stream[Session] \in {"open", "failed"}
  /\ Becomes(IF stream[Session] = "open" THEN Done(c) ELSE Throws(c, FALSE))
  /\ UNCHANGED <<native, wire, up, held, mic, grant, stream, paste, plan>>

\* Mutant of Stops: a capture that is still being opened is not stopped.
StopsOpened(d) == d.owner = "active" /\ ~d.stopCompleted /\ d.captureId

\* stopCapture: what it asks of the microphone.
Stops(d) ==
  /\ d.owner # "none"
  /\ ~d.stopCompleted
  /\ d.captureId \/ d.captureOpening

Stopping(state) == IF state \in {"opening", "on"} THEN "stopping" ELSE state

StopCapture(d) ==
  /\ mic' = IF Stops(d) THEN [mic EXCEPT ![Session] = Stopping(@)] ELSE mic
  /\ Becomes(At([Await(d, CaptureModeFor(d.s.phase)) EXCEPT
                   !.mwait = IF Stops(d) THEN "waiting" ELSE "ok"], "stopping"))

BeginTranscribe ==
  /\ Running("transcribe", "ready")
  /\ StopCapture(TakeSignal(c))
  /\ UNCHANGED <<native, wire, up, held, grant, stream, paste, plan>>

StopSettled == c.hwait \in {"ok", "failed"} /\ c.mwait \in {"ok", "failed"}

\* The end of stopCapture, for the session that still owns it.
Stopped(d) ==
  IF d.owner = "none" \/ ~Stops(d) THEN d ELSE [d EXCEPT !.stopCompleted = (d.mwait = "ok")]

StopFailed(d) == d.mwait = "failed" \/ (d.hwait = "failed" /\ ~d.nativeCaptureLost)

CaptureStopped ==
  /\ Running("transcribe", "stopping")
  /\ StopSettled
  /\ LET d == Stopped(c)
     IN  Becomes(IF StopFailed(c) THEN Throws(d, FALSE)
                 ELSE IF ~IsActive(d) THEN Throws(TakeSignal(d), TRUE)
                 ELSE At(TakeSignal(d), "inferring"))
  /\ UNCHANGED <<native, wire, up, held, mic, grant, stream, paste, plan>>

\* An Extended session finishes its stream, a Quick one transcribes at once.
Inferred ==
  /\ Running("transcribe", "inferring")
  /\ ~c.signal
  /\ stream[Session] \in {"none", "open"}
  /\ \/ \E speech \in BOOLEAN : Becomes(Done(Dispatch(c, Transcribed(c.s, speech))))
     \/ Becomes(Done(Dispatch(c, VoiceCommandMatched(c.s))))
  /\ stream' = [stream EXCEPT ![Session] = IF @ = "open" THEN "closed" ELSE @]
  /\ UNCHANGED <<native, wire, up, held, mic, grant, paste, plan>>

InferenceFails ==
  /\ Running("transcribe", "inferring")
  /\ ~c.signal
  /\ Fault("inference")
  /\ Becomes(Throws(c, FALSE))
  /\ UNCHANGED <<native, wire, up, held, mic, grant, stream, paste>>

-----------------------------------------------------------------------------
(* process-smart                                                           *)

\* There is no provider's session: the reducer alone is told.
BeginSmart ==
  /\ Running("process-smart", "ready")
  /\ \/ Becomes(At(TakeSignal(c), "processing"))
     \/ Becomes(Done(Dispatch(c, Abort(c.s, TRUE))))
  /\ UNCHANGED <<native, wire, up, held, mic, grant, stream, paste, plan>>

Processed ==
  /\ Running("process-smart", "processing")
  /\ ~c.signal
  /\ \/ \E text \in BOOLEAN : Becomes(Done(Dispatch(c, SmartCompleted(c.s, text))))
     \/ Becomes(Done(Dispatch(c, VoiceCommandMatched(c.s))))
     \/ Becomes(Done(IF c.s.phase = "processingSmart" THEN AbortSession(c, TRUE) ELSE c))
  /\ UNCHANGED <<native, wire, up, held, mic, grant, stream, paste, plan>>

-----------------------------------------------------------------------------
(* insert: the controller and InsertionService                             *)

BeginInsert ==
  /\ Running("insert", "ready")
  /\ LET d == TakeSignal(c)
     IN  IF d.signal
         THEN Becomes(Done(Dispatch(d, InsertionCancelled(d.s)))) /\ UNCHANGED paste
         ELSE IF ~d.s.target \/ d.nativeCaptureLost
         THEN Becomes(Done(Dispatch(d, Inserted(d.s, "copied")))) /\ UNCHANGED paste
         ELSE Becomes(At(d, "pasting")) /\ paste' = IF up THEN "sent" ELSE "none"
  /\ UNCHANGED <<native, wire, up, held, mic, grant, stream, plan>>

\* Mutant of PasteAnswered: the answer decides, whatever was committed.
PasteAnsweredAlone(d, answer) ==
  IF answer = "submitted"
  THEN At(Dispatch([d EXCEPT !.committed = TRUE], InsertionCommitted(d.s)), "settling")
  ELSE Done(Dispatch(d, Inserted(d.s, IF answer = "indeterminate" THEN answer ELSE "copied")))

\* The paste's answer, which its commitment has overtaken.
PasteAnswered(d, answer) ==
  IF answer = "submitted" \/ d.committed
  THEN At(Dispatch([d EXCEPT !.committed = TRUE], InsertionCommitted(d.s)), "settling")
  ELSE Done(Dispatch(d, IF answer = "indeterminate" THEN Inserted(d.s, "indeterminate")
                        ELSE IF d.signal THEN InsertionCancelled(d.s)
                        ELSE Inserted(d.s, "copied")))

\* The request is withdrawn before the helper has it, or dies with the helper.
PasteRejected ==
  /\ Running("insert", "pasting")
  /\ \/ ~up
     \/ c.signal /\ paste = "sent"
  /\ paste' = IF up THEN "none" ELSE paste
  /\ Becomes(PasteAnswered(c, "rejected"))
  /\ UNCHANGED <<native, wire, up, held, mic, grant, stream, plan>>

PasteSettles ==
  /\ Running("insert", "settling")
  /\ Becomes(Done(Dispatch(c, Inserted(c.s, "inserted"))))
  /\ UNCHANGED <<native, wire, up, held, mic, grant, stream, paste, plan>>

-----------------------------------------------------------------------------
(* teardown                                                                *)

BeginTeardown ==
  /\ Running("teardown", "ready")
  /\ IF c.teardownComplete /\ c.rec.off
     THEN Becomes(Done(c)) /\ UNCHANGED mic
     ELSE StopCapture([TakeSignal(c) EXCEPT !.owner = IF @ = "none" THEN @ ELSE "closing",
                                            !.resetTimer = FALSE])
  /\ UNCHANGED <<native, wire, up, held, grant, stream, paste, plan>>

TeardownStopped ==
  /\ Running("teardown", "stopping")
  /\ StopSettled
  /\ Becomes(At(Stopped(c), "releasing"))
  /\ UNCHANGED <<native, wire, up, held, mic, grant, stream, paste, plan>>

\* What still opens is left to itself after a second.
Release ==
  /\ Running("teardown", "releasing")
  /\ IF c.owner = "none" THEN UNCHANGED <<grant, stream>>
     ELSE /\ grant' = [grant EXCEPT ![Session] = IF @ = "held" THEN "released" ELSE @]
          /\ stream' = [stream EXCEPT ![Session] =
                          IF @ = "open" /\ c.s.phase # "completed" THEN "closed" ELSE @]
  /\ Becomes(Done(ScheduleTerminalReset(
               [c EXCEPT !.owner = "none", !.captureId = FALSE, !.stopCompleted = FALSE,
                         !.teardownComplete = TRUE])))
  /\ UNCHANGED <<native, wire, up, held, mic, paste, plan>>

ResetTimerFires ==
  /\ c.resetTimer
  /\ LET d == [c EXCEPT !.resetTimer = FALSE]
     IN  Becomes(IF ~d.rec.off \/ ~d.teardownComplete \/ ~IsTerminal(d.s.phase)
                 THEN ScheduleTerminalReset(d)
                 ELSE DispatchReset(d))
  /\ UNCHANGED <<native, wire, up, held, mic, grant, stream, paste, plan>>

-----------------------------------------------------------------------------
(* The user and the timers                                                 *)

\* The widget's buttons, Escape, Enter, the silence and the duration cap.
Cancel ==
  /\ ~IsTerminal(c.s.phase)
  /\ c.s.phase # "idle"
  /\ Becomes(AbortSession(c, FALSE))
  /\ UNCHANGED <<native, wire, up, held, mic, grant, stream, paste, plan>>

SubmitSession ==
  /\ IsActive(c)
  /\ IsCapture(c.s.phase)
  /\ ~c.s.submitPending
  /\ Becomes(Dispatch(c, Submit(c.s)))
  /\ UNCHANGED <<native, wire, up, held, mic, grant, stream, paste, plan>>

HoldElapses ==
  /\ IsActive(c)
  /\ c.s.phase = "arming"
  /\ Becomes(Dispatch(c, Extend(c.s)))
  /\ UNCHANGED <<native, wire, up, held, mic, grant, stream, paste, plan>>

NoFirstAudio ==
  /\ IsActive(c)
  /\ c.captureId
  /\ ~c.s.audioReady
  /\ IsCapture(c.s.phase)
  /\ Becomes(Dispatch(AbortOperation(c), Fail(c.s)))
  /\ UNCHANGED <<native, wire, up, held, mic, grant, stream, paste, plan>>

\* A wait of stopCapture is over after a second.
StopTimesOut ==
  /\ May("stop")
  /\ c.stage = "stopping"
  /\ \/ c.hwait = "waiting" /\ c' = [c EXCEPT !.hwait = "failed"]
     \/ c.mwait = "waiting" /\ c' = [c EXCEPT !.mwait = "failed"]
  /\ UNCHANGED <<native, wire, up, held, mic, grant, stream, paste, plan>>

ProfileSyncEnds ==
  /\ up
  /\ \/ c.pendingError /\ c' = [c EXCEPT !.pendingError = FALSE] /\ UNCHANGED plan
     \/ /\ Fault("sync")
        /\ Becomes(ReportOperationalFailure(c))
  /\ UNCHANGED <<native, wire, up, held, mic, grant, stream, paste>>

BeginSessionShutdown ==
  /\ May("shutdown")
  /\ c.shutdown = "no"
  /\ LET d == AbortOperation([c EXCEPT !.disposed = TRUE, !.shutdown = "draining",
                                       !.rec = BeginShutdown(@), !.resetTimer = FALSE])
     IN  Becomes(Dispatch(d, Abort(d.s, FALSE)))
  /\ UNCHANGED <<native, wire, up, held, mic, grant, stream, paste, plan>>

\* The effects are drained; the last teardown ends the shutdown.
ContinueShutdown ==
  /\ c.queue = <<>>
  /\ \/ c.shutdown = "draining" /\ c' = [c EXCEPT !.shutdown = "last", !.queue = <<"teardown">>]
     \/ c.shutdown = "last" /\ c' = [c EXCEPT !.shutdown = "over", !.resetTimer = FALSE]
  /\ UNCHANGED <<native, wire, up, held, mic, grant, stream, paste, plan>>

-----------------------------------------------------------------------------
(* The microphone, the lease on the model and the stream of a session      *)

Current(k) == c.s.id = k

\* A capture that nobody waits for any more is stopped.
MicrophoneOpens(k) ==
  /\ mic[k] = "opening"
  /\ IF Current(k) /\ CaptureStillCurrent(c)
     THEN /\ c' = [c EXCEPT !.captureId = TRUE, !.captureOpening = FALSE]
          /\ mic' = [mic EXCEPT ![k] = "on"]
     ELSE /\ c' = [c EXCEPT !.captureOpening = @ /\ ~Current(k)]
          /\ mic' = [mic EXCEPT ![k] = "stopping"]
  /\ UNCHANGED <<native, wire, up, held, grant, stream, paste, plan>>

MicrophoneFails(k) ==
  /\ mic[k] = "opening"
  /\ Fault("microphone")
  /\ mic' = [mic EXCEPT ![k] = "failed"]
  /\ c' = [c EXCEPT !.captureOpening = @ /\ ~Current(k)]
  /\ UNCHANGED <<native, wire, up, held, grant, stream, paste>>

MicrophoneStops(k) ==
  /\ mic[k] = "stopping"
  /\ mic' = [mic EXCEPT ![k] = "stopped"]
  /\ c' = IF ~Current(k) THEN c
          ELSE [c EXCEPT !.captureOpening = FALSE,
                         !.mwait = IF @ = "waiting" THEN "ok" ELSE @]
  /\ UNCHANGED <<native, wire, up, held, grant, stream, paste, plan>>

MicrophoneLost(k) ==
  /\ mic[k] = "on"
  /\ Fault("microphone")
  /\ mic' = [mic EXCEPT ![k] = "stopped"]
  /\ Becomes(IF Current(k) /\ IsActive(c) THEN Dispatch(c, Fail(c.s)) ELSE c)
  /\ UNCHANGED <<native, wire, up, held, grant, stream, paste>>

FirstFrame(k) ==
  /\ Current(k)
  /\ mic[k] \in {"opening", "on"}
  /\ CaptureStillCurrent(c)
  /\ ~c.s.audioReady
  /\ Becomes(Dispatch(c, Ready(c.s, "audioReady")))
  /\ UNCHANGED <<native, wire, up, held, mic, grant, stream, paste, plan>>

GrantSettles(k) ==
  /\ grant[k] = "opening"
  /\ \/ /\ grant' = [grant EXCEPT ![k] = IF Current(k) /\ CaptureStillCurrent(c)
                                         THEN "held" ELSE "released"]
        /\ UNCHANGED plan
     \/ /\ Fault("model")
        /\ grant' = [grant EXCEPT ![k] = "failed"]
  /\ UNCHANGED <<c, native, wire, up, held, mic, stream, paste>>

StreamSettles(k) ==
  /\ stream[k] = "opening"
  /\ \/ /\ stream' = [stream EXCEPT ![k] = IF Current(k) /\ IsActive(c) THEN "open" ELSE "closed"]
        /\ UNCHANGED plan
     \/ /\ Fault("stream")
        /\ stream' = [stream EXCEPT ![k] = "failed"]
  /\ UNCHANGED <<c, native, wire, up, held, mic, grant, paste>>

\* A push of audio fails.
StreamBreaks(k) ==
  /\ Current(k)
  /\ stream[k] = "open"
  /\ IsActive(c)
  /\ Fault("stream")
  /\ Becomes(Dispatch(c, Fail(c.s)))
  /\ UNCHANGED <<native, wire, up, held, mic, grant, stream, paste>>

-----------------------------------------------------------------------------
(* The helper                                                              *)

Press ==
  /\ up
  /\ ~held
  /\ plan.presses > 0
  /\ plan' = [plan EXCEPT !.presses = @ - 1]
  /\ \E kind \in {"down", "complete"} \cap plan.happens :
       wire' = Append(wire, kind) /\ held' = (kind = "down")
  /\ native' \in {native, "recording"}
  /\ UNCHANGED <<c, up, mic, grant, stream, paste>>

ReleaseShortcut ==
  /\ up
  /\ held
  /\ held' = FALSE
  /\ wire' = Append(wire, "up")
  /\ UNCHANGED <<c, native, up, mic, grant, stream, paste, plan>>

Serve ==
  /\ up
  /\ Setting(c.rec)
  /\ ~c.rec.call.served
  /\ c' = [c EXCEPT !.rec.call.served = TRUE]
  /\ \/ native' = c.rec.call.mode /\ wire' = Append(wire, "ack") /\ UNCHANGED plan
     \/ /\ Fault("answer")
        /\ \E answer \in {"wrong", "error"} : wire' = Append(wire, answer)
        /\ UNCHANGED native
  /\ UNCHANGED <<up, held, mic, grant, stream, paste>>

Paste ==
  /\ up
  /\ \/ /\ paste = "sent"
        /\ \/ paste' = "pasted" /\ wire' = Append(wire, "committed")
           \/ paste' = "refused" /\ wire' = Append(wire, "rejected")
           \/ paste' = "unsure" /\ wire' = Append(wire, "indeterminate")
     \/ paste = "pasted" /\ paste' = "answered" /\ wire' = Append(wire, "submitted")
  /\ UNCHANGED <<c, native, up, held, mic, grant, stream, plan>>

\* acceptHelperNotification of an activation.
StartsSession(kind) ==
  /\ c.s.phase = "idle"
  /\ LET armed == [c EXCEPT !.rec = MarkNativeCaptureArmed(@)]
         unused == {k \in 1 .. plan.sessions : grant[k] = "none"}
         id == Min(unused)
         Started(smart, target, long) ==
           LET down == Dispatch([armed EXCEPT !.active = (kind = "down")],
                                ShortcutDown(armed.s, id, smart, target))
           IN  IF kind = "complete" THEN Dispatch(down, ShortcutUp(down.s, long)) ELSE down
     IN  \/ /\ unused # {}
            /\ \E smart, target, long \in BOOLEAN :
                 (smart => May("smart")) /\ Becomes(Started(smart, target, long))
            /\ grant' = [grant EXCEPT ![id] = IF May("model") THEN "opening" ELSE "held"]
            /\ paste' = "none"
         \/ /\ \/ Becomes(Ask(armed, "off"))
               \/ Becomes(ReportOperationalFailure(Ask(armed, "off")))
            /\ UNCHANGED <<grant, paste>>

JoinsSession(kind) ==
  /\ c.s.phase # "idle"
  /\ LET armed == [c EXCEPT !.rec = MarkNativeCaptureArmed(@)]
     IN  \/ /\ IsRecording(c.s.phase)
            /\ Becomes(Dispatch([armed EXCEPT !.active = (kind = "down")], Submit(c.s)))
         \/ Becomes(Ask(armed, CaptureModeFor(c.s.phase)))
  /\ UNCHANGED <<grant, paste>>

ReadActivation(kind) ==
  IF c.disposed THEN UNCHANGED <<c, grant, paste>>
  ELSE StartsSession(kind) \/ JoinsSession(kind)

ReadUp ==
  /\ IF c.active /\ ~c.disposed
     THEN \E long \in BOOLEAN :
            Becomes(Dispatch([c EXCEPT !.active = FALSE], ShortcutUp(c.s, long)))
     ELSE UNCHANGED c
  /\ UNCHANGED <<grant, paste>>

ReadAnswer(answer) ==
  LET settled == [c EXCEPT !.rec = Settled(@, answer)]
  IN  /\ Becomes(IF settled.rec.off THEN ScheduleTerminalReset(settled) ELSE settled)
      /\ UNCHANGED <<grant, paste>>

ReadPaste(notice) ==
  /\ IF ~Running("insert", "pasting") THEN UNCHANGED c
     ELSE Becomes(IF notice = "committed"
                  THEN Dispatch([c EXCEPT !.committed = TRUE], InsertionCommitted(c.s))
                  ELSE PasteAnswered(c, notice))
  /\ UNCHANGED <<grant, paste>>

Read ==
  /\ wire # <<>>
  /\ wire' = Tail(wire)
  /\ LET head == Head(wire)
     IN  \/ head \in {"down", "complete"} /\ ReadActivation(head)
         \/ head = "up" /\ ReadUp
         \/ head \in {"ack", "wrong", "error"} /\ ReadAnswer(head)
         \/ head \in {"committed", "submitted", "rejected", "indeterminate"} /\ ReadPaste(head)
  /\ UNCHANGED <<native, up, held, mic, stream, plan>>

\* A call that is full or fails, and the end of a delay or a reset.
CallSettles ==
  /\ c.rec.call # NoCall
  /\ \/ Setting(c.rec) /\ ~up /\ UNCHANGED plan /\ ReadAnswer("failed")
     \/ /\ Setting(c.rec) /\ ~c.rec.call.served /\ Fault("capacity")
        /\ ReadAnswer("capacity")
     \/ /\ ~Setting(c.rec)
        /\ c.rec.call.kind = "reset" => c.rec.call.served
        /\ UNCHANGED <<plan, grant, paste>>
        /\ LET retried == [c EXCEPT !.rec = Retried(@, up)]
           IN  Becomes(IF retried.rec.off THEN ScheduleTerminalReset(retried) ELSE retried)
  /\ UNCHANGED <<native, wire, up, held, mic, stream>>

\* Mutant of KeyboardLost: what was applied to the lost helper is kept.
KeyboardLostQuietly(d, survives, message) ==
  IF survives /\ d.s.audioReady /\ CaptureModeFor(d.s.phase) # "off" /\ d.s.phase # "inserting"
  THEN Dispatch([d EXCEPT !.nativeCaptureLost = TRUE], KeyboardDisconnected(d.s))
  ELSE IF d.s.phase # "idle" THEN AbortSession(d, FALSE)
  ELSE d

\* The readiness handler; a crash, or a start anew, is one the session may
\* survive, and some reasons have no message.
KeyboardLost(d, survives, message) ==
  LET asked == Ask([d EXCEPT !.rec = MarkAppliedUnknown(@)], "off")
  IN  IF survives /\ d.s.audioReady /\ CaptureModeFor(d.s.phase) # "off" /\ d.s.phase # "inserting"
      THEN Dispatch([asked EXCEPT !.nativeCaptureLost = TRUE], KeyboardDisconnected(asked.s))
      ELSE IF message THEN ReportOperationalFailure(asked)
      ELSE IF d.s.phase # "idle" THEN AbortSession(asked, FALSE)
      ELSE asked

Resetting == c.rec.call # NoCall /\ c.rec.call.kind = "reset" /\ ~c.rec.call.served

\* A paste that the helper has not finished goes with it.
HelperGoes(survives, message) ==
  /\ up
  /\ up' = FALSE
  /\ wire' = <<>>
  /\ held' = FALSE
  /\ paste' = CASE paste = "sent" -> "none" [] paste = "pasted" -> "answered" [] OTHER -> paste
  /\ LET left == IF Resetting THEN [c EXCEPT !.rec.call.served = TRUE] ELSE c
     IN  Becomes(KeyboardLost(left, survives, message))
  /\ UNCHANGED <<native, mic, grant, stream>>

HelperResets == Resetting /\ HelperGoes(TRUE, FALSE) /\ UNCHANGED plan

HelperLost == Fault("helper") /\ \E survives, message \in BOOLEAN : HelperGoes(survives, message)

HelperReady ==
  /\ ~up
  /\ ~Setting(c.rec)
  /\ ~Running("insert", "pasting")
  /\ up' = TRUE
  /\ native' = "off"
  /\ Becomes(IF c.disposed THEN c ELSE Ask(c, CaptureModeFor(c.s.phase)))
  /\ UNCHANGED <<wire, held, mic, grant, stream, paste, plan>>

-----------------------------------------------------------------------------
Init ==
  /\ c = NewContext
  /\ native = "off"
  /\ wire = <<>>
  /\ up = TRUE
  /\ held = FALSE
  /\ mic = [k \in SessionIds |-> "none"]
  /\ grant = [k \in SessionIds |-> "none"]
  /\ stream = [k \in SessionIds |-> "none"]
  /\ paste = "none"
  /\ plan \in Plans

EffectStep ==
  \/ BeginStartCapture
  \/ OpenCapture
  \/ WidgetFails
  \/ CaptureOpened
  \/ CaptureOpenFails
  \/ EffectAborted
  \/ BeginExtended
  \/ StreamOpened
  \/ BeginTranscribe
  \/ CaptureStopped
  \/ Inferred
  \/ InferenceFails
  \/ BeginSmart
  \/ Processed
  \/ BeginInsert
  \/ PasteRejected
  \/ PasteSettles
  \/ BeginTeardown
  \/ TeardownStopped
  \/ Release

EventStep ==
  \/ ResetTimerFires
  \/ Cancel
  \/ SubmitSession
  \/ HoldElapses
  \/ NoFirstAudio
  \/ StopTimesOut
  \/ ProfileSyncEnds
  \/ BeginSessionShutdown
  \/ ContinueShutdown

ResourceStep ==
  \E k \in SessionIds :
    \/ MicrophoneOpens(k)
    \/ MicrophoneFails(k)
    \/ MicrophoneStops(k)
    \/ MicrophoneLost(k)
    \/ FirstFrame(k)
    \/ GrantSettles(k)
    \/ StreamSettles(k)
    \/ StreamBreaks(k)

HelperStep ==
  \/ Press
  \/ ReleaseShortcut
  \/ Serve
  \/ Paste
  \/ Read
  \/ CallSettles
  \/ HelperResets
  \/ HelperLost
  \/ HelperReady

Next == EffectStep \/ EventStep \/ ResourceStep \/ HelperStep

Spec == Init /\ [][Next]_vars

=============================================================================
