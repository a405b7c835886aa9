---------------------------- MODULE EchoProofs ----------------------------
(***************************************************************************)
(* Proof that a dictation session uses the reconciler and the helper as    *)
(* CaptureHelper has it, step by step, and so that the session's           *)
(* captureOffGuaranteed is the truth too; that what it shows and records   *)
(* of its paste is what happened; and that a session that is over holds    *)
(* neither the microphone nor the model nor a stream.                      *)
(*                                                                         *)
(* For the first, only the reconciler and the end of the application       *)
(* matter of the context.  One turn of the application notes a new session *)
(* or the end at most once, before it asks for a mode or two: Notes and    *)
(* Asks say so of each of the session's operations on the context.         *)
(*                                                                         *)
(* The others need to know where a session is: which effects can still be  *)
(* waiting in each of its phases, and who has the capture.  Orderly says   *)
(* so of the context alone; Held and Pasting say what it means for the     *)
(* microphone, the model, the stream and the paste.  Since the effects run *)
(* in one order, an effect that ends leaves only later ones behind it,     *)
(* which is why no effect can begin twice, none can find the microphone    *)
(* given up and open again, and none but the insertion can still be        *)
(* running when the paste's notices arrive.                                *)
(***************************************************************************)
EXTENDS EchoProperties, CaptureProofs, SequenceTheorems, WellFoundedInduction

\* The fields of a context.
ContextFields == DOMAIN NewContext

\* The context has its fields, and no others.
IsContext(d) == d = [field \in ContextFields |-> d[field]]

\* The operation that makes e of d has left the reconciler and the end alone.
Keeps(d, e) == IsContext(e) /\ e.rec = d.rec /\ e.disposed = d.disposed

\* It may have asked for a mode.
Asks(d, e) == IsContext(e) /\ e.rec \in Asked(d.rec) /\ e.disposed = d.disposed

\* It may have asked for a mode, or begun a session.
Notes(d, e) ==
  /\ IsContext(e)
  /\ e.rec \in Asked(d.rec) \cup {BeginGeneration(d.rec)}
  /\ e.disposed = d.disposed

\* What the helper writes beside presses and answers.
EchoNotices == {"up", "committed", "submitted", "rejected", "indeterminate"}

-----------------------------------------------------------------------------
(* The operations on the context                                           *)

\* The fields of a context.
LEMMA FieldsOf == ContextFields =
  {"s", "queue", "stage", "signal", "hwait", "mwait", "aborted", "owner", "captureId",
   "captureOpening", "stopCompleted", "nativeCaptureLost", "active", "teardownComplete",
   "resetTimer", "pendingError", "written", "committed", "disposed", "shutdown", "rec"}
BY DEF ContextFields, NewContext

\* What keeps the reconciler asks for nothing, and notes nothing.
LEMMA KeepsAsks == ASSUME NEW d, NEW e, Keeps(d, e) PROVE Asks(d, e)
BY DEF Keeps, Asks, Asked

\* What asks takes note too.
LEMMA AsksNotes == ASSUME NEW d, NEW e, Asks(d, e) PROVE Notes(d, e)
BY DEF Asks, Notes

\* Other fields than these two may change at will.
LEMMA FieldChange ==
  ASSUME NEW d, IsContext(d), NEW field \in ContextFields, field \notin {"rec", "disposed"}, NEW value
  PROVE  Keeps(d, [d EXCEPT ![field] = value])
BY FieldsOf DEF Keeps, IsContext

\* A request for a mode.
LEMMA AskAsks ==
  ASSUME NEW d, IsContext(d), NEW mode \in Modes
  PROVE  Asks(d, Ask(d, mode)) /\ Ask(d, mode).s = d.s
BY FieldsOf DEF Ask, Asks, Asked, IsContext

\* Every phase has a mode.
LEMMA ModeIsMode == ASSUME NEW phase PROVE CaptureModeFor(phase) \in Modes
BY DEF CaptureModeFor, Modes

\* Waiting for a mode asks for it.
LEMMA AwaitAsks ==
  ASSUME NEW d, IsContext(d), NEW mode \in Modes
  PROVE  Asks(d, Await(d, mode))
<1>1. Asks(d, Ask(d, mode))
  BY AskAsks
<1> QED BY <1>1, FieldsOf DEF Await, Asks, IsContext

\* Neither the abortion of an operation,
LEMMA AbortKeeps ==
  ASSUME NEW d, IsContext(d)
  PROVE  Keeps(d, AbortOperation(d)) /\ AbortOperation(d).s = d.s
BY FieldsOf DEF AbortOperation, Keeps, IsContext

\* nor the schedule of a reset,
LEMMA ScheduleKeeps ==
  ASSUME NEW d, IsContext(d)
  PROVE  Keeps(d, ScheduleTerminalReset(d))
BY FieldsOf DEF ScheduleTerminalReset, Keeps, IsContext

\* nor the outcome that is written,
LEMMA RecordKeeps ==
  ASSUME NEW d, NEW previous, IsContext(d)
  PROVE  Keeps(d, Record(d, previous)) /\ Record(d, previous).s = d.s
BY FieldsOf DEF Record, Keeps, IsContext

\* nor the end of an effect,
LEMMA DoneKeeps == ASSUME NEW d, IsContext(d) PROVE Keeps(d, Done(d))
BY FieldsOf DEF Done, Keeps, IsContext

\* nor its next stage,
LEMMA AtKeeps == ASSUME NEW d, NEW stage, IsContext(d) PROVE Keeps(d, At(d, stage))
BY FieldsOf DEF At, Keeps, IsContext

\* nor its signal touches the reconciler.
LEMMA TakeSignalKeeps ==
  ASSUME NEW d, IsContext(d) PROVE Keeps(d, TakeSignal(d)) /\ TakeSignal(d).s = d.s
BY FieldsOf DEF TakeSignal, Keeps, IsContext

\* The capture follows the phase; a new session begins when a press arms it.
LEMMA ManageNotes ==
  ASSUME NEW d, NEW previous, IsContext(d)
  PROVE  /\ Notes(d, Manage(d, previous))
         /\ Manage(d, previous).s = d.s
         /\ ~(previous.phase = "idle" /\ d.s.phase = "arming") => Asks(d, Manage(d, previous))
<1> DEFINE released == IF d.s.phase = "idle" \/ IsTerminal(d.s.phase)
                       THEN [d EXCEPT !.active = FALSE] ELSE d
           mode == CaptureModeFor(d.s.phase)
<1>1. Keeps(d, released) /\ released.s = d.s
  BY FieldsOf DEF Keeps, IsContext
<1>2. Manage(d, previous) = IF previous.phase = "idle" /\ d.s.phase = "arming" THEN BeginSession(released)
          ELSE IF mode # CaptureModeFor(previous.phase) THEN Ask(released, mode)
          ELSE released
  BY DEF Manage
<1>3. mode \in Modes
  BY ModeIsMode
<1> HIDE DEF released, mode
<1>4. CASE previous.phase = "idle" /\ d.s.phase = "arming"
  BY <1>1, <1>2, <1>4, FieldsOf, ZenonT(40) DEF BeginSession, Notes, Keeps, IsContext
<1>5. CASE ~(previous.phase = "idle" /\ d.s.phase = "arming")
  <2>1. Asks(released, Manage(d, previous)) /\ Manage(d, previous).s = released.s
    BY <1>1, <1>2, <1>3, <1>5, AskAsks, KeepsAsks DEF Keeps
  <2>2. Asks(d, Manage(d, previous))
    BY <1>1, <2>1 DEF Asks, Keeps
  <2> QED BY <1>1, <1>5, <2>1, <2>2, AsksNotes
<1> QED BY <1>4, <1>5

\* A transition of the reducer.
LEMMA DispatchNotes ==
  ASSUME NEW d, NEW transition, IsContext(d)
  PROVE  /\ Notes(d, Dispatch(d, transition))
         /\ Dispatch(d, transition).s = transition.state
         /\ ~(d.s.phase = "idle" /\ transition.state.phase = "arming") => Asks(d, Dispatch(d, transition))
<1> DEFINE previous == d.s
           next == transition.state
           failed == IF next.phase = "error" /\ previous.phase # "error"
                     THEN AbortOperation(d) ELSE d
           renewed == IF next.phase = "transcribing" /\ ~d.captureId
                      THEN [AbortOperation(failed) EXCEPT !.aborted = FALSE] ELSE failed
           entered == [renewed EXCEPT !.s = next]
           managed == Manage(entered, previous)
           moved == Record(managed, previous)
           queued == [moved EXCEPT !.queue = @ \o transition.effects]
<1>1. Keeps(d, failed)
  BY AbortKeeps DEF Keeps, IsContext
<1>2. Keeps(d, renewed)
  <2>1. Keeps(failed, AbortOperation(failed))
    BY <1>1, AbortKeeps DEF Keeps
  <2> HIDE DEF failed
  <2> QED BY <1>1, <2>1, FieldsOf DEF Keeps, IsContext
<1> HIDE DEF renewed
<1>3. Keeps(d, entered) /\ entered.s = next
  BY <1>2, FieldsOf DEF Keeps, IsContext
<1> HIDE DEF entered
<1>4. /\ Notes(entered, managed) /\ managed.s = next
      /\ ~(previous.phase = "idle" /\ next.phase = "arming") => Asks(entered, managed)
  BY <1>3, ManageNotes DEF Keeps
<1> HIDE DEF managed
<1>5. Keeps(managed, moved) /\ moved.s = next
  BY <1>4, RecordKeeps DEF Notes
<1> HIDE DEF moved
<1>6. Keeps(moved, queued) /\ queued.s = next
  BY <1>5, FieldsOf DEF Keeps, IsContext
<1>7. Keeps(queued, ScheduleTerminalReset(queued)) /\ ScheduleTerminalReset(queued).s = queued.s
  <2> HIDE DEF queued
  <2>1. IsContext(queued)
    BY <1>6 DEF Keeps
  <2> QED BY <2>1, ScheduleKeeps, FieldsOf DEF ScheduleTerminalReset, IsContext
<1>8. Dispatch(d, transition) = IF next = previous /\ transition.effects = <<>> THEN d
          ELSE IF next.phase = "error" /\ next.id = 0 /\ previous.phase = "idle"
          THEN ScheduleTerminalReset(queued)
          ELSE queued
  BY DEF Dispatch, renewed, entered, managed, moved
<1> HIDE DEF queued
<1>9. CASE Dispatch(d, transition) = d /\ next = previous
  BY <1>9, KeepsAsks, AsksNotes DEF Keeps
<1>10. CASE Dispatch(d, transition) \in {queued, ScheduleTerminalReset(queued)}
  <2>1. /\ Dispatch(d, transition).rec = managed.rec
        /\ Dispatch(d, transition).disposed = managed.disposed
        /\ IsContext(Dispatch(d, transition))
        /\ Dispatch(d, transition).s = next
    BY <1>5, <1>6, <1>7, <1>10 DEF Keeps
  <2>2. Notes(d, Dispatch(d, transition)) /\ (Asks(entered, managed) => Asks(d, Dispatch(d, transition)))
    BY <1>3, <1>4, <2>1 DEF Keeps, Notes, Asks
  <2> QED BY <1>4, <2>1, <2>2
<1> QED BY <1>8, <1>9, <1>10

-----------------------------------------------------------------------------
(* One after the other                                                     *)

\* Operations that keep the reconciler may come before and after any other.
LEMMA Chained ==
  ASSUME NEW d, NEW e, NEW f
  PROVE  /\ Keeps(d, e) /\ Keeps(e, f) => Keeps(d, f)
         /\ Keeps(d, e) /\ Asks(e, f) => Asks(d, f)
         /\ Asks(d, e) /\ Keeps(e, f) => Asks(d, f)
         /\ Keeps(d, e) /\ Notes(e, f) => Notes(d, f)
         /\ Notes(d, e) /\ Keeps(e, f) => Notes(d, f)
BY DEF Keeps, Asks, Notes

\* An effect that throws ends a session that is not over.
LEMMA ThrowsAsks ==
  ASSUME NEW d, NEW abortError, IsContext(d)
  PROVE  Asks(d, Throws(d, abortError))
<1> DEFINE aborted == AbortOperation(d)
           failed == Dispatch(aborted, Fail(d.s))
<1>1. Keeps(d, aborted) /\ aborted.s = d.s
  BY AbortKeeps
<1> HIDE DEF aborted
<1>2. CASE Throws(d, abortError) = Done(d)
  BY <1>2, DoneKeeps, KeepsAsks
<1>3. CASE Throws(d, abortError) = Done(failed) /\ d.s.phase # "idle"
  <2>1. Asks(d, failed)
    BY <1>1, <1>3, DispatchNotes, Chained DEF Keeps
  <2> HIDE DEF failed
  <2> QED BY <1>3, <2>1, DoneKeeps, Chained DEF Asks
<1> QED BY <1>2, <1>3 DEF Throws, Over, aborted

\* A failure of the operation in hand, or one that waits for the session's end.
LEMMA ReportAsks ==
  ASSUME NEW d, IsContext(d)
  PROVE  Asks(d, ReportOperationalFailure(d))
<1> DEFINE aborted == AbortOperation(d)
           noted == [d EXCEPT !.pendingError = TRUE]
<1>1. Keeps(d, aborted) /\ aborted.s = d.s
  BY AbortKeeps
<1>2. Keeps(d, noted) /\ Keeps(d, d)
  BY FieldsOf DEF Keeps, IsContext
<1>3. d.s.phase # "idle" => Asks(d, Dispatch(aborted, Fail(d.s)))
  <2> HIDE DEF aborted
  <2> QED BY <1>1, DispatchNotes, Chained DEF Keeps
<1>4. d.s.phase = "idle" => Asks(d, Dispatch(d, OperationalFailure(d.s)))
  <2>1. d.s.phase = "idle" => OperationalFailure(d.s).state.phase = "error"
    BY DEF OperationalFailure, Stay, To, IdleSession
  <2> QED BY <2>1, DispatchNotes
<1> QED BY <1>2, <1>3, <1>4, KeepsAsks DEF ReportOperationalFailure

\* The end of a session, whoever asks for it.
LEMMA AbortSessionAsks ==
  ASSUME NEW d, NEW provider, IsContext(d)
  PROVE  Asks(d, AbortSession(d, provider))
<1> DEFINE aborted == AbortOperation(d)
           renewed == [aborted EXCEPT !.aborted = FALSE]
<1>1. Keeps(d, aborted) /\ aborted.s = d.s
  BY AbortKeeps
<1>2. Keeps(d, renewed) /\ renewed.s = d.s
  <2> HIDE DEF aborted
  <2> QED BY <1>1, FieldsOf DEF Keeps, IsContext
<1>3. d.s.phase = "idle" => Abort(d.s, provider).state = d.s
  BY DEF Abort, Stay, To
<1>4. \A e : Keeps(d, e) /\ e.s = d.s => Asks(d, Dispatch(e, Abort(d.s, provider)))
  BY <1>3, DispatchNotes, Chained DEF Keeps
<1>5. AbortSession(d, provider) \in
        {Dispatch(aborted, Abort(d.s, provider)), Dispatch(renewed, Abort(d.s, provider))}
  BY DEF AbortSession
<1> HIDE DEF aborted, renewed
<1> QED BY <1>1, <1>2, <1>4, <1>5

\* The answer to a paste, which some other end may have overtaken.
LEMMA PasteAnsweredNotes ==
  ASSUME NEW d, NEW answer, IsContext(d)
  PROVE  Notes(d, PasteAnswered(d, answer))
<1> DEFINE committed == [d EXCEPT !.committed = TRUE]
<1>1. Keeps(d, committed)
  BY FieldsOf DEF Keeps, IsContext
<1> HIDE DEF committed
<1>2. \A t, stage : Notes(d, At(Dispatch(committed, t), stage))
  <2> TAKE t, stage
  <2>1. Notes(d, Dispatch(committed, t))
    BY <1>1, DispatchNotes, Chained DEF Keeps
  <2> QED BY <2>1, AtKeeps, Chained DEF Notes
<1>3. \A t : Notes(d, Done(Dispatch(d, t)))
  BY DispatchNotes, DoneKeeps, Chained DEF Notes
<1> QED BY <1>2, <1>3 DEF PasteAnswered, committed

-----------------------------------------------------------------------------
(* The turns of the session                                                *)

\* The inductive invariant: the reconciler and the helper agree, and between
\* two steps the former is at rest.
Invariant ==
  /\ IsContext(c)
  /\ Agree(c.rec, native, wire, up, EchoNotices)
  /\ AtRest(c.rec)
  /\ c.disposed => c.rec.disposed

\* A turn that neither the helper nor its messages take part in.
Turns ==
  /\ UNCHANGED <<native, wire, up>>
  /\ Turned(c.rec, c'.rec)
  /\ IsContext(c')
  /\ c'.disposed => c'.rec.disposed

\* What a turn leaves of the context.
LEMMA Became ==
  ASSUME NEW d, IsContext(d), Becomes(d)
  PROVE  IsContext(c') /\ c'.rec = Reconcile(d.rec) /\ c'.disposed = d.disposed
<1> DEFINE e == [d EXCEPT !.rec = Reconcile(@)]
<1>1. IsContext(e) /\ e.rec = Reconcile(d.rec) /\ e.disposed = d.disposed
  BY FieldsOf DEF IsContext
<1>2. c' = Woken(e, c.rec)
  BY DEF Becomes
<1> HIDE DEF e
<1> QED BY <1>1, <1>2, FieldsOf DEF Woken, IsContext

\* Whatever the turn did before its last operation asked for a mode.
LEMMA TurnsOver ==
  ASSUME NEW d, NEW e, NEW f, Notes(d, e), Asks(e, f), Becomes(f)
  PROVE  IsContext(c') /\ Turned(d.rec, c'.rec) /\ c'.disposed = d.disposed
<1>1. IsContext(c') /\ c'.rec = Reconcile(f.rec) /\ c'.disposed = d.disposed
  BY Became DEF Notes, Asks
<1>2. \E noted \in {d.rec, BeginGeneration(d.rec)} : \E first \in Asked(noted) : e.rec = first
  BY DEF Notes, Asked
<1>3. f.rec \in Asked(e.rec)
  BY DEF Asks
<1> QED BY <1>1, <1>2, <1>3 DEF Turned

\* Such a turn of the context that is there.
LEMMA TurnsBy ==
  ASSUME Invariant, NEW d, NEW e, Notes(c, d), Asks(d, e), Becomes(e), UNCHANGED <<native, wire, up>>
  PROVE  Turns
<1>1. IsContext(c') /\ Turned(c.rec, c'.rec) /\ c'.disposed = c.disposed
  BY TurnsOver
<1>2. c.rec.disposed => c'.rec.disposed
  BY <1>1, TurnedSound DEF Invariant, Agree, Follows
<1> QED BY <1>1, <1>2 DEF Turns, Invariant

\* A step that takes note turns the reconciler once.
LEMMA TurnsOnce ==
  ASSUME Invariant, NEW d, Notes(c, d), Becomes(d), UNCHANGED <<native, wire, up>>
  PROVE  Turns
<1>1. Asks(d, d)
  BY KeepsAsks DEF Keeps, Notes
<1> QED BY <1>1, TurnsBy

\* A turn that does not ask anything.
LEMMA TurnsNot ==
  ASSUME Invariant, Keeps(c, c'), UNCHANGED <<native, wire, up>>
  PROVE  Turns
BY RestTurns DEF Invariant, Turns, Keeps

\* The effects: each asks for a mode at most, after what its session's event
\* has begun.
LEMMA EffectTurns == ASSUME Invariant, EffectStep PROVE Turns
<1>0. IsContext(c) /\ Keeps(c, c) /\ Notes(c, c)
  BY KeepsAsks, AsksNotes DEF Invariant, Keeps
<1> DEFINE d == TakeSignal(c)
<1>1. Keeps(c, d) /\ Notes(c, d) /\ IsContext(d)
  BY <1>0, TakeSignalKeeps, KeepsAsks, AsksNotes DEF Keeps
<1> HIDE DEF d
<1>2. \A e : IsContext(e) => Asks(e, Done(e))
  BY DoneKeeps, KeepsAsks
<1>3. \A e, stage : IsContext(e) => Asks(e, At(e, stage))
  BY AtKeeps, KeepsAsks
<1>4. \A e, t : Keeps(c, e) => Notes(c, Dispatch(e, t)) /\ IsContext(Dispatch(e, t))
  BY DispatchNotes, Chained DEF Keeps, Notes
<1>5. CASE BeginStartCapture
  <2>1. \E e : Asks(d, e) /\ Becomes(e)
    BY <1>1, <1>2, <1>3, <1>5, ThrowsAsks DEF BeginStartCapture, d
  <2> QED BY <1>1, <1>5, <2>1, TurnsBy DEF BeginStartCapture
<1>6. CASE OpenCapture
  <2> DEFINE asked == Await(c, "recording")
             opening == [asked EXCEPT !.captureOpening = TRUE]
  <2>1. Asks(c, asked)
    BY <1>0, AwaitAsks DEF Modes
  <2> HIDE DEF asked
  <2>2. Keeps(asked, opening)
    BY <2>1, FieldsOf DEF Asks, Keeps, IsContext
  <2> HIDE DEF opening
  <2>3. Asks(opening, At(opening, "opening")) /\ Notes(c, opening)
    BY <1>3, <2>1, <2>2, Chained, AsksNotes DEF Keeps
  <2>4. \E e : Notes(c, e) /\ (\E f : Asks(e, f) /\ Becomes(f))
    BY <1>0, <1>2, <1>6, <2>3 DEF OpenCapture, opening, asked
  <2> QED BY <1>6, <2>4, TurnsBy DEF OpenCapture
<1>7. CASE WidgetFails \/ CaptureOpenFails \/ EffectAborted \/ StreamOpened \/ InferenceFails
  <2>1. \E e : Asks(c, e) /\ Becomes(e)
    BY <1>0, <1>2, <1>7, ThrowsAsks
    DEF WidgetFails, CaptureOpenFails, EffectAborted, StreamOpened, InferenceFails
  <2> QED
    BY <1>7, <2>1, AsksNotes, TurnsOnce
    DEF WidgetFails, CaptureOpenFails, EffectAborted, StreamOpened, InferenceFails
<1>8. CASE CaptureOpened
  <2>1. \E e : Notes(c, e) /\ (\E f : Asks(e, f) /\ Becomes(f))
    BY <1>0, <1>2, <1>4, <1>8 DEF CaptureOpened
  <2> QED BY <1>8, <2>1, TurnsBy DEF CaptureOpened
<1>9. CASE BeginExtended
  <2>1. \E e : Asks(d, e) /\ Becomes(e)
    BY <1>1, <1>3, <1>9, ThrowsAsks DEF BeginExtended, d
  <2> QED BY <1>1, <1>9, <2>1, TurnsBy DEF BeginExtended
<1>10. \A e : Keeps(c, e) /\ StopCapture(e) /\ UNCHANGED <<native, wire, up>> => Turns
  <2> SUFFICES ASSUME NEW e, Keeps(c, e), StopCapture(e), UNCHANGED <<native, wire, up>> PROVE Turns
    OBVIOUS
  <2> DEFINE asked == Await(e, CaptureModeFor(e.s.phase))
             waits == [asked EXCEPT !.mwait = IF Stops(e) THEN "waiting" ELSE "ok"]
  <2>1. Asks(e, asked)
    BY ModeIsMode, AwaitAsks DEF Keeps
  <2> HIDE DEF asked
  <2>2. Keeps(asked, waits)
    BY <2>1, FieldsOf DEF Asks, Keeps, IsContext
  <2> HIDE DEF waits
  <2>3. Notes(c, waits) /\ Asks(waits, At(waits, "stopping"))
    BY <1>3, <2>1, <2>2, Chained, AsksNotes DEF Keeps
  <2>4. Becomes(At(waits, "stopping"))
    BY DEF StopCapture, waits, asked
  <2> QED BY <2>3, <2>4, TurnsBy
<1>11. CASE BeginTranscribe
  BY <1>1, <1>10, <1>11 DEF BeginTranscribe, d
<1>12. CASE CaptureStopped
  <2> DEFINE stopped == Stopped(c)
  <2>1. Keeps(c, stopped)
    BY <1>0, FieldsOf DEF Stopped, Keeps, IsContext
  <2> HIDE DEF stopped
  <2>2. Keeps(stopped, TakeSignal(stopped))
    BY <2>1, TakeSignalKeeps DEF Keeps
  <2>3. \A e : Keeps(c, e) => Notes(c, e) /\ IsContext(e)
    BY KeepsAsks, AsksNotes DEF Keeps
  <2>4. Keeps(c, TakeSignal(stopped))
    BY <2>1, <2>2, Chained
  <2>5. \E e : Keeps(c, e) /\ (\E f : Asks(e, f) /\ Becomes(f))
    BY <1>3, <1>12, <2>1, <2>3, <2>4, ThrowsAsks DEF CaptureStopped, stopped
  <2> QED BY <1>12, <2>3, <2>5, TurnsBy DEF CaptureStopped
<1>13. CASE Inferred
  <2>1. \E e : Notes(c, e) /\ (\E f : Asks(e, f) /\ Becomes(f))
    BY <1>0, <1>2, <1>4, <1>13 DEF Inferred
  <2> QED BY <1>13, <2>1, TurnsBy DEF Inferred
<1>14. CASE BeginSmart
  <2>1. \E e : Notes(c, e) /\ (\E f : Asks(e, f) /\ Becomes(f))
    BY <1>0, <1>1, <1>2, <1>3, <1>4, <1>14 DEF BeginSmart, d
  <2> QED BY <1>14, <2>1, TurnsBy DEF BeginSmart
<1>15. CASE Processed
  <2>1. Notes(c, AbortSession(c, TRUE)) /\ IsContext(AbortSession(c, TRUE))
    BY <1>0, AbortSessionAsks, AsksNotes DEF Notes
  <2>2. \E e : Notes(c, e) /\ (\E f : Asks(e, f) /\ Becomes(f))
    BY <1>0, <1>2, <1>4, <1>15, <2>1 DEF Processed
  <2> QED BY <1>15, <2>2, TurnsBy DEF Processed
<1>16. CASE BeginInsert
  <2>1. \E e : Notes(c, e) /\ (\E f : Asks(e, f) /\ Becomes(f))
    BY <1>1, <1>2, <1>3, <1>4, <1>16 DEF BeginInsert, d
  <2> QED BY <1>16, <2>1, TurnsBy DEF BeginInsert
<1>17. CASE PasteRejected
  BY <1>0, <1>17, PasteAnsweredNotes, TurnsOnce DEF PasteRejected
<1>18. CASE PasteSettles
  <2>1. \E e : Notes(c, e) /\ (\E f : Asks(e, f) /\ Becomes(f))
    BY <1>0, <1>2, <1>4, <1>18 DEF PasteSettles
  <2> QED BY <1>18, <2>1, TurnsBy DEF PasteSettles
<1>19. CASE BeginTeardown
  <2> DEFINE closing == [d EXCEPT !.owner = IF @ = "none" THEN @ ELSE "closing", !.resetTimer = FALSE]
  <2>1. Keeps(c, closing)
    BY <1>1, FieldsOf DEF Keeps, IsContext
  <2> HIDE DEF closing
  <2>2. CASE c.teardownComplete /\ c.rec.off
    BY <1>0, <1>2, <1>19, <2>2, TurnsBy DEF BeginTeardown
  <2>3. CASE ~(c.teardownComplete /\ c.rec.off)
    BY <1>10, <1>19, <2>1, <2>3 DEF BeginTeardown, closing, d
  <2> QED BY <2>2, <2>3
<1>20. CASE TeardownStopped
  <2> DEFINE stopped == Stopped(c)
  <2>1. Keeps(c, stopped)
    BY <1>0, FieldsOf DEF Stopped, Keeps, IsContext
  <2> HIDE DEF stopped
  <2>2. Notes(c, stopped) /\ Asks(stopped, At(stopped, "releasing"))
    BY <1>3, <2>1, KeepsAsks, AsksNotes DEF Keeps
  <2> QED BY <1>20, <2>2, TurnsBy DEF TeardownStopped, stopped
<1>21. CASE Release
  <2> DEFINE released == [c EXCEPT !.owner = "none", !.captureId = FALSE, !.stopCompleted = FALSE,
                                   !.teardownComplete = TRUE]
             scheduled == ScheduleTerminalReset(released)
  <2>1. Keeps(c, released)
    BY <1>0, FieldsOf DEF Keeps, IsContext
  <2> HIDE DEF released
  <2>2. Keeps(released, scheduled)
    BY <2>1, ScheduleKeeps DEF Keeps
  <2> HIDE DEF scheduled
  <2>3. Notes(c, scheduled) /\ Asks(scheduled, Done(scheduled))
    BY <1>2, <2>1, <2>2, Chained, KeepsAsks, AsksNotes DEF Keeps
  <2> QED BY <1>21, <2>3, TurnsBy DEF Release, scheduled, released
<1> QED
  BY <1>5, <1>6, <1>7, <1>8, <1>9, <1>11, <1>12, <1>13, <1>14, <1>15, <1>16, <1>17, <1>18, <1>19, <1>20, <1>21
  DEF EffectStep

\* The user, the timers and the end of the application.
LEMMA EventTurns == ASSUME Invariant, EventStep PROVE Turns
<1>0. IsContext(c) /\ Keeps(c, c)
  BY DEF Invariant, Keeps
<1>1. CASE ResetTimerFires
  <2> DEFINE d == [c EXCEPT !.resetTimer = FALSE]
             idle == Dispatch(d, Stay(IdleSession))
             spent == [idle EXCEPT !.pendingError = FALSE]
  <2>1. Keeps(c, d)
    BY <1>0, FieldsOf DEF Keeps, IsContext
  <2> HIDE DEF d
  <2>2. Asks(d, idle)
    <3>1. Stay(IdleSession).state.phase = "idle"
      BY DEF Stay, To, IdleSession
    <3> QED BY <2>1, <3>1, DispatchNotes DEF Keeps
  <2> HIDE DEF idle
  <2>3. Keeps(idle, spent)
    BY <2>2, FieldsOf DEF Asks, Keeps, IsContext
  <2> HIDE DEF spent
  <2>4. Asks(spent, ReportOperationalFailure(spent)) /\ Asks(idle, idle)
    BY <2>2, <2>3, ReportAsks, KeepsAsks DEF Asks, Keeps
  <2>5. Asks(idle, DispatchReset(d))
    BY <2>3, <2>4, Chained DEF DispatchReset, idle, spent
  <2>6. Notes(c, idle)
    BY <2>1, <2>2, Chained, AsksNotes
  <2>7. Keeps(d, ScheduleTerminalReset(d))
    BY <2>1, ScheduleKeeps DEF Keeps
  <2>8. Notes(c, ScheduleTerminalReset(d))
    BY <2>1, <2>7, Chained, KeepsAsks, AsksNotes
  <2>9. CASE Becomes(DispatchReset(d))
    BY <1>1, <2>5, <2>6, <2>9, TurnsBy DEF ResetTimerFires
  <2>10. CASE Becomes(ScheduleTerminalReset(d))
    BY <1>1, <2>8, <2>10, TurnsOnce DEF ResetTimerFires
  <2> QED BY <1>1, <2>9, <2>10 DEF ResetTimerFires, d
<1>2. CASE Cancel
  BY <1>0, <1>2, AbortSessionAsks, AsksNotes, TurnsOnce DEF Cancel
<1>3. CASE SubmitSession \/ HoldElapses
  <2>1. \A t : Notes(c, Dispatch(c, t))
    BY <1>0, DispatchNotes
  <2> QED BY <1>3, <2>1, TurnsOnce DEF SubmitSession, HoldElapses
<1>4. CASE NoFirstAudio
  <2>1. Notes(c, Dispatch(AbortOperation(c), Fail(c.s)))
    BY <1>0, AbortKeeps, DispatchNotes, Chained DEF Keeps
  <2> QED BY <1>4, <2>1, TurnsOnce DEF NoFirstAudio
<1>5. CASE StopTimesOut
  <2>1. Keeps(c, c')
    BY <1>0, <1>5, FieldsOf DEF StopTimesOut, Keeps, IsContext
  <2> QED BY <1>5, <2>1, TurnsNot DEF StopTimesOut
<1>6. CASE ProfileSyncEnds
  <2>1. UNCHANGED <<native, wire, up>>
    BY <1>6 DEF ProfileSyncEnds
  <2>2. CASE c' = [c EXCEPT !.pendingError = FALSE]
    <3>1. Keeps(c, c')
      BY <1>0, <2>2, FieldsOf DEF Keeps, IsContext
    <3> QED BY <2>1, <3>1, TurnsNot
  <2>3. CASE Becomes(ReportOperationalFailure(c))
    BY <1>0, <2>1, <2>3, ReportAsks, AsksNotes, TurnsOnce
  <2> QED BY <1>6, <2>2, <2>3 DEF ProfileSyncEnds
<1>7. CASE BeginSessionShutdown
  <2> DEFINE ending == [c EXCEPT !.disposed = TRUE, !.shutdown = "draining",
                                 !.rec = BeginShutdown(@), !.resetTimer = FALSE]
             d == AbortOperation(ending)
             over == Dispatch(d, Abort(d.s, FALSE))
  <2>1. IsContext(ending) /\ ending.rec = BeginShutdown(c.rec) /\ ending.disposed = TRUE
    BY <1>0, FieldsOf DEF IsContext
  <2> HIDE DEF ending
  <2>2. Keeps(ending, d)
    BY <2>1, AbortKeeps
  <2> HIDE DEF d
  <2>3. Asks(d, over)
    <3>1. d.s.phase = "idle" => Abort(d.s, FALSE).state = d.s
      BY DEF Abort, Stay, To
    <3> QED BY <2>2, <3>1, DispatchNotes DEF Keeps
  <2> HIDE DEF over
  <2>4. Becomes(over) /\ UNCHANGED <<native, wire, up>>
    BY <1>7 DEF BeginSessionShutdown, over, d, ending
  <2>5. IsContext(c') /\ c'.rec = Reconcile(over.rec)
    BY <2>3, <2>4, Became DEF Asks
  <2>6. Turned(c.rec, c'.rec)
    BY <2>1, <2>2, <2>3, <2>5 DEF Turned, Asks, Keeps, Asked
  <2>7. c'.rec.disposed
    <3>1. Sound(c.rec) /\ Sound(BeginShutdown(c.rec))
      BY NotedSound DEF Invariant, Agree
    <3>2. BeginShutdown(c.rec).disposed
      BY <3>1 DEF BeginShutdown, Sound, Reconcilers, Revise
    <3>3. Turned(BeginShutdown(c.rec), c'.rec)
      BY <2>1, <2>2, <2>3, <2>5 DEF Turned, Asks, Keeps, Asked
    <3> QED BY <3>1, <3>2, <3>3, TurnedSound DEF Follows
  <2> QED BY <2>4, <2>5, <2>6, <2>7 DEF Turns
<1>8. CASE ContinueShutdown
  <2>1. Keeps(c, c')
    BY <1>0, <1>8, FieldsOf DEF ContinueShutdown, Keeps, IsContext
  <2> QED BY <1>8, <2>1, TurnsNot DEF ContinueShutdown
<1> QED BY <1>1, <1>2, <1>3, <1>4, <1>5, <1>6, <1>7, <1>8 DEF EventStep

\* The microphone, the lease on the model and the stream.
LEMMA ResourceTurns == ASSUME Invariant, ResourceStep PROVE Turns
<1>0. IsContext(c) /\ Keeps(c, c)
  BY DEF Invariant, Keeps
<1>1. PICK k \in SessionIds :
        \/ MicrophoneOpens(k) \/ MicrophoneFails(k) \/ MicrophoneStops(k) \/ MicrophoneLost(k)
        \/ FirstFrame(k) \/ GrantSettles(k) \/ StreamSettles(k) \/ StreamBreaks(k)
  BY DEF ResourceStep
<1>2. CASE MicrophoneOpens(k) \/ MicrophoneFails(k) \/ MicrophoneStops(k) \/ GrantSettles(k) \/ StreamSettles(k)
  <2>1. Keeps(c, c')
    BY <1>0, <1>2, FieldsOf
    DEF MicrophoneOpens, MicrophoneFails, MicrophoneStops, GrantSettles, StreamSettles, Keeps, IsContext
  <2> QED
    BY <1>2, <2>1, TurnsNot
    DEF MicrophoneOpens, MicrophoneFails, MicrophoneStops, GrantSettles, StreamSettles
<1>3. CASE MicrophoneLost(k) \/ FirstFrame(k) \/ StreamBreaks(k)
  <2>1. \A t : Notes(c, Dispatch(c, t))
    BY <1>0, DispatchNotes
  <2>2. Notes(c, c)
    BY <1>0, KeepsAsks, AsksNotes
  <2>3. \E d : Notes(c, d) /\ Becomes(d)
    BY <1>3, <2>1, <2>2 DEF MicrophoneLost, FirstFrame, StreamBreaks
  <2> QED BY <1>3, <2>3, TurnsOnce DEF MicrophoneLost, FirstFrame, StreamBreaks
<1> QED BY <1>1, <1>2, <1>3

-----------------------------------------------------------------------------
(* The helper and its messages                                             *)

\* CaptureHelper's operators are the reconciler's.
LEMMA SameOperators ==
  /\ \A r, after : CaptureImplementation!Turned(r, after) <=> Turned(r, after)
  /\ \A r, answer : CaptureImplementation!Settled(r, answer) = Settled(r, answer)
  /\ \A r, reset : CaptureImplementation!Retried(r, reset) = Retried(r, reset)
  /\ \A r : CaptureImplementation!MarkNativeCaptureArmed(r) = MarkNativeCaptureArmed(r)
  /\ \A r : CaptureImplementation!MarkAppliedUnknown(r) = MarkAppliedUnknown(r)
  /\ \A r : CaptureImplementation!Setting(r) <=> Setting(r)
  /\ CaptureImplementation!NewReconciler = NewReconciler
  /\ CaptureImplementation!Answers = Answers
  /\ CaptureImplementation!Activations = Activations
<1>1. /\ \A r : CaptureImplementation!Revise(r) = Revise(r)
      /\ \A kind, mode : CaptureImplementation!Call(kind, mode) = Call(kind, mode)
      /\ CaptureImplementation!Modes = Modes
  BY DEF CaptureImplementation!Revise, Revise, CaptureImplementation!Call, Call,
         CaptureImplementation!Modes, Modes
<1>2. /\ \A r : CaptureImplementation!BeginGeneration(r) = BeginGeneration(r)
      /\ \A r : CaptureImplementation!BeginShutdown(r) = BeginShutdown(r)
      /\ \A r : CaptureImplementation!MarkNativeCaptureArmed(r) = MarkNativeCaptureArmed(r)
      /\ \A r : CaptureImplementation!MarkAppliedUnknown(r) = MarkAppliedUnknown(r)
  BY <1>1, ZenonT(40)
  DEF CaptureImplementation!BeginGeneration, BeginGeneration,
      CaptureImplementation!BeginShutdown, BeginShutdown,
      CaptureImplementation!MarkNativeCaptureArmed, MarkNativeCaptureArmed,
      CaptureImplementation!MarkAppliedUnknown, MarkAppliedUnknown
<1>3. \A r, mode : CaptureImplementation!Request(r, mode) = Request(r, mode)
  BY <1>1, ZenonT(40) DEF CaptureImplementation!Request, Request, CaptureImplementation!Refused, Refused
<1>4. \A r : CaptureImplementation!Reconcile(r) = Reconcile(r)
  BY <1>1 DEF CaptureImplementation!Reconcile, Reconcile, CaptureImplementation!MayContinue, MayContinue
<1>5. \A r : CaptureImplementation!Asked(r) = Asked(r)
  BY <1>1, <1>3 DEF CaptureImplementation!Asked, Asked
<1>6. \A r, after : CaptureImplementation!Turned(r, after) <=> Turned(r, after)
  BY <1>2, <1>4, <1>5 DEF CaptureImplementation!Turned, Turned
<1>7. /\ \A r : CaptureImplementation!Returned(r) = Returned(r)
      /\ \A r : CaptureImplementation!ConfirmCaptureOff(r) = ConfirmCaptureOff(r)
  BY DEF CaptureImplementation!Returned, Returned, CaptureImplementation!ConfirmCaptureOff, ConfirmCaptureOff
<1>8. \A r : CaptureImplementation!Throw(r) = Throw(r)
  BY <1>7 DEF CaptureImplementation!Throw, Throw
<1>9. \A r, answer : CaptureImplementation!Settled(r, answer) = Settled(r, answer)
  BY <1>1, <1>4, <1>7, <1>8 DEF CaptureImplementation!Settled, Settled
<1>10. \A r, reset : CaptureImplementation!Retried(r, reset) = Retried(r, reset)
  BY <1>4, <1>7, <1>8 DEF CaptureImplementation!Retried, Retried
<1>11. /\ \A r : CaptureImplementation!Setting(r) <=> Setting(r)
       /\ CaptureImplementation!NewReconciler = NewReconciler
       /\ CaptureImplementation!Answers = Answers
       /\ CaptureImplementation!Activations = Activations
  BY DEF CaptureImplementation!Setting, Setting, CaptureImplementation!NewReconciler, NewReconciler,
         CaptureImplementation!Answers, Answers, CaptureImplementation!Activations, Activations
<1> QED BY <1>2, <1>6, <1>9, <1>10, <1>11

\* What a step has to be: one of CaptureHelper's that keeps the invariant.
Allowed == CaptureImplementation!Next /\ Invariant'

\* It is, when the capture's part of it is.
LEMMA TurnedAllows ==
  ASSUME Invariant, NEW r, Sound(r), Turned(r, c'.rec), IsContext(c'), c'.disposed => c'.rec.disposed,
         Agree(c'.rec, native', wire', up', EchoNotices)
  PROVE  Invariant'
BY TurnedRests DEF Invariant

\* A turn is a step of the abstract reconciler.
LEMMA TurnsAllowed == ASSUME Invariant, Turns PROVE Allowed
<1>1. Agree(c.rec, native, wire, up, EchoNotices) /\ Sound(c.rec) /\ up \in BOOLEAN
  BY DEF Invariant, Agree
<1>2. Agree(c'.rec, native', wire', up', EchoNotices)
  BY <1>1, TurnKeeps DEF Turns
<1>3. Invariant'
  BY <1>1, <1>2, TurnedAllows DEF Turns
<1>4. CaptureImplementation!Turn
  BY SameOperators DEF CaptureImplementation!Turn, Turns
<1> QED BY <1>3, <1>4 DEF Allowed, CaptureImplementation!Next

\* So is a press,
LEMMA PressAllowed == ASSUME Invariant, Press PROVE Allowed
<1>1. /\ Agree(c.rec, native, wire, up, EchoNotices) /\ up \in BOOLEAN /\ up /\ up' = up /\ c' = c
      /\ native' \in {native, "recording"}
  BY DEF Invariant, Agree, Press
<1>2. PICK kind \in Activations : wire' = Append(wire, kind)
  BY DEF Press, Activations
<1>3. Invariant'
  BY <1>1, <1>2, PressKeeps DEF Invariant
<1>4. CaptureImplementation!Press
  BY <1>1, <1>2, SameOperators DEF CaptureImplementation!Press
<1> QED BY <1>3, <1>4 DEF Allowed, CaptureImplementation!Next

\* a notice that answers nothing,
LEMMA WriteAllowed == ASSUME Invariant, ReleaseShortcut \/ Paste PROVE Allowed
<1>1. /\ Agree(c.rec, native, wire, up, EchoNotices) /\ up \in BOOLEAN /\ up /\ up' = up /\ c' = c
      /\ native' = native
  BY DEF Invariant, Agree, ReleaseShortcut, Paste
<1>2. PICK notice \in EchoNotices : wire' = Append(wire, notice)
  BY DEF ReleaseShortcut, Paste, EchoNotices
<1>3. notice \notin Answers \cup Activations
  BY DEF EchoNotices, Answers, Activations
<1>4. Invariant'
  BY <1>1, <1>2, <1>3, WriteKeeps DEF Invariant
<1>5. CaptureImplementation!Write
  BY <1>1, <1>2, <1>3, SameOperators DEF CaptureImplementation!Write, EchoNotices
<1> QED BY <1>4, <1>5 DEF Allowed, CaptureImplementation!Next

\* an answer of the helper,
LEMMA ServeAllowed == ASSUME Invariant, Serve PROVE Allowed
<1>1. /\ Agree(c.rec, native, wire, up, EchoNotices) /\ up \in BOOLEAN /\ up /\ up' = up /\ IsContext(c)
      /\ Setting(c.rec) /\ ~c.rec.call.served
      /\ c' = [c EXCEPT !.rec.call.served = TRUE]
  BY DEF Invariant, Agree, Serve
<1>2. /\ IsContext(c') /\ c'.disposed = c.disposed
      /\ c'.rec = [c.rec EXCEPT !.call.served = TRUE]
  BY <1>1, FieldsOf DEF IsContext
<1>3. PICK answer \in Answers :
        /\ native' = IF answer = "ack" THEN c.rec.call.mode ELSE native
        /\ wire' = Append(wire, answer)
  BY DEF Serve, Answers
<1>4. Agree(c'.rec, native', wire', up', EchoNotices)
  <2>1. Agree([c.rec EXCEPT !.call.served = TRUE], IF answer = "ack" THEN c.rec.call.mode ELSE native,
              Append(wire, answer), up, EchoNotices)
    BY <1>1, ServeKeeps
  <2> QED BY <1>1, <1>2, <1>3, <2>1
<1>5. AtRest(c'.rec) /\ c'.rec.disposed = c.rec.disposed
  <2>1. c.rec \in Reconcilers /\ c.rec.call \in Calls
    BY <1>1 DEF Agree, Sound, Setting, Reconcilers
  <2>2. [c.rec.call EXCEPT !.served = TRUE] \in Calls
    BY <2>1 DEF Calls
  <2>3. c'.rec.call = [c.rec.call EXCEPT !.served = TRUE]
    BY <1>2, <2>1 DEF Reconcilers
  <2>4. c'.rec.call # NoCall
    BY <2>2, <2>3, NoCallAssumption
  <2> QED BY <1>2, <2>1, <2>4 DEF AtRest, Reconcile, Reconcilers
<1>6. Invariant'
  BY <1>2, <1>4, <1>5 DEF Invariant
<1>7. CaptureImplementation!Serve
  BY <1>1, <1>2, <1>3, SameOperators DEF CaptureImplementation!Serve
<1> QED BY <1>6, <1>7 DEF Allowed, CaptureImplementation!Next

\* The capture is armed by the press that is read, whatever becomes of it.
LEMMA ActivationTurns ==
  ASSUME Invariant, NEW kind \in {"down", "complete"}, ~c.disposed, ReadActivation(kind)
  PROVE  /\ Turned(MarkNativeCaptureArmed(c.rec), c'.rec)
         /\ IsContext(c') /\ c'.disposed = c.disposed
<1> DEFINE armed == [c EXCEPT !.rec = MarkNativeCaptureArmed(@)]
<1>1. /\ IsContext(armed) /\ armed.rec = MarkNativeCaptureArmed(c.rec)
      /\ armed.disposed = c.disposed /\ armed.s = c.s
  BY FieldsOf DEF Invariant, IsContext
<1>2. CASE StartsSession(kind)
  <2>1. c.s.phase = "idle"
    BY <1>2 DEF StartsSession
  <2>2. CASE Becomes(Ask(armed, "off")) \/ Becomes(ReportOperationalFailure(Ask(armed, "off")))
    <3> HIDE DEF armed
    <3>1. Asks(armed, Ask(armed, "off"))
      BY <1>1, AskAsks DEF Modes
    <3>2. \E e : Asks(Ask(armed, "off"), e) /\ Becomes(e)
      BY <2>2, <3>1, ReportAsks, KeepsAsks DEF Asks, Keeps
    <3> QED BY <1>1, <3>1, <3>2, AsksNotes, TurnsOver
  <2>3. CASE \E id, smart, target, long :
               LET down == Dispatch([armed EXCEPT !.active = (kind = "down")],
                                    ShortcutDown(armed.s, id, smart, target))
               IN  Becomes(IF kind = "complete" THEN Dispatch(down, ShortcutUp(down.s, long)) ELSE down)
    <3>1. PICK id, smart, target, long :
               LET down == Dispatch([armed EXCEPT !.active = (kind = "down")],
                                    ShortcutDown(armed.s, id, smart, target))
               IN  Becomes(IF kind = "complete" THEN Dispatch(down, ShortcutUp(down.s, long)) ELSE down)
      BY <2>3
    <3> HIDE DEF armed
    <3> DEFINE active == [armed EXCEPT !.active = (kind = "down")]
               down == Dispatch(active, ShortcutDown(armed.s, id, smart, target))
    <3>2. Keeps(armed, active)
      BY <1>1, FieldsOf DEF Keeps, IsContext
    <3> HIDE DEF active
    <3>3. Notes(active, down) /\ down.s = ShortcutDown(armed.s, id, smart, target).state
      BY <3>2, DispatchNotes DEF Keeps
    <3>4. down.s.phase = "arming"
      BY <3>3 DEF ShortcutDown, To, IdleSession
    <3>5. Becomes(IF kind = "complete" THEN Dispatch(down, ShortcutUp(down.s, long)) ELSE down)
      BY <3>1 DEF down, active
    <3> HIDE DEF down
    <3>6. \E e : Asks(down, e) /\ Becomes(e)
      BY <3>3, <3>4, <3>5, DispatchNotes, KeepsAsks, SMTT(30) DEF Notes, Keeps
    <3>7. Notes(armed, down)
      BY <3>2, <3>3, Chained
    <3> QED BY <1>1, <3>6, <3>7, TurnsOver
  <2> QED BY <1>2, <2>2, <2>3 DEF StartsSession
<1>3. CASE JoinsSession(kind)
  <2> DEFINE active == [armed EXCEPT !.active = (kind = "down")]
  <2>1. Keeps(armed, active) /\ active.s = c.s
    BY <1>1, FieldsOf DEF Keeps, IsContext
  <2>2. Becomes(Dispatch(active, Submit(c.s))) \/ Becomes(Ask(armed, CaptureModeFor(c.s.phase)))
    BY <1>3 DEF JoinsSession
  <2> HIDE DEF armed, active
  <2>3. Notes(armed, Dispatch(active, Submit(c.s)))
    BY <2>1, DispatchNotes, Chained DEF Keeps
  <2>4. Notes(armed, Ask(armed, CaptureModeFor(c.s.phase)))
    BY <1>1, AskAsks, ModeIsMode, AsksNotes
  <2>5. \E e : Notes(armed, e) /\ Becomes(e)
    BY <2>2, <2>3, <2>4
  <2>6. \A e : Notes(armed, e) => Asks(e, e)
    BY KeepsAsks DEF Notes, Keeps
  <2> QED BY <1>1, <2>5, <2>6, TurnsOver
<1> QED BY <1>2, <1>3 DEF ReadActivation

\* The application reads what the helper wrote first.
LEMMA ReadAllowed == ASSUME Invariant, Read PROVE Allowed
<1>1. /\ Agree(c.rec, native, wire, up, EchoNotices) /\ up \in BOOLEAN /\ IsContext(c) /\ Sound(c.rec)
      /\ wire # <<>> /\ wire' = Tail(wire) /\ native' = native /\ up' = up
  BY DEF Invariant, Agree, Read
<1>2. \A r : Turned(r, c'.rec) /\ Sound(r) /\ (r.disposed \/ ~c.disposed)
               /\ IsContext(c') /\ c'.disposed = c.disposed
               /\ Agree(c'.rec, native', wire', up', EchoNotices) => Invariant'
  BY TurnedSound, TurnedAllows DEF Follows
<1>3. CASE \E kind \in {"down", "complete"} : Head(wire) = kind /\ ReadActivation(kind)
  <2>1. PICK kind \in {"down", "complete"} : Head(wire) = kind /\ ReadActivation(kind)
    BY <1>3
  <2>2. Head(wire) \in Activations
    BY <2>1 DEF Activations
  <2>3. CASE c.disposed
    <3>1. c' = c /\ c.rec.disposed
      BY <2>1, <2>3 DEF ReadActivation, Invariant
    <3>2. Turned(c.rec, c'.rec)
      BY <3>1, RestTurns DEF Invariant
    <3>3. Agree(c'.rec, native', wire', up', EchoNotices)
      BY <1>1, <3>1, <3>2, ReadLateKeeps
    <3>4. CaptureImplementation!Read
      BY <1>1, <2>2, <3>1, <3>2, SameOperators DEF CaptureImplementation!Read
    <3> QED BY <1>1, <1>2, <3>1, <3>2, <3>3, <3>4 DEF Allowed, CaptureImplementation!Next
  <2>4. CASE ~c.disposed
    <3>1. /\ Turned(MarkNativeCaptureArmed(c.rec), c'.rec)
          /\ IsContext(c') /\ c'.disposed = c.disposed
      BY <2>1, <2>4, ActivationTurns
    <3>2. Agree(c'.rec, native', wire', up', EchoNotices)
      BY <1>1, <3>1, ReadPressKeeps
    <3>3. Sound(MarkNativeCaptureArmed(c.rec))
      BY <1>1, NotedSound
    <3>4. CaptureImplementation!Read
      BY <1>1, <2>2, <3>1, SameOperators DEF CaptureImplementation!Read
    <3> QED BY <1>2, <2>4, <3>1, <3>2, <3>3, <3>4 DEF Allowed, CaptureImplementation!Next
  <2> QED BY <2>3, <2>4
<1>4. CASE \E answer \in Answers : Head(wire) = answer /\ ReadAnswer(answer)
  <2> DEFINE settled == [c EXCEPT !.rec = Settled(@, Head(wire))]
  <2>1. /\ IsContext(settled) /\ settled.rec = Settled(c.rec, Head(wire))
        /\ settled.disposed = c.disposed
    BY <1>1, FieldsOf DEF IsContext
  <2>2. Head(wire) \in Answers /\ ReadAnswer(Head(wire))
    BY <1>4
  <2>3. \E d : Keeps(settled, d) /\ Becomes(d)
    <3>1. Keeps(settled, settled) /\ Keeps(settled, ScheduleTerminalReset(settled))
      BY <2>1, ScheduleKeeps DEF Keeps
    <3>2. Becomes(IF settled.rec.off THEN ScheduleTerminalReset(settled) ELSE settled)
      BY <2>2 DEF ReadAnswer
    <3> QED BY <3>1, <3>2
  <2> HIDE DEF settled
  <2>4. \A d : Keeps(settled, d) => Notes(settled, d) /\ Asks(d, d)
    BY KeepsAsks, AsksNotes DEF Keeps
  <2>5. Turned(Settled(c.rec, Head(wire)), c'.rec) /\ IsContext(c') /\ c'.disposed = c.disposed
    BY <2>1, <2>3, <2>4, TurnsOver
  <2>6. Setting(c.rec)
    BY <1>1, <2>2 DEF Agree, OneAnswer, IsAnswer
  <2>7. Sound(Settled(c.rec, Head(wire))) /\ Settled(c.rec, Head(wire)).disposed = c.rec.disposed
    BY <1>1, <2>6, SettledSound
  <2>8. Agree(c'.rec, native', wire', up', EchoNotices)
    BY <1>1, <2>2, <2>5, ReadAnswerKeeps
  <2>9. CaptureImplementation!Read
    BY <1>1, <2>2, <2>5, <2>6, SameOperators DEF CaptureImplementation!Read
  <2> QED BY <1>2, <2>5, <2>7, <2>8, <2>9 DEF Allowed, CaptureImplementation!Next, Invariant
<1>5. CASE \/ Head(wire) = "up" /\ ReadUp
           \/ \E notice \in EchoNotices : Head(wire) = notice /\ ReadPaste(notice)
  <2>1. Head(wire) \notin Answers \cup Activations
    BY <1>5 DEF EchoNotices, Answers, Activations
  <2>2. (\E d : Notes(c, d) /\ Becomes(d)) \/ c' = c
    <3> DEFINE released == [c EXCEPT !.active = FALSE]
               committed == [c EXCEPT !.committed = TRUE]
    <3>1. Keeps(c, released) /\ Keeps(c, committed)
      BY <1>1, FieldsOf DEF Keeps, IsContext
    <3> HIDE DEF released, committed
    <3>2. \A t : Notes(c, Dispatch(released, t)) /\ Notes(c, Dispatch(committed, t))
      BY <3>1, DispatchNotes, Chained DEF Keeps
    <3>3. CASE ReadUp
      BY <3>2, <3>3 DEF ReadUp, released
    <3>4. CASE \E notice : ReadPaste(notice)
      BY <1>1, <3>2, <3>4, PasteAnsweredNotes DEF ReadPaste, committed
    <3> QED BY <1>5, <3>3, <3>4
  <2>3. Turned(c.rec, c'.rec) /\ IsContext(c') /\ c'.disposed = c.disposed
    <3>1. \A d : Notes(c, d) => Asks(d, d)
      BY KeepsAsks DEF Keeps, Notes
    <3>2. Turned(c.rec, c.rec)
      BY RestTurns DEF Invariant
    <3> QED BY <1>1, <2>2, <3>1, <3>2, TurnsOver
  <2>4. Agree(c'.rec, native', wire', up', EchoNotices)
    BY <1>1, <2>1, <2>3, ReadNoticeKeeps
  <2>5. CaptureImplementation!Read
    BY <1>1, <2>1, <2>3, SameOperators DEF CaptureImplementation!Read
  <2> QED BY <1>1, <1>2, <2>3, <2>4, <2>5 DEF Allowed, CaptureImplementation!Next, Invariant
<1> QED BY <1>3, <1>4, <1>5 DEF Read, Answers, EchoNotices

\* A call that no answer will come to.
LEMMA CallAllowed == ASSUME Invariant, CallSettles PROVE Allowed
<1>1. /\ Agree(c.rec, native, wire, up, EchoNotices) /\ up \in BOOLEAN /\ IsContext(c) /\ Sound(c.rec)
      /\ UNCHANGED <<native, wire, up>>
  BY DEF Invariant, Agree, CallSettles
<1>2. \A settled : IsContext(settled) /\ settled.disposed = c.disposed
                   /\ Becomes(IF settled.rec.off THEN ScheduleTerminalReset(settled) ELSE settled)
                   => Turned(settled.rec, c'.rec) /\ IsContext(c') /\ c'.disposed = c.disposed
  <2> SUFFICES ASSUME NEW settled, IsContext(settled), settled.disposed = c.disposed,
                      Becomes(IF settled.rec.off THEN ScheduleTerminalReset(settled) ELSE settled)
               PROVE  Turned(settled.rec, c'.rec) /\ IsContext(c') /\ c'.disposed = c.disposed
    OBVIOUS
  <2>1. Keeps(settled, settled) /\ Keeps(settled, ScheduleTerminalReset(settled))
    BY ScheduleKeeps DEF Keeps
  <2>2. \A d : Keeps(settled, d) => Notes(settled, d) /\ Asks(d, d)
    BY KeepsAsks, AsksNotes DEF Keeps
  <2>3. \E d : Notes(settled, d) /\ Asks(d, d) /\ Becomes(d)
    BY <2>1, <2>2
  <2> QED BY <2>3, TurnsOver
<1>3. CASE \E answer \in {"capacity", "failed"} :
             /\ Setting(c.rec) /\ ReadAnswer(answer)
             /\ IF answer = "capacity" THEN ~c.rec.call.served ELSE ~up
  <2>1. PICK answer \in {"capacity", "failed"} :
             /\ Setting(c.rec) /\ ReadAnswer(answer)
             /\ IF answer = "capacity" THEN ~c.rec.call.served ELSE ~up
    BY <1>3
  <2> DEFINE settled == [c EXCEPT !.rec = Settled(@, answer)]
  <2>2. /\ IsContext(settled) /\ settled.rec = Settled(c.rec, answer)
        /\ settled.disposed = c.disposed
    BY <1>1, FieldsOf DEF IsContext
  <2>3. Becomes(IF settled.rec.off THEN ScheduleTerminalReset(settled) ELSE settled)
    BY <2>1 DEF ReadAnswer
  <2> HIDE DEF settled
  <2>4. Turned(Settled(c.rec, answer), c'.rec) /\ IsContext(c') /\ c'.disposed = c.disposed
    BY <1>2, <2>2, <2>3
  <2>5. Sound(Settled(c.rec, answer)) /\ Settled(c.rec, answer).disposed = c.rec.disposed
    BY <1>1, <2>1, SettledSound
  <2>6. ~c.rec.call.served \/ ~up
    BY <2>1
  <2>7. Agree(c'.rec, native', wire', up', EchoNotices)
    BY <1>1, <2>1, <2>4, <2>6, CallFailsKeeps
  <2>8. c'.disposed => c'.rec.disposed
    BY <2>4, <2>5, TurnedSound DEF Invariant, Follows
  <2>9. Invariant'
    BY <2>4, <2>5, <2>7, <2>8, TurnedAllows
  <2>10. CaptureImplementation!CallIsFull \/ CaptureImplementation!CallFails
    BY <1>1, <2>1, <2>4, SameOperators DEF CaptureImplementation!CallIsFull, CaptureImplementation!CallFails
  <2> QED BY <2>9, <2>10 DEF Allowed, CaptureImplementation!Next
<1>4. CASE /\ c.rec.call # NoCall /\ ~Setting(c.rec)
           /\ c.rec.call.kind = "reset" => c.rec.call.served
           /\ LET retried == [c EXCEPT !.rec = Retried(@, up)]
              IN  Becomes(IF retried.rec.off THEN ScheduleTerminalReset(retried) ELSE retried)
  <2> DEFINE retried == [c EXCEPT !.rec = Retried(@, up)]
  <2>1. IsContext(retried) /\ retried.rec = Retried(c.rec, up) /\ retried.disposed = c.disposed
    BY <1>1, FieldsOf DEF IsContext
  <2>2. Becomes(IF retried.rec.off THEN ScheduleTerminalReset(retried) ELSE retried)
    BY <1>4
  <2> HIDE DEF retried
  <2>3. Turned(Retried(c.rec, up), c'.rec) /\ IsContext(c') /\ c'.disposed = c.disposed
    BY <1>2, <2>1, <2>2
  <2>4. Sound(Retried(c.rec, up)) /\ Retried(c.rec, up).disposed = c.rec.disposed
    BY <1>1, <1>4, RetriedSound
  <2>5. Agree(c'.rec, native', wire', up', EchoNotices)
    BY <1>1, <1>4, <2>3, RetryKeeps
  <2>6. c'.disposed => c'.rec.disposed
    BY <2>3, <2>4, TurnedSound DEF Invariant, Follows
  <2>7. Invariant'
    BY <2>3, <2>4, <2>5, <2>6, TurnedAllows
  <2>8. CaptureImplementation!RetryCall
    BY <1>1, <1>4, <2>3, SameOperators DEF CaptureImplementation!RetryCall
  <2> QED BY <2>7, <2>8 DEF Allowed, CaptureImplementation!Next
<1>5. c.rec.call # NoCall
  BY DEF CallSettles
<1> QED BY <1>3, <1>4, <1>5 DEF CallSettles

\* What the readiness handler makes of a helper that is gone.
LEMMA KeyboardLostTurns ==
  ASSUME NEW d, NEW survives, NEW message, IsContext(d), Becomes(KeyboardLost(d, survives, message))
  PROVE  /\ Turned(MarkAppliedUnknown(d.rec), c'.rec)
         /\ IsContext(c') /\ c'.disposed = d.disposed
<1> DEFINE unknown == [d EXCEPT !.rec = MarkAppliedUnknown(@)]
           asked == Ask(unknown, "off")
           lost == [asked EXCEPT !.nativeCaptureLost = TRUE]
<1>1. /\ IsContext(unknown) /\ unknown.rec = MarkAppliedUnknown(d.rec)
      /\ unknown.disposed = d.disposed /\ unknown.s = d.s
  BY FieldsOf DEF IsContext
<1> HIDE DEF unknown
<1>2. Asks(unknown, asked) /\ asked.s = d.s
  BY <1>1, AskAsks DEF Modes
<1> HIDE DEF asked
<1>3. Keeps(asked, lost) /\ lost.s = d.s
  BY <1>2, FieldsOf DEF Asks, Keeps, IsContext
<1> HIDE DEF lost
<1>4. CaptureModeFor(d.s.phase) # "off" =>
        Asks(asked, Dispatch(lost, KeyboardDisconnected(asked.s)))
  <2>1. CaptureModeFor(d.s.phase) # "off" => d.s.phase # "idle"
    BY DEF CaptureModeFor, IsCapture, IsRecording
  <2> QED BY <1>3, <2>1, DispatchNotes, Chained DEF Keeps
<1>5. Asks(asked, asked)
  BY <1>2, KeepsAsks DEF Keeps, Asks
<1>6. \E e : Asks(asked, e) /\ Becomes(e)
  BY <1>2, <1>4, <1>5, ReportAsks, AbortSessionAsks DEF KeyboardLost, lost, asked, unknown, Asks
<1> QED BY <1>1, <1>2, <1>6, AsksNotes, TurnsOver

\* the loss of the helper,
LEMMA HelperGoesAllowed ==
  ASSUME Invariant, NEW survives, NEW message, HelperGoes(survives, message)
  PROVE  Allowed
<1> DEFINE left == IF Resetting THEN [c EXCEPT !.rec.call.served = TRUE] ELSE c
<1>1. /\ Agree(c.rec, native, wire, up, EchoNotices) /\ up \in BOOLEAN /\ up /\ IsContext(c)
      /\ up' = FALSE /\ wire' = <<>> /\ native' = native
      /\ Becomes(KeyboardLost(left, survives, message))
  BY DEF Invariant, Agree, HelperGoes
<1>2. IsContext(left) /\ left.disposed = c.disposed /\ left.rec = Left(c.rec)
  <2>1. CASE Resetting
    BY <1>1, <2>1, FieldsOf DEF IsContext, Left, Resetting
  <2>2. CASE ~Resetting
    <3>1. c.rec \in Reconcilers /\ (c.rec.call # NoCall => c.rec.call \in Calls)
      BY <1>1 DEF Agree, Sound, Reconcilers
    <3>2. c.rec.call # NoCall /\ c.rec.call.served => [c.rec EXCEPT !.call.served = TRUE] = c.rec
      BY <3>1 DEF Reconcilers, Calls
    <3>3. Left(c.rec) = c.rec
      BY <2>2, <3>2 DEF Left, Resetting
    <3> QED BY <1>1, <2>2, <3>3
  <2> QED BY <2>1, <2>2
<1> HIDE DEF left
<1>3. /\ Turned(MarkAppliedUnknown(Left(c.rec)), c'.rec)
      /\ IsContext(c') /\ c'.disposed = c.disposed
  BY <1>1, <1>2, KeyboardLostTurns
<1>4. /\ Agree(c'.rec, native', wire', up', EchoNotices)
      /\ Follows(MarkAppliedUnknown(Left(c.rec)), c'.rec)
      /\ MarkAppliedUnknown(Left(c.rec)).disposed = c.rec.disposed
  BY <1>1, <1>3, LostKeeps
<1>5. AtRest(c'.rec)
  <2>1. \E second : c'.rec = Reconcile(second)
    BY <1>3 DEF Turned
  <2> QED BY <1>4, <2>1, ReconcileRests DEF Agree
<1>6. Invariant'
  BY <1>3, <1>4, <1>5 DEF Invariant, Follows
<1>7. CaptureImplementation!HelperLost
  BY <1>1, <1>3, SameOperators DEF CaptureImplementation!HelperLost, Left
<1> QED BY <1>6, <1>7 DEF Allowed, CaptureImplementation!Next

\* and its successor.
LEMMA HelperReadyAllowed == ASSUME Invariant, HelperReady PROVE Allowed
<1>1. /\ Agree(c.rec, native, wire, up, EchoNotices) /\ up \in BOOLEAN /\ ~up /\ IsContext(c) /\ Sound(c.rec)
      /\ up' = TRUE /\ wire' = wire /\ native' = "off" /\ ~Setting(c.rec)
  BY DEF Invariant, Agree, HelperReady
<1>2. \E d : Asks(c, d) /\ Becomes(d)
  <2>1. Asks(c, c)
    BY <1>1, KeepsAsks DEF Keeps
  <2> QED BY <1>1, <2>1, AskAsks, ModeIsMode DEF HelperReady
<1>3. Turned(c.rec, c'.rec) /\ IsContext(c') /\ c'.disposed = c.disposed
  <2>1. \A d : Asks(c, d) => Asks(d, d)
    BY KeepsAsks DEF Keeps, Asks
  <2> QED BY <1>2, <2>1, AsksNotes, TurnsOver
<1>4. Agree(c'.rec, native', wire', up', EchoNotices)
  BY <1>1, <1>3, ReadyKeeps
<1>5. c'.disposed => c'.rec.disposed
  BY <1>1, <1>3, TurnedSound DEF Invariant, Follows
<1>6. Invariant'
  BY <1>1, <1>3, <1>4, <1>5, TurnedAllows
<1>7. CaptureImplementation!HelperReady
  BY <1>1, <1>3, SameOperators DEF CaptureImplementation!HelperReady
<1> QED BY <1>6, <1>7 DEF Allowed, CaptureImplementation!Next

-----------------------------------------------------------------------------
(* The theorems                                                            *)

\* A session begins with the reconciler and the helper as they are at first.
LEMMA InvariantInit == Init => Invariant /\ CaptureImplementation!Init
<1> SUFFICES ASSUME Init PROVE Invariant /\ CaptureImplementation!Init
  OBVIOUS
<1>1. c = NewContext /\ native = "off" /\ wire = <<>> /\ up = TRUE
  BY DEF Init
<1>2. IsContext(c) /\ c.rec = NewReconciler /\ c.disposed = FALSE
  BY <1>1, FieldsOf DEF NewContext, IsContext
<1>3. Agree(c.rec, native, wire, up, EchoNotices)
  BY <1>1, <1>2, NewAgrees
<1>4. AtRest(c.rec)
  BY <1>2 DEF AtRest, Reconcile, NewReconciler
<1>5. CaptureImplementation!Init
  BY <1>1, <1>2, SameOperators DEF CaptureImplementation!Init
<1> QED BY <1>2, <1>3, <1>4, <1>5 DEF Invariant

\* Every step of a session is one that CaptureHelper allows, or leaves the
\* reconciler and the helper alone.
LEMMA StepAllowed ==
  Invariant /\ [Next]_vars => Invariant' /\ [CaptureImplementation!Next]_CaptureImplementation!helperVars
<1> SUFFICES ASSUME Invariant, [Next]_vars
             PROVE  Allowed \/ (Invariant' /\ UNCHANGED CaptureImplementation!helperVars)
  BY DEF Allowed
<1>1. CASE EffectStep \/ EventStep \/ ResourceStep
  BY <1>1, EffectTurns, EventTurns, ResourceTurns, TurnsAllowed
<1>2. CASE HelperStep
  <2>1. CASE HelperResets \/ HelperLost
    BY <2>1, HelperGoesAllowed DEF HelperResets, HelperLost
  <2> QED
    BY <1>2, <2>1, PressAllowed, WriteAllowed, ServeAllowed, ReadAllowed, CallAllowed, HelperReadyAllowed
    DEF HelperStep
<1>3. CASE UNCHANGED vars
  BY <1>3 DEF vars, Invariant, CaptureImplementation!helperVars
<1> QED BY <1>1, <1>2, <1>3 DEF Next

\* A dictation session, with its effects, timers, shutdown and presses, uses the
\* reconciler and the helper only as CaptureHelper does.
THEOREM SessionImplementsCapture == Spec => CaptureImplemented
<1>1. Init => CaptureImplementation!Init
  BY InvariantInit
<1>2. Init => Invariant
  BY InvariantInit
<1> QED BY <1>1, <1>2, StepAllowed, PTL DEF Spec, CaptureImplemented, CaptureImplementation!Spec

\* A session that takes the capture to be off, as its terminal reset does before
\* it forgets the session, is right: or a press that it has still to read has
\* armed the capture again.
THEOREM SessionCaptureOff == Spec => []CaptureOffIsTrue
<1>1. Invariant => CaptureOffIsTrue
  BY SameOperators
  DEF Invariant, Agree, OffIsTrue, CaptureOffIsTrue, ArmedBy,
      CaptureImplementation!CaptureOffIsTrue, CaptureImplementation!Armed
<1> QED BY <1>1, InvariantInit, StepAllowed, PTL DEF Spec

-----------------------------------------------------------------------------
(* The effects to come                                                     *)

\* The effects that may follow one.
Later(effect) ==
  CASE effect = "start-capture" -> Effects \ {"start-capture"}
    [] effect = "begin-extended" -> {"transcribe", "process-smart", "insert", "teardown"}
    [] effect = "transcribe" -> {"process-smart", "insert", "teardown"}
    [] effect = "process-smart" -> {"insert", "teardown"}
    [] effect = "insert" -> {"teardown"}
    [] OTHER -> {}

\* The effects come in the order in which a session asks for them.
Rising(queue) == \A i, j \in DOMAIN queue : i < j => queue[j] \in Later(queue[i])

\* What a queue holds.
Elements(queue) == {queue[i] : i \in DOMAIN queue}

\* The effects that may be there in a phase.
Ahead(phase) ==
  CASE phase \in {"arming", "recordingQuick"} -> {"start-capture"}
    [] phase = "recordingExtended" -> {"start-capture", "begin-extended"}
    [] phase = "transcribing" -> {"start-capture", "begin-extended", "transcribe"}
    [] phase = "processingSmart" -> {"process-smart"}
    [] phase \in {"inserting", "restoringClipboard"} -> {"insert"}
    [] phase = "completed" -> {"teardown"}
    [] phase \in {"cancelled", "error"} ->
         {"start-capture", "begin-extended", "transcribe", "process-smart", "teardown"}
    [] OTHER -> {}

\* Of a context: the last teardown is all that the shutdown has to do.
Ending(d) == d.shutdown \in {"last", "over"}

\* What has been said is known, and the recording is over.
Heard(phase) == phase \in {"processingSmart", "inserting", "restoringClipboard", "completed"}

\* The effects to come are those of the phase, in their order.
InOrder(d) ==
  /\ d.queue \in Seq(Effects)
  /\ Rising(d.queue)
  /\ Elements(d.queue) \subseteq IF Ending(d) THEN {"teardown"} ELSE Ahead(d.s.phase)
  /\ d.teardownComplete /\ ~Ending(d) =>
       d.queue = <<>> /\ (d.s.phase = "idle" \/ IsTerminal(d.s.phase))
  /\ d.stopCompleted => /\ ~IsCapture(d.s.phase)
                        /\ Elements(d.queue) \cap {"start-capture", "begin-extended"} = {}
  /\ d.stage # "ready" => d.queue # <<>>
  /\ d.stage = "settling" => d.committed

\* What the phase says of the session.
Shaped(d) ==
  /\ d.s \in Sessions(MaxSessions)
  /\ d.s.phase = "idle" => d.s = IdleSession
  /\ d.s.id = 0 => d.s.phase \in {"idle", "error"} /\ (Ending(d) \/ d.queue = <<>>)
  /\ Heard(d.s.phase) => d.s.transcript
  /\ d.s.phase # "completed" => d.s.completion = "none"
  /\ d.s.phase = "inserting" => d.s.insertion # "committed"

\* What is written of it is its outcome, and a paste that has been committed
\* decides that.
Written(d) ==
  /\ d.written \in {<<>>, <<"done">>, <<"error">>}
  /\ d.s.id # 0 =>
       /\ d.written = IF d.s.phase \in {"restoringClipboard", "completed"} THEN <<"done">>
                      ELSE IF d.s.phase = "error" /\ d.s.transcript THEN <<"error">>
                      ELSE <<>>
       /\ d.committed => /\ d.s.phase \in {"restoringClipboard", "completed"}
                         /\ d.s.phase = "completed" => d.s.completion = "inserted"
                         /\ "insert" \in Elements(d.queue) => d.stage \in {"pasting", "settling"}

\* Who has the capture.
Owned(d) ==
  /\ d.teardownComplete \/ d.s.id = 0 \/ d.shutdown = "over" => d.owner = "none"
  /\ d.shutdown = "last" /\ d.queue = <<>> => d.owner = "none"
  /\ d.shutdown # "no" => d.disposed
  /\ d.disposed => /\ d.owner # "active"
                   /\ d.s.phase \in {"idle", "inserting", "restoringClipboard"} \/ IsTerminal(d.s.phase)

\* A context whose effects, phase, outcome and ownership belong together.
Orderly(d) == IsContext(d) /\ InOrder(d) /\ Shaped(d) /\ Written(d) /\ Owned(d)

-----------------------------------------------------------------------------
(* What the session holds                                                  *)

\* The stages of an effect that has stopped the microphone.
Late == {"stopping", "inferring", "releasing"}

\* The microphone, the model and the stream are held by the session that owns
\* the capture alone, and the microphone before it has been stopped.
Held ==
  /\ mic \in [SessionIds -> {"none", "opening", "on", "stopping", "stopped", "failed"}]
  /\ grant \in [SessionIds -> {"none", "opening", "held", "released", "failed"}]
  /\ stream \in [SessionIds -> {"none", "opening", "open", "closed", "failed"}]
  /\ \A k \in SessionIds :
       /\ mic[k] \in {"opening", "on"} =>
            /\ Current(k) /\ c.owner # "none" /\ ~c.stopCompleted
            /\ IF mic[k] = "opening" THEN c.captureOpening ELSE c.captureId
            /\ c.stage \notin Late /\ ~Heard(c.s.phase)
       /\ grant[k] = "held" => Current(k) /\ c.owner # "none"
       /\ stream[k] = "open" => Current(k) /\ c.owner # "none"
       /\ stream[k] \in {"open", "opening"} /\ Current(k) => ~Heard(c.s.phase)

\* What the helper tells of a paste.
Notices == {"committed", "submitted", "rejected", "indeterminate"}

\* The paste that a notice tells of.
Told(notice) ==
  CASE notice = "committed" -> {"pasted", "answered"}
    [] notice = "submitted" -> {"answered"}
    [] notice = "rejected" -> {"refused"}
    [] OTHER -> {"unsure"}

\* The session has it that the paste is done.
Proven(d) == d.s.completion = "inserted" \/ (d.s.id # 0 /\ d.committed)

\* The insertion waits for its paste.
Waiting(d) == d.queue # <<>> /\ Head(d.queue) = "insert" /\ d.stage = "pasting"

\* The notices under way are those of the paste that the insertion waits for:
\* its commitment, its end, or both.
Pasting ==
  /\ Proven(c) => paste \in {"pasted", "answered"}
  /\ paste \in {"sent", "pasted"} => up /\ Waiting(c)
  /\ \A i \in DOMAIN wire : wire[i] \in Notices => Waiting(c) /\ paste \in Told(wire[i])
  /\ \A i, j \in DOMAIN wire :
       i < j /\ wire[i] \in Notices /\ wire[j] \in Notices
       => wire[i] = "committed" /\ wire[j] = "submitted"

\* The plan and the capture have their types.
Planned ==
  /\ plan \in [happens : SUBSET Happenings, sessions : 0 .. MaxSessions, presses : Nat, faults : Nat]
  /\ native \in Modes

\* The inductive invariant of the session, with that of EchoProofs.
SessionInvariant == Invariant /\ Orderly(c) /\ Held /\ Pasting /\ Planned

-----------------------------------------------------------------------------
(* Lemmas about the queue                                                  *)

\* What a queue holds when an effect is put at its end.
LEMMA QueueAppend ==
  ASSUME NEW queue \in Seq(Effects), Rising(queue), NEW effect \in Effects,
         \A other \in Elements(queue) : effect \in Later(other)
  PROVE  /\ queue \o <<effect>> \in Seq(Effects) /\ Rising(queue \o <<effect>>)
         /\ Elements(queue \o <<effect>>) = Elements(queue) \cup {effect}
         /\ queue \o <<effect>> # <<>>
         /\ queue # <<>> => Head(queue \o <<effect>>) = Head(queue)
<1> DEFINE longer == queue \o <<effect>>
<1>1. /\ longer \in Seq(Effects) /\ Len(longer) = Len(queue) + 1 /\ Len(queue) \in Nat
      /\ \A i \in 1 .. Len(queue) : longer[i] = queue[i]
      /\ longer[Len(queue) + 1] = effect
      /\ DOMAIN queue = 1 .. Len(queue) /\ DOMAIN longer = 1 .. Len(longer)
  OBVIOUS
<1>2. longer # <<>> /\ (queue # <<>> => Head(longer) = Head(queue))
  BY <1>1
<1> HIDE DEF longer
<1>3. Elements(longer) = Elements(queue) \cup {effect}
  BY <1>1 DEF Elements
<1>4. Rising(longer)
  BY <1>1 DEF Rising, Elements
<1> QED BY <1>1, <1>2, <1>3, <1>4 DEF longer

\* What it holds when the first has ended.
LEMMA QueueTail ==
  ASSUME NEW queue \in Seq(Effects), Rising(queue), queue # <<>>
  PROVE  /\ Tail(queue) \in Seq(Effects) /\ Rising(Tail(queue))
         /\ Head(queue) \in Effects /\ Head(queue) \in Elements(queue)
         /\ Elements(queue) = {Head(queue)} \cup Elements(Tail(queue))
         /\ Elements(Tail(queue)) \subseteq Later(Head(queue))
<1> DEFINE rest == Tail(queue)
<1>1. /\ rest \in Seq(Effects) /\ Len(queue) \in Nat /\ Len(queue) = Len(rest) + 1 /\ Len(rest) \in Nat
      /\ \A i \in 1 .. Len(rest) : rest[i] = queue[i + 1]
      /\ Head(queue) = queue[1] /\ Head(queue) \in Effects
      /\ DOMAIN queue = 1 .. Len(queue) /\ DOMAIN rest = 1 .. Len(rest)
  OBVIOUS
<1> HIDE DEF rest
<1>2. \A i, j \in 1 .. Len(rest) : i < j =>
         i + 1 \in DOMAIN queue /\ j + 1 \in DOMAIN queue /\ i + 1 < j + 1
  BY <1>1
<1>3. Rising(rest)
  BY <1>1, <1>2 DEF Rising
<1>4. Elements(queue) = {queue[1]} \cup Elements(rest)
  <2>1. \A i \in 1 .. Len(queue) : i = 1 \/ (i - 1 \in 1 .. Len(rest) /\ rest[i - 1] = queue[i])
    BY <1>1
  <2>2. \A i \in 1 .. Len(rest) : i + 1 \in 1 .. Len(queue)
    BY <1>1
  <2>3. 1 \in 1 .. Len(queue)
    BY <1>1
  <2> QED BY <1>1, <2>1, <2>2, <2>3 DEF Elements
<1>5. Elements(rest) \subseteq Later(queue[1])
  <2>1. \A i \in 1 .. Len(rest) : 1 \in DOMAIN queue /\ i + 1 \in DOMAIN queue /\ 1 < i + 1
    BY <1>1
  <2> QED BY <1>1, <2>1 DEF Elements, Rising
<1> QED BY <1>1, <1>3, <1>4, <1>5 DEF rest

\* More effects at its end leave the first one where it is.
LEMMA QueueJoin ==
  ASSUME NEW queue \in Seq(Effects), queue # <<>>, NEW more \in Seq(Effects)
  PROVE  /\ queue \o more # <<>> /\ Head(queue \o more) = Head(queue)
         /\ Tail(queue \o more) = Tail(queue) \o more
<1>1. Len(queue) \in Nat \ {0} /\ Len(more) \in Nat
  OBVIOUS
<1>2. /\ queue \o more \in Seq(Effects) /\ Len(queue \o more) = Len(queue) + Len(more)
      /\ \A i \in 1 .. Len(queue) : (queue \o more)[i] = queue[i]
      /\ \A i \in 1 .. Len(more) : (queue \o more)[Len(queue) + i] = more[i]
  BY <1>1
<1>3. queue \o more # <<>> /\ Head(queue \o more) = Head(queue)
  BY <1>1, <1>2
<1>4. Tail(queue \o more) = Tail(queue) \o more
  <2> DEFINE left == Tail(queue \o more)
             right == Tail(queue) \o more
  <2>1. left \in Seq(Effects) /\ Len(left) = Len(queue) + Len(more) - 1
        /\ \A i \in 1 .. Len(left) : left[i] = (queue \o more)[i + 1]
    BY <1>1, <1>2, <1>3
  <2>2. /\ Tail(queue) \in Seq(Effects) /\ Len(Tail(queue)) = Len(queue) - 1
        /\ \A i \in 1 .. Len(queue) - 1 : Tail(queue)[i] = queue[i + 1]
    BY <1>1
  <2>3. /\ right \in Seq(Effects) /\ Len(right) = Len(queue) - 1 + Len(more)
        /\ \A i \in 1 .. Len(queue) - 1 : right[i] = Tail(queue)[i]
        /\ \A i \in 1 .. Len(more) : right[Len(queue) - 1 + i] = more[i]
    BY <1>1, <2>2
  <2> HIDE DEF left, right
  <2>4. \A i \in 1 .. Len(left) : left[i] = right[i]
    <3> SUFFICES ASSUME NEW i \in 1 .. Len(left) PROVE left[i] = right[i]
      OBVIOUS
    <3>1. CASE i <= Len(queue) - 1
      BY <1>1, <1>2, <2>1, <2>2, <2>3, <3>1
    <3>2. CASE i > Len(queue) - 1
      <4>1. PICK k \in 1 .. Len(more) : i + 1 = Len(queue) + k /\ i = Len(queue) - 1 + k
        <5>1. i - (Len(queue) - 1) \in 1 .. Len(more)
          BY <1>1, <2>1, <3>2
        <5>2. i + 1 = Len(queue) + (i - (Len(queue) - 1)) /\ i = Len(queue) - 1 + (i - (Len(queue) - 1))
          BY <1>1, <2>1
        <5> QED BY <5>1, <5>2
      <4>2. left[i] = more[k]
        BY <1>2, <2>1, <4>1
      <4>3. right[i] = more[k]
        <5>1. right[Len(queue) - 1 + k] = more[k]
          BY <2>3
        <5> QED BY <4>1, <5>1
      <4> QED BY <4>2, <4>3
    <3> QED BY <1>1, <2>1, <3>1, <3>2
  <2>5. left = right
    BY <1>1, <2>1, <2>3, <2>4, SeqEqual
  <2> QED BY <2>5 DEF left, right
<1> QED BY <1>3, <1>4

\* It holds nothing when it is empty, and is empty then only.
LEMMA QueueEmpty ==
  ASSUME NEW queue \in Seq(Effects)
  PROVE  /\ queue = <<>> <=> Elements(queue) = {}
         /\ queue \o <<>> = queue
         /\ Elements(queue) \subseteq Effects
<1>1. queue # <<>> => 1 \in DOMAIN queue
  OBVIOUS
<1>2. queue \o <<>> = queue
  OBVIOUS
<1>3. \A i \in DOMAIN queue : queue[i] \in Effects
  OBVIOUS
<1> QED BY <1>1, <1>2, <1>3 DEF Elements

\* A queue of one.
LEMMA QueueOne ==
  ASSUME NEW effect \in Effects
  PROVE  /\ <<effect>> \in Seq(Effects) /\ Rising(<<effect>>) /\ Elements(<<effect>>) = {effect}
         /\ <<effect>> # <<>> /\ Head(<<effect>>) = effect
BY DEF Rising, Elements

-----------------------------------------------------------------------------
(* What an operation on the context does to the session                    *)

\* The operation that makes e of d has left the session alone.
Same(d, e) ==
  /\ IsContext(e)
  /\ e.s = d.s /\ e.queue = d.queue /\ e.stage = d.stage
  /\ e.owner = d.owner /\ e.captureId = d.captureId /\ e.captureOpening = d.captureOpening
  /\ e.stopCompleted = d.stopCompleted /\ e.teardownComplete = d.teardownComplete
  /\ e.written = d.written /\ e.committed = d.committed
  /\ e.disposed = d.disposed /\ e.shutdown = d.shutdown

\* It may have aborted it.
Aborts(d, e) ==
  /\ IsContext(e)
  /\ e.s = d.s /\ e.queue = d.queue /\ e.stage = d.stage
  /\ e.owner = (IF d.owner = "active" THEN "aborted" ELSE d.owner)
  /\ e.captureId = d.captureId /\ e.captureOpening = d.captureOpening
  /\ e.stopCompleted = d.stopCompleted /\ e.teardownComplete = d.teardownComplete
  /\ e.written = d.written /\ e.committed = d.committed
  /\ e.disposed = d.disposed /\ e.shutdown = d.shutdown

\* Of the fields of a context these are not the session's.
Others == {"signal", "hwait", "mwait", "aborted", "nativeCaptureLost", "active", "resetTimer",
           "pendingError", "rec"}

\* A field that no part of the invariant reads may change at will.
LEMMA OtherSame ==
  ASSUME NEW d, IsContext(d), NEW field \in Others, NEW value
  PROVE  Same(d, [d EXCEPT ![field] = value])
BY FieldsOf DEF Same, Others, IsContext

\* What keeps the session and what aborts it may follow each other.
LEMMA SameChain ==
  ASSUME NEW d, NEW e, NEW f
  PROVE  /\ Same(d, e) /\ Same(e, f) => Same(d, f)
         /\ Same(d, e) /\ Aborts(e, f) => Aborts(d, f)
         /\ Aborts(d, e) /\ Same(e, f) => Aborts(d, f)
         /\ Aborts(d, e) /\ Aborts(e, f) => Aborts(d, f)
BY DEF Same, Aborts

\* Aborting the operation does nothing else.
LEMMA AbortAborts == ASSUME NEW d, IsContext(d) PROVE Aborts(d, AbortOperation(d))
BY FieldsOf DEF AbortOperation, Aborts, IsContext

\* Asking for a mode keeps the session.
LEMMA AskSame == ASSUME NEW d, NEW mode, IsContext(d) PROVE Same(d, Ask(d, mode))
BY FieldsOf DEF Ask, Same, IsContext

\* So does waiting for it,
LEMMA AwaitSame == ASSUME NEW d, NEW mode, IsContext(d) PROVE Same(d, Await(d, mode))
<1>1. Same(d, Ask(d, mode))
  BY AskSame
<1> QED BY <1>1, FieldsOf DEF Await, Same, IsContext

\* taking the signal of the operation,
LEMMA TakeSignalSame == ASSUME NEW d, IsContext(d) PROVE Same(d, TakeSignal(d))
BY FieldsOf DEF TakeSignal, Same, IsContext

\* scheduling the reset,
LEMMA ScheduleSame == ASSUME NEW d, IsContext(d) PROVE Same(d, ScheduleTerminalReset(d))
BY FieldsOf DEF ScheduleTerminalReset, Same, IsContext

\* and the turn of the reconciler that ends a step.
LEMMA BecomesSame == ASSUME NEW d, IsContext(d), Becomes(d) PROVE Same(d, c')
<1> DEFINE e == [d EXCEPT !.rec = Reconcile(@)]
<1>1. Same(d, e)
  BY FieldsOf DEF Same, IsContext
<1>2. c' = Woken(e, c.rec)
  BY DEF Becomes
<1> HIDE DEF e
<1> QED BY <1>1, <1>2, FieldsOf DEF Woken, Same, IsContext

\* A press that arms a session which has none.
Begins(d, transition) == d.s.phase = "idle" /\ transition.state.phase = "arming"

\* The record that a new phase makes.
RecordOf(d, next) ==
  IF next.id = 0 \/ d.written # <<>> \/ d.s.phase = next.phase \/ ~next.transcript THEN d.written
  ELSE IF next.phase \in {"restoringClipboard", "completed"} THEN <<"done">>
  ELSE IF next.phase = "error" THEN <<"error">>
  ELSE d.written

\* An event has made e of d.
Led(d, transition, e) ==
  /\ IsContext(e)
  /\ e.s = transition.state /\ e.queue = d.queue \o transition.effects
  /\ e.stage = d.stage /\ e.captureId = d.captureId
  /\ e.disposed = d.disposed /\ e.shutdown = d.shutdown
  /\ Begins(d, transition) =>
       /\ e.owner = "active" /\ ~e.captureOpening /\ ~e.stopCompleted
       /\ ~e.teardownComplete /\ e.written = <<>> /\ ~e.committed
  /\ ~Begins(d, transition) =>
       /\ e.owner = d.owner \/ (d.owner = "active" /\ e.owner = "aborted")
       /\ e.captureOpening = d.captureOpening /\ e.stopCompleted = d.stopCompleted
       /\ e.teardownComplete = d.teardownComplete /\ e.committed = d.committed
       /\ e.written = RecordOf(d, transition.state)

\* A transition that is dispatched leads to its state, with its effects behind
\* the queue.
LEMMA DispatchLeads ==
  ASSUME NEW d, NEW transition, IsContext(d), d.queue \in Seq(Effects)
  PROVE  Led(d, transition, Dispatch(d, transition))
<1> DEFINE previous == d.s
           next == transition.state
           failed == IF next.phase = "error" /\ previous.phase # "error"
                     THEN AbortOperation(d) ELSE d
           renewed == IF next.phase = "transcribing" /\ ~d.captureId
                      THEN [AbortOperation(failed) EXCEPT !.aborted = FALSE] ELSE failed
           entered == [renewed EXCEPT !.s = next]
           managed == Manage(entered, previous)
           moved == Record(managed, previous)
           queued == [moved EXCEPT !.queue = @ \o transition.effects]
<1>1. Same(d, failed) \/ Aborts(d, failed)
  BY AbortAborts DEF Same
<1>2. Same(d, renewed) \/ Aborts(d, renewed)
  <2> HIDE DEF failed
  <2>1. IsContext(failed)
    BY <1>1 DEF Same, Aborts
  <2> DEFINE again == AbortOperation(failed)
  <2>2. Aborts(failed, again)
    BY <2>1, AbortAborts
  <2> HIDE DEF again
  <2>3. Same(again, [again EXCEPT !.aborted = FALSE])
    BY <2>2, FieldsOf DEF Aborts, Same, IsContext
  <2> QED BY <1>1, <2>2, <2>3, SameChain DEF renewed, again
<1> HIDE DEF renewed
<1>3. /\ IsContext(renewed)
      /\ renewed.queue = d.queue /\ renewed.stage = d.stage /\ renewed.captureId = d.captureId
      /\ renewed.disposed = d.disposed /\ renewed.shutdown = d.shutdown
      /\ renewed.owner = d.owner \/ (d.owner = "active" /\ renewed.owner = "aborted")
      /\ renewed.captureOpening = d.captureOpening /\ renewed.stopCompleted = d.stopCompleted
      /\ renewed.teardownComplete = d.teardownComplete /\ renewed.committed = d.committed
      /\ renewed.written = d.written
  BY <1>2 DEF Same, Aborts
<1>4. /\ IsContext(entered) /\ entered.s = next
      /\ entered.queue = d.queue /\ entered.stage = d.stage /\ entered.captureId = d.captureId
      /\ entered.disposed = d.disposed /\ entered.shutdown = d.shutdown
      /\ entered.owner = d.owner \/ (d.owner = "active" /\ entered.owner = "aborted")
      /\ entered.captureOpening = d.captureOpening /\ entered.stopCompleted = d.stopCompleted
      /\ entered.teardownComplete = d.teardownComplete /\ entered.committed = d.committed
      /\ entered.written = d.written
  BY <1>3, FieldsOf DEF IsContext
<1> HIDE DEF entered
<1> DEFINE released == IF entered.s.phase = "idle" \/ IsTerminal(entered.s.phase)
                       THEN [entered EXCEPT !.active = FALSE] ELSE entered
<1>5. Same(entered, released)
  BY <1>4, FieldsOf DEF Same, IsContext
<1>6. managed = IF previous.phase = "idle" /\ next.phase = "arming" THEN BeginSession(released)
                ELSE IF CaptureModeFor(next.phase) # CaptureModeFor(previous.phase)
                THEN Ask(released, CaptureModeFor(next.phase))
                ELSE released
  BY <1>4 DEF Manage
<1> HIDE DEF released
<1>7. Begins(d, transition) =>
         /\ IsContext(managed) /\ managed.s = next
         /\ managed.queue = d.queue /\ managed.stage = d.stage /\ managed.captureId = d.captureId
         /\ managed.disposed = d.disposed /\ managed.shutdown = d.shutdown
         /\ managed.owner = "active" /\ ~managed.captureOpening /\ ~managed.stopCompleted
         /\ ~managed.teardownComplete /\ managed.written = <<>> /\ ~managed.committed
  <2> SUFFICES ASSUME Begins(d, transition)
               PROVE  /\ IsContext(managed) /\ managed.s = next
                      /\ managed.queue = d.queue /\ managed.stage = d.stage /\ managed.captureId = d.captureId
                      /\ managed.disposed = d.disposed /\ managed.shutdown = d.shutdown
                      /\ managed.owner = "active" /\ ~managed.captureOpening /\ ~managed.stopCompleted
                      /\ ~managed.teardownComplete /\ managed.written = <<>> /\ ~managed.committed
    OBVIOUS
  <2>1. managed = BeginSession(released)
    BY <1>6 DEF Begins
  <2>2. /\ IsContext(released) /\ released.s = next
        /\ released.queue = d.queue /\ released.stage = d.stage /\ released.captureId = d.captureId
        /\ released.disposed = d.disposed /\ released.shutdown = d.shutdown
    BY <1>4, <1>5 DEF Same
  <2> HIDE DEF managed
  <2> QED BY <2>1, <2>2, FieldsOf DEF BeginSession, IsContext
<1>8. ~Begins(d, transition) => Same(entered, managed)
  <2>1. \A mode : Same(released, Ask(released, mode))
    BY <1>5, AskSame DEF Same
  <2> QED BY <1>5, <1>6, <2>1, SameChain DEF Begins
<1> HIDE DEF managed
<1>9. /\ IsContext(moved) /\ moved.s = next
      /\ moved.queue = d.queue /\ moved.stage = d.stage /\ moved.captureId = d.captureId
      /\ moved.disposed = d.disposed /\ moved.shutdown = d.shutdown
      /\ moved.owner = managed.owner
      /\ moved.captureOpening = managed.captureOpening /\ moved.stopCompleted = managed.stopCompleted
      /\ moved.teardownComplete = managed.teardownComplete /\ moved.committed = managed.committed
      /\ moved.written = RecordOf([d EXCEPT !.written = managed.written], next)
  <2>1. /\ IsContext(managed) /\ managed.s = next
        /\ managed.queue = d.queue /\ managed.stage = d.stage /\ managed.captureId = d.captureId
        /\ managed.disposed = d.disposed /\ managed.shutdown = d.shutdown
    BY <1>4, <1>7, <1>8 DEF Same
  <2> DEFINE e == [d EXCEPT !.written = managed.written]
  <2>2. e.written = managed.written /\ e.s = d.s
    BY FieldsOf DEF IsContext
  <2> HIDE DEF e
  <2>3. managed.written = <<>> =>
          Append(managed.written, "done") = <<"done">> /\ Append(managed.written, "error") = <<"error">>
    OBVIOUS
  <2> QED BY <2>1, <2>2, <2>3, FieldsOf DEF Record, RecordOf, IsContext, e
<1> HIDE DEF moved
<1>10. /\ IsContext(queued) /\ queued.s = next /\ queued.queue = d.queue \o transition.effects
       /\ queued.stage = d.stage /\ queued.captureId = d.captureId
       /\ queued.disposed = d.disposed /\ queued.shutdown = d.shutdown
       /\ queued.owner = managed.owner
       /\ queued.captureOpening = managed.captureOpening /\ queued.stopCompleted = managed.stopCompleted
       /\ queued.teardownComplete = managed.teardownComplete /\ queued.committed = managed.committed
       /\ queued.written = RecordOf([d EXCEPT !.written = managed.written], next)
  BY <1>9, FieldsOf DEF IsContext
<1>11. Dispatch(d, transition) = IF next = previous /\ transition.effects = <<>> THEN d
          ELSE IF next.phase = "error" /\ next.id = 0 /\ previous.phase = "idle"
          THEN ScheduleTerminalReset(queued)
          ELSE queued
  BY DEF Dispatch, renewed, entered, managed, moved
<1> HIDE DEF queued
<1>12. /\ Begins(d, transition) => managed.written = <<>> /\ next.phase = "arming"
       /\ ~Begins(d, transition) => managed.written = d.written
  BY <1>4, <1>7, <1>8 DEF Same, Begins
<1>13. /\ Begins(d, transition) => RecordOf([d EXCEPT !.written = managed.written], next) = <<>>
       /\ ~Begins(d, transition) => RecordOf([d EXCEPT !.written = managed.written], next) = RecordOf(d, next)
  <2> DEFINE e == [d EXCEPT !.written = managed.written]
  <2>1. e.written = managed.written /\ e.s = d.s
    BY FieldsOf DEF IsContext
  <2> HIDE DEF e
  <2> QED BY <1>12, <2>1 DEF RecordOf, e
<1>14. CASE next = previous /\ transition.effects = <<>>
  <2>1. Dispatch(d, transition) = d /\ ~Begins(d, transition) /\ RecordOf(d, next) = d.written
    BY <1>11, <1>14 DEF Begins, RecordOf
  <2>2. d.queue \o <<>> = d.queue
    BY QueueEmpty
  <2> QED BY <1>14, <2>1, <2>2 DEF Led
<1>15. CASE ~(next = previous /\ transition.effects = <<>>)
  <2>1. Same(queued, Dispatch(d, transition))
    <3>1. Same(queued, queued) /\ Same(queued, ScheduleTerminalReset(queued))
      BY <1>10, ScheduleSame DEF Same
    <3>2. Dispatch(d, transition) = queued \/ Dispatch(d, transition) = ScheduleTerminalReset(queued)
      BY <1>11, <1>15
    <3> QED BY <3>1, <3>2
  <2> QED BY <1>4, <1>7, <1>8, <1>10, <1>13, <2>1 DEF Same, Led
<1> QED BY <1>14, <1>15

-----------------------------------------------------------------------------
(* What the session's operations keep                                      *)

\* What a session that has become e holds, d held, and what it waits for.
Retains(d, e) ==
  /\ d.owner # "none" =>
       /\ e.s.id = d.s.id /\ e.owner # "none"
       /\ e.stopCompleted => d.stopCompleted
       /\ d.captureId => e.captureId
       /\ d.captureOpening => e.captureOpening
       /\ e.stage \in Late => d.stage \in Late

\* The insertion waits on for its paste.
WaitsStill(d, e) == Waiting(d) => Waiting(e)

\* The recording is not over with it.
HearsNot(d, e) == Heard(e.s.phase) => Heard(d.s.phase) /\ e.s.id = d.s.id

\* Nor is its paste shown to be done.
ProvesNot(d, e) == Proven(e) => Proven(d)

\* What an operation that leaves the session in order makes of it.
Serves(d, e) ==
  Orderly(e) /\ Retains(d, e) /\ WaitsStill(d, e) /\ HearsNot(d, e) /\ ProvesNot(d, e)

\* Steps that serve the session may follow each other.
LEMMA ServesChain ==
  ASSUME NEW d, NEW e, NEW f
  PROVE  /\ Orderly(d) => Serves(d, d)
         /\ Serves(d, e) /\ Serves(e, f) => Serves(d, f)
         /\ Retains(d, e) /\ Retains(e, f) => Retains(d, f)
BY DEF Serves, Retains, WaitsStill, HearsNot, ProvesNot

\* What keeps the session serves it.
LEMMA SameServes == ASSUME NEW d, NEW e, Orderly(d), Same(d, e) PROVE Serves(d, e)
<1>1. InOrder(e)
  BY DEF Orderly, InOrder, Same, Ending
<1>2. Shaped(e)
  BY DEF Orderly, Shaped, Same, Ending
<1>3. Written(e)
  BY DEF Orderly, Written, Same
<1>4. Owned(e)
  BY DEF Orderly, Owned, Same
<1>5. Retains(d, e) /\ WaitsStill(d, e) /\ HearsNot(d, e) /\ ProvesNot(d, e)
  BY DEF Same, Retains, WaitsStill, HearsNot, ProvesNot, Proven, Waiting
<1> QED BY <1>1, <1>2, <1>3, <1>4, <1>5 DEF Orderly, Serves, Same

\* What aborts its operation serves it.
LEMMA AbortsServes == ASSUME NEW d, NEW e, Orderly(d), Aborts(d, e) PROVE Serves(d, e)
<1>1. InOrder(e)
  BY DEF Orderly, InOrder, Aborts, Ending
<1>2. Shaped(e)
  BY DEF Orderly, Shaped, Aborts, Ending
<1>3. Written(e)
  BY DEF Orderly, Written, Aborts
<1>4. Owned(e)
  BY DEF Orderly, Owned, Aborts
<1>5. Retains(d, e) /\ WaitsStill(d, e) /\ HearsNot(d, e) /\ ProvesNot(d, e)
  BY DEF Aborts, Retains, WaitsStill, HearsNot, ProvesNot, Proven, Waiting
<1> QED BY <1>1, <1>2, <1>3, <1>4, <1>5 DEF Orderly, Serves, Aborts

\* The first effect is over.
LEMMA DoneServes ==
  ASSUME NEW d, Orderly(d), d.queue # <<>>, Ending(d) => d.owner = "none"
  PROVE  /\ Orderly(Done(d)) /\ Retains(d, Done(d)) /\ HearsNot(d, Done(d)) /\ ProvesNot(d, Done(d))
         /\ ~Waiting(d) => Serves(d, Done(d))
<1> DEFINE e == Done(d)
<1>1. /\ IsContext(e) /\ e.s = d.s /\ e.queue = Tail(d.queue) /\ e.stage = "ready"
      /\ e.owner = d.owner /\ e.captureId = d.captureId /\ e.captureOpening = d.captureOpening
      /\ e.stopCompleted = d.stopCompleted /\ e.teardownComplete = d.teardownComplete
      /\ e.written = d.written /\ e.committed = d.committed
      /\ e.disposed = d.disposed /\ e.shutdown = d.shutdown
  BY FieldsOf DEF Done, Orderly, IsContext
<1> HIDE DEF e
<1>2. /\ e.queue \in Seq(Effects) /\ Rising(e.queue)
      /\ Elements(d.queue) = {Head(d.queue)} \cup Elements(e.queue)
      /\ Elements(e.queue) \subseteq Later(Head(d.queue))
      /\ e.queue = <<>> <=> Elements(e.queue) = {}
      /\ Head(d.queue) \in Effects
  BY <1>1, QueueTail, QueueEmpty DEF Orderly, InOrder
<1>3. InOrder(e)
  BY <1>1, <1>2 DEF Orderly, InOrder, Ending
<1>4. Shaped(e)
  BY <1>1 DEF Orderly, Shaped, Ending
<1>5. Written(e)
  <2>1. d.s.id # 0 /\ d.committed => "insert" \notin Elements(e.queue)
    BY <1>1, <1>2 DEF Orderly, InOrder, Written, Ahead, Later, Ending
  <2> QED BY <1>1, <2>1 DEF Orderly, Written
<1>6. Owned(e)
  BY <1>1 DEF Orderly, Owned, Ending
<1>7. Retains(d, e) /\ HearsNot(d, e) /\ ProvesNot(d, e)
  BY <1>1 DEF Retains, HearsNot, ProvesNot, Proven, Late
<1> QED BY <1>1, <1>3, <1>4, <1>5, <1>6, <1>7 DEF Orderly, Serves, WaitsStill, e

\* An event and the end of the effect that has brought it come to the same in
\* either order.
LEMMA DoneLed ==
  ASSUME NEW d, NEW e, NEW transition, Orderly(d), d.queue # <<>>, Led(d, transition, e),
         transition.effects \in Seq(Effects)
  PROVE  Led(Done(d), transition, Done(e))
<1>1. /\ IsContext(Done(d)) /\ Done(d).s = d.s /\ Done(d).queue = Tail(d.queue) /\ Done(d).stage = "ready"
      /\ Done(d).owner = d.owner /\ Done(d).captureId = d.captureId
      /\ Done(d).captureOpening = d.captureOpening
      /\ Done(d).stopCompleted = d.stopCompleted /\ Done(d).teardownComplete = d.teardownComplete
      /\ Done(d).written = d.written /\ Done(d).committed = d.committed
      /\ Done(d).disposed = d.disposed /\ Done(d).shutdown = d.shutdown
  BY FieldsOf DEF Done, Orderly, IsContext
<1>2. /\ IsContext(Done(e)) /\ Done(e).s = e.s /\ Done(e).queue = Tail(e.queue) /\ Done(e).stage = "ready"
      /\ Done(e).owner = e.owner /\ Done(e).captureId = e.captureId
      /\ Done(e).captureOpening = e.captureOpening
      /\ Done(e).stopCompleted = e.stopCompleted /\ Done(e).teardownComplete = e.teardownComplete
      /\ Done(e).written = e.written /\ Done(e).committed = e.committed
      /\ Done(e).disposed = e.disposed /\ Done(e).shutdown = e.shutdown
  BY FieldsOf DEF Done, Led, IsContext
<1>3. Tail(d.queue \o transition.effects) = Tail(d.queue) \o transition.effects
  BY QueueJoin DEF Orderly, InOrder
<1>4. Begins(Done(d), transition) <=> Begins(d, transition)
  BY <1>1 DEF Begins
<1>5. RecordOf(Done(d), transition.state) = RecordOf(d, transition.state)
  BY <1>1 DEF RecordOf
<1> QED BY <1>1, <1>2, <1>3, <1>4, <1>5 DEF Led

\* Such an event that does not begin a session keeps what it holds.
LEMMA LedRetains ==
  ASSUME NEW d, NEW e, NEW transition, Orderly(d), Led(d, transition, e),
         ~Begins(d, transition), e.s.id = d.s.id,
         e.s.completion = "inserted" => d.s.completion = "inserted" \/ (d.s.id # 0 /\ d.committed),
         Waiting(d) => transition.effects \in Seq(Effects)
  PROVE  Retains(d, e) /\ WaitsStill(d, e) /\ ProvesNot(d, e)
<1>1. Waiting(d) => Waiting(e)
  <2> SUFFICES ASSUME Waiting(d) PROVE Waiting(e)
    OBVIOUS
  <2>1. d.queue \in Seq(Effects) /\ d.queue # <<>> /\ transition.effects \in Seq(Effects)
    BY DEF Waiting, Orderly, InOrder
  <2>2. d.queue \o transition.effects # <<>> /\ Head(d.queue \o transition.effects) = Head(d.queue)
    BY <2>1, QueueJoin
  <2> QED BY <2>2 DEF Waiting, Led
<1> QED BY <1>1 DEF Led, Retains, WaitsStill, ProvesNot, Proven

-----------------------------------------------------------------------------
(* The events, one kind after the other                                    *)

\* What is noted of the session leaves its phase alone, or a quick release.
LEMMA FlagServes ==
  ASSUME NEW d, NEW e, NEW s \in Sessions(MaxSessions), Orderly(d), Led(d, Stay(s), e),
         s.id = d.s.id, s.transcript = d.s.transcript, s.completion = d.s.completion,
         s.phase = d.s.phase \/ (d.s.phase = "arming" /\ s.phase = "recordingQuick"),
         s.phase = "idle" => s = d.s,
         s.phase = "inserting" => s.insertion # "committed"
  PROVE  Serves(d, e)
<1>1. Stay(s).state = s /\ Stay(s).effects = <<>> /\ <<>> \in Seq(Effects)
  BY DEF Stay, To
<1>2. ~Begins(d, Stay(s))
  BY <1>1 DEF Begins
<1>3. e.queue = d.queue /\ e.s = s
  BY <1>1, QueueEmpty DEF Led, Orderly, InOrder
<1>4. InOrder(e)
  <2>1. Ahead(d.s.phase) = Ahead(s.phase)
    BY DEF Ahead
  <2>2. /\ IsCapture(s.phase) => IsCapture(d.s.phase)
        /\ d.s.phase = "idle" \/ IsTerminal(d.s.phase) => s.phase = d.s.phase
    BY DEF IsCapture, IsRecording, IsTerminal
  <2> QED BY <1>2, <1>3, <2>1, <2>2 DEF Orderly, InOrder, Ending, Led
<1>5. Shaped(e)
  BY <1>3 DEF Orderly, Shaped, Led, Heard, Ending
<1>6. Written(e)
  BY <1>1, <1>2, <1>3 DEF Orderly, Written, Led, RecordOf
<1>7. Owned(e)
  BY <1>2, <1>3 DEF Orderly, Owned, Led, IsTerminal
<1>8. Retains(d, e) /\ WaitsStill(d, e) /\ HearsNot(d, e) /\ ProvesNot(d, e)
  BY <1>1, <1>2, <1>3, LedRetains DEF HearsNot, Heard
<1> QED BY <1>4, <1>5, <1>6, <1>7, <1>8 DEF Orderly, Serves, Led

\* The recording goes on, or is transcribed.
LEMMA RecordServes ==
  ASSUME NEW d, NEW e, NEW s \in Sessions(MaxSessions), NEW effect, Orderly(d), Led(d, To(s, <<effect>>), e),
         IsCapture(d.s.phase), s.id = d.s.id, s.completion = d.s.completion,
         \/ effect = "transcribe" /\ s.phase = "transcribing"
         \/ effect = "begin-extended" /\ s.phase = "recordingExtended" /\ d.s.phase = "arming"
  PROVE  Serves(d, e)
<1>1. To(s, <<effect>>).state = s /\ To(s, <<effect>>).effects = <<effect>> /\ <<effect>> \in Seq(Effects)
      /\ effect \in Effects
  BY DEF To, Effects
<1>2. ~Begins(d, To(s, <<effect>>)) /\ d.s.id # 0 /\ ~d.disposed /\ ~Ending(d) /\ s.phase # d.s.phase
  BY <1>1 DEF Begins, Orderly, Owned, Shaped, IsCapture, IsRecording, IsTerminal, Ending
<1>3. \A other \in Elements(d.queue) : effect \in Later(other)
  BY <1>2 DEF Orderly, InOrder, Ahead, Later, IsCapture, IsRecording, Effects
<1>4. /\ e.queue \in Seq(Effects) /\ Rising(e.queue) /\ Elements(e.queue) = Elements(d.queue) \cup {effect}
      /\ e.queue # <<>> /\ e.s = s
  BY <1>1, <1>3, QueueAppend, ZenonT(40) DEF Led, Orderly, InOrder
<1>5. InOrder(e)
  <2>1. Elements(e.queue) \subseteq Ahead(s.phase)
    BY <1>2, <1>4 DEF Orderly, InOrder, Ahead, IsCapture, IsRecording
  <2>2. ~e.teardownComplete /\ ~e.stopCompleted
    BY <1>2 DEF Led, Orderly, InOrder, IsCapture, IsRecording, IsTerminal
  <2>3. ~Ending(e) /\ (e.stage = "settling" => e.committed)
    BY <1>2 DEF Led, Orderly, InOrder, Ending
  <2> QED BY <1>4, <2>1, <2>2, <2>3 DEF InOrder
<1>6. Shaped(e)
  BY <1>2, <1>4 DEF Orderly, Shaped, Heard, IsCapture, IsRecording
<1>7. Written(e)
  BY <1>1, <1>2, <1>4 DEF Orderly, Written, Led, RecordOf, IsCapture, IsRecording
<1>8. Owned(e)
  BY <1>2, <1>4 DEF Orderly, Owned, Led, Ending
<1>9. Retains(d, e) /\ WaitsStill(d, e) /\ HearsNot(d, e) /\ ProvesNot(d, e)
  BY <1>1, <1>2, <1>4, LedRetains DEF HearsNot, Heard
<1> QED BY <1>5, <1>6, <1>7, <1>8, <1>9 DEF Orderly, Serves, Led

\* A session ends without a paste.
LEMMA EndServes ==
  ASSUME NEW d, NEW e, NEW phase \in {"cancelled", "error"}, Orderly(d), ~Ending(d),
         Led(d, To([d.s EXCEPT !.phase = phase], <<"teardown">>), e),
         d.s.phase # "idle", ~IsTerminal(d.s.phase), d.s.phase # "restoringClipboard",
         d.s.phase = "inserting" => d.queue = <<>> /\ phase = "cancelled"
  PROVE  Serves(d, e)
<1> DEFINE s == [d.s EXCEPT !.phase = phase]
           t == To(s, <<"teardown">>)
<1>0. Led(d, t, e)
  OBVIOUS
<1>1. t.state = s /\ t.effects = <<"teardown">> /\ <<"teardown">> \in Seq(Effects) /\ "teardown" \in Effects
  BY DEF To, Effects
<1>2. s \in Sessions(MaxSessions) /\ s.phase = phase /\ s.id = d.s.id /\ s.transcript = d.s.transcript
      /\ s.completion = d.s.completion
  BY DEF Orderly, Shaped, Sessions, Phases
<1> HIDE DEF s, t
<1>3. ~Begins(d, t) /\ d.s.id # 0 /\ s.phase # d.s.phase
  BY <1>1, <1>2 DEF Begins, Orderly, Shaped, IsTerminal
<1>4. \A other \in Elements(d.queue) : "teardown" \in Later(other)
  <2>1. d.s.phase = "inserting" => Elements(d.queue) = {}
    BY QueueEmpty DEF Orderly, InOrder
  <2> QED BY <2>1 DEF Orderly, InOrder, Ahead, Later, IsTerminal, Effects
<1>5. /\ e.queue \in Seq(Effects) /\ Rising(e.queue)
      /\ Elements(e.queue) = Elements(d.queue) \cup {"teardown"}
      /\ e.queue # <<>> /\ e.s = s
  BY <1>0, <1>1, <1>4, QueueAppend, ZenonT(40) DEF Led, Orderly, InOrder
<1>6. ~Ending(e) /\ e.disposed = d.disposed /\ e.stage = d.stage /\ e.shutdown = d.shutdown
  BY <1>0 DEF Led, Ending
<1>7. InOrder(e)
  <2>1. Elements(e.queue) \subseteq Ahead(s.phase)
    <3>1. d.s.phase = "inserting" => Elements(d.queue) = {}
      BY QueueEmpty DEF Orderly, InOrder
    <3> QED BY <1>2, <1>5, <3>1 DEF Orderly, InOrder, Ahead, IsTerminal
  <2>2. ~d.teardownComplete
    BY DEF Orderly, InOrder
  <2>3. /\ e.teardownComplete = d.teardownComplete /\ e.stopCompleted = d.stopCompleted
        /\ e.committed = d.committed
    BY <1>0, <1>3 DEF Led
  <2>4. ~IsCapture(s.phase)
    BY <1>2 DEF IsCapture, IsRecording
  <2> QED BY <1>5, <1>6, <2>1, <2>2, <2>3, <2>4 DEF Orderly, InOrder
<1>8. Shaped(e)
  BY <1>2, <1>3, <1>5 DEF Orderly, Shaped, Heard, IsTerminal
<1>9. Written(e)
  <2>1. d.written = <<>> /\ ~d.committed
    BY <1>3 DEF Orderly, Written, IsTerminal
  <2>2. e.written = RecordOf(d, s) /\ e.committed = d.committed
    BY <1>0, <1>1, <1>3 DEF Led
  <2> QED BY <1>2, <1>3, <1>5, <2>1, <2>2 DEF Written, RecordOf
<1>10. Owned(e)
  BY <1>0, <1>2, <1>3, <1>5 DEF Orderly, Owned, Led, Ending, IsTerminal
<1>11. Retains(d, e) /\ WaitsStill(d, e) /\ HearsNot(d, e) /\ ProvesNot(d, e)
  BY <1>0, <1>1, <1>2, <1>3, <1>5, LedRetains DEF HearsNot, Heard
<1> QED BY <1>0, <1>7, <1>8, <1>9, <1>10, <1>11 DEF Orderly, Serves, Led

\* What was said is known: the smart profile or the insertion takes it.
LEMMA HeardServes ==
  ASSUME NEW d, NEW e, NEW s \in Sessions(MaxSessions), NEW effect, Orderly(d), ~Ending(d), d.queue = <<>>,
         Led(d, To(s, <<effect>>), e), d.s.phase \in {"transcribing", "processingSmart"},
         s.id = d.s.id, s.completion = d.s.completion, s.transcript,
         \/ effect = "process-smart" /\ s.phase = "processingSmart" /\ d.s.phase = "transcribing"
         \/ effect = "insert" /\ s.phase = "inserting" /\ s.insertion = "pending"
  PROVE  /\ Orderly(e) /\ Retains(d, e) /\ ProvesNot(d, e)
         /\ d.s.phase = "processingSmart" => Serves(d, e)
<1>1. To(s, <<effect>>).state = s /\ To(s, <<effect>>).effects = <<effect>> /\ <<effect>> \in Seq(Effects)
      /\ effect \in Effects
  BY DEF To, Effects
<1>2. ~Begins(d, To(s, <<effect>>)) /\ d.s.id # 0 /\ ~d.disposed /\ s.phase # d.s.phase
  BY <1>1 DEF Begins, Orderly, Owned, Shaped, IsTerminal
<1>3. Elements(d.queue) = {} /\ d.queue \in Seq(Effects) /\ Rising(d.queue)
  BY QueueEmpty DEF Orderly, InOrder
<1>4. /\ e.queue \in Seq(Effects) /\ Rising(e.queue) /\ Elements(e.queue) = {effect}
      /\ e.queue # <<>> /\ e.s = s
  <2>1. e.queue = d.queue \o <<effect>> /\ e.s = s
    BY <1>1 DEF Led
  <2>2. \A other \in Elements(d.queue) : effect \in Later(other)
    BY <1>3
  <2>3. Elements(d.queue \o <<effect>>) = Elements(d.queue) \cup {effect}
    BY <1>1, <1>3, <2>2, QueueAppend
  <2>4. /\ d.queue \o <<effect>> \in Seq(Effects) /\ Rising(d.queue \o <<effect>>)
        /\ d.queue \o <<effect>> # <<>>
    BY <1>1, <1>3, <2>2, QueueAppend
  <2> QED BY <1>3, <2>1, <2>3, <2>4
<1>5. InOrder(e)
  <2>1. Elements(e.queue) \subseteq Ahead(s.phase)
    BY <1>4 DEF Ahead
  <2>2. ~e.teardownComplete
    BY <1>2 DEF Led, Orderly, InOrder, IsTerminal
  <2>3. ~Ending(e) /\ (e.stage = "settling" => e.committed) /\ ~IsCapture(s.phase)
    BY <1>2 DEF Led, Orderly, InOrder, Ending, IsCapture, IsRecording
  <2> QED BY <1>4, <2>1, <2>2, <2>3 DEF InOrder
<1>6. Shaped(e)
  BY <1>2, <1>4 DEF Orderly, Shaped, Heard
<1>7. Written(e)
  BY <1>1, <1>2, <1>4 DEF Orderly, Written, Led, RecordOf
<1>8. Owned(e)
  BY <1>2, <1>4 DEF Orderly, Owned, Led, Ending
<1>9. /\ Retains(d, e) /\ WaitsStill(d, e) /\ ProvesNot(d, e)
      /\ d.s.phase = "processingSmart" => HearsNot(d, e)
  BY <1>1, <1>2, <1>4, LedRetains DEF HearsNot, Heard
<1> QED BY <1>5, <1>6, <1>7, <1>8, <1>9 DEF Orderly, Led, Serves

\* The insertion is over.
LEMMA CompleteServes ==
  ASSUME NEW d, NEW e, NEW completion \in {"inserted", "copied", "indeterminate"}, Orderly(d), ~Ending(d),
         d.queue = <<>>, d.s.phase \in {"inserting", "restoringClipboard"},
         Led(d, Inserted(d.s, completion), e),
         d.committed => completion = "inserted", completion = "inserted" => d.committed
  PROVE  Serves(d, e)
<1> DEFINE s == [d.s EXCEPT !.phase = "completed", !.completion = completion,
                            !.insertion = IF completion = "inserted" THEN "committed" ELSE "none"]
           t == To(s, <<"teardown">>)
<1>0. Led(d, t, e)
  BY DEF Inserted
<1>1. t.state = s /\ t.effects = <<"teardown">> /\ <<"teardown">> \in Seq(Effects) /\ "teardown" \in Effects
  BY DEF To, Effects
<1>2. s \in Sessions(MaxSessions) /\ s.phase = "completed" /\ s.id = d.s.id /\ s.transcript = d.s.transcript
      /\ s.completion = completion
  BY DEF Orderly, Shaped, Sessions, Phases
<1> HIDE DEF s, t
<1>3. ~Begins(d, t) /\ d.s.id # 0 /\ d.s.transcript
  BY <1>1, <1>2 DEF Begins, Orderly, Shaped, Heard
<1>4. Elements(d.queue) = {} /\ d.queue \in Seq(Effects) /\ Rising(d.queue)
  BY QueueEmpty DEF Orderly, InOrder
<1>5. /\ e.queue \in Seq(Effects) /\ Rising(e.queue) /\ Elements(e.queue) = {"teardown"}
      /\ e.queue # <<>> /\ e.s = s
  BY <1>0, <1>1, <1>4, QueueAppend DEF Led
<1>6. /\ ~Ending(e) /\ e.disposed = d.disposed /\ e.stage = d.stage /\ e.shutdown = d.shutdown
      /\ e.teardownComplete = d.teardownComplete /\ e.stopCompleted = d.stopCompleted
      /\ e.committed = d.committed
  BY <1>0, <1>3 DEF Led, Ending
<1>7. InOrder(e)
  <2>1. Elements(e.queue) \subseteq Ahead(s.phase)
    BY <1>2, <1>5 DEF Ahead
  <2>2. ~d.teardownComplete /\ ~IsCapture(s.phase)
    BY <1>2 DEF Orderly, InOrder, IsCapture, IsRecording, IsTerminal
  <2> QED BY <1>5, <1>6, <2>1, <2>2 DEF Orderly, InOrder
<1>8. Shaped(e)
  BY <1>2, <1>3, <1>5 DEF Shaped
<1>9. Written(e)
  <2>1. d.written = IF d.s.phase = "restoringClipboard" THEN <<"done">> ELSE <<>>
    BY <1>3 DEF Orderly, Written
  <2>2. e.written = RecordOf(d, s)
    BY <1>0, <1>1, <1>3 DEF Led
  <2> QED BY <1>2, <1>3, <1>5, <1>6, <2>1, <2>2 DEF Written, RecordOf
<1>10. Owned(e)
  BY <1>0, <1>2, <1>3, <1>5 DEF Orderly, Owned, Led, Ending, IsTerminal
<1>11. Retains(d, e) /\ WaitsStill(d, e) /\ HearsNot(d, e) /\ ProvesNot(d, e)
  BY <1>0, <1>1, <1>2, <1>3, <1>5, LedRetains DEF HearsNot, Heard
<1> QED BY <1>0, <1>7, <1>8, <1>9, <1>10, <1>11 DEF Orderly, Serves, Led

\* The paste is committed: m is the session d that has heard of it.
LEMMA CommitServes ==
  ASSUME NEW d, NEW e, Orderly(d), Waiting(d),
         Led([d EXCEPT !.committed = TRUE], InsertionCommitted(d.s), e)
  PROVE  /\ Orderly(e) /\ Retains(d, e) /\ HearsNot(d, e)
         /\ e.committed /\ Waiting(e)
<1> DEFINE m == [d EXCEPT !.committed = TRUE]
           t == InsertionCommitted(d.s)
           s == t.state
<1>1. /\ m.s = d.s /\ m.queue = d.queue /\ m.stage = d.stage
      /\ m.owner = d.owner /\ m.captureId = d.captureId /\ m.captureOpening = d.captureOpening
      /\ m.stopCompleted = d.stopCompleted /\ m.teardownComplete = d.teardownComplete
      /\ m.written = d.written /\ m.committed = TRUE
      /\ m.disposed = d.disposed /\ m.shutdown = d.shutdown
  BY FieldsOf DEF Orderly, IsContext
<1>2. ~Ending(d) /\ d.s.phase \in {"inserting", "restoringClipboard"} /\ "insert" \in Elements(d.queue)
  <2>1. "insert" \in Elements(d.queue)
    BY QueueTail DEF Waiting, Orderly, InOrder
  <2> QED BY <2>1 DEF Orderly, InOrder, Ahead
<1>3. /\ t.effects = <<>>
      /\ s \in Sessions(MaxSessions) /\ s.phase = "restoringClipboard" /\ s.id = d.s.id
      /\ s.transcript = d.s.transcript /\ s.completion = d.s.completion
  <2> DEFINE done == [d.s EXCEPT !.phase = "restoringClipboard", !.insertion = "committed"]
  <2>1. /\ done \in Sessions(MaxSessions) /\ done.phase = "restoringClipboard" /\ done.id = d.s.id
        /\ done.transcript = d.s.transcript /\ done.completion = d.s.completion
    BY DEF Orderly, Shaped, Sessions, Phases
  <2>2. d.s.phase = "inserting" => d.s.insertion # "committed"
    BY DEF Orderly, Shaped
  <2> HIDE DEF done
  <2>3. t = Stay(IF d.s.phase = "inserting" THEN done ELSE d.s)
    BY <1>2, <2>2 DEF InsertionCommitted, done
  <2>4. t.effects = <<>> /\ s = IF d.s.phase = "inserting" THEN done ELSE d.s
    BY <2>3 DEF Stay, To
  <2>5. d.s \in Sessions(MaxSessions)
    BY DEF Orderly, Shaped
  <2> QED BY <1>2, <2>1, <2>4, <2>5
<1> HIDE DEF m, t
<1>4. Led(m, t, e)
  BY DEF m, t
<1>5. /\ ~Begins(m, t) /\ d.s.id # 0 /\ d.s.transcript
      /\ e.s = s /\ e.queue = d.queue
  <2>1. d.s.id # 0 /\ d.s.transcript
    BY <1>2 DEF Orderly, Shaped, Heard
  <2>2. ~Begins(m, t)
    BY <1>1, <1>3 DEF Begins
  <2>3. d.queue \o <<>> = d.queue
    BY QueueEmpty DEF Orderly, InOrder
  <2> QED BY <1>1, <1>3, <1>4, <2>1, <2>2, <2>3 DEF Led
<1>6. /\ IsContext(e) /\ e.stage = d.stage /\ e.disposed = d.disposed /\ e.shutdown = d.shutdown
      /\ e.owner # "none" <=> d.owner # "none"
      /\ e.owner = "active" => d.owner = "active"
      /\ e.captureId = d.captureId /\ e.captureOpening = d.captureOpening
      /\ e.stopCompleted = d.stopCompleted /\ e.teardownComplete = d.teardownComplete
      /\ e.committed = TRUE /\ e.written = RecordOf(m, s)
  BY <1>1, <1>4, <1>5 DEF Led
<1>7. InOrder(e)
  <2>1. Ahead(s.phase) = {"insert"} /\ Ahead(d.s.phase) = {"insert"} /\ ~Ending(e)
        /\ ~IsCapture(s.phase) /\ ~d.teardownComplete
    BY <1>2, <1>3, <1>6 DEF Ahead, Ending, IsCapture, IsRecording, Orderly, InOrder, IsTerminal
  <2> QED BY <1>2, <1>5, <1>6, <2>1 DEF Orderly, InOrder
<1>8. Shaped(e)
  BY <1>2, <1>3, <1>5 DEF Orderly, Shaped
<1>9. Written(e)
  <2>1. d.written = IF d.s.phase = "restoringClipboard" THEN <<"done">> ELSE <<>>
    BY <1>2, <1>5 DEF Orderly, Written
  <2> QED BY <1>1, <1>2, <1>3, <1>5, <1>6, <2>1 DEF Written, RecordOf, Waiting
<1>10. Owned(e)
  BY <1>2, <1>3, <1>5, <1>6 DEF Orderly, Owned, Ending
<1> QED
  BY <1>2, <1>3, <1>5, <1>6, <1>7, <1>8, <1>9, <1>10
  DEF Orderly, Retains, HearsNot, Heard, Waiting

\* Of no session the state is that of one.
LEMMA IdleType ==
  /\ IdleSession \in Sessions(MaxSessions)
  /\ IdleSession.id = 0 /\ IdleSession.phase = "idle" /\ IdleSession.completion = "none"
<1>1. 0 \in 0 .. MaxSessions
  BY MaxSessionsAssumption
<1> QED BY <1>1 DEF IdleSession, Sessions, Phases

\* A press arms a session.
LEMMA BeginServes ==
  ASSUME NEW d, NEW e, NEW id \in 1 .. MaxSessions, NEW smart \in BOOLEAN, NEW target \in BOOLEAN,
         Orderly(d), d.s.phase = "idle", ~d.disposed,
         Led(d, ShortcutDown(d.s, id, smart, target), e)
  PROVE  Serves(d, e) /\ e.s.id = id /\ e.s.phase = "arming" /\ e.owner = "active"
<1> DEFINE t == ShortcutDown(d.s, id, smart, target)
           s == t.state
<1>1. /\ t.effects = <<"start-capture">> /\ "start-capture" \in Effects
      /\ s \in Sessions(MaxSessions) /\ s.id = id /\ s.phase = "arming" /\ s.completion = "none"
  <2> DEFINE armed == [IdleSession EXCEPT !.id = id, !.phase = "arming", !.smart = smart, !.target = target]
  <2>1. id \in 0 .. MaxSessions
    BY MaxSessionsAssumption
  <2>2. armed \in Sessions(MaxSessions)
    BY <2>1, IdleType DEF Sessions, Phases
  <2>3. armed.id = id /\ armed.phase = "arming" /\ armed.completion = "none"
    BY IdleType DEF Sessions
  <2>4. t = To(armed, <<"start-capture">>)
    BY DEF ShortcutDown
  <2> HIDE DEF armed, t
  <2> QED BY <2>2, <2>3, <2>4 DEF To, Effects
<1> HIDE DEF t
<1>2. Led(d, t, e) /\ Begins(d, t)
  BY <1>1 DEF t, Begins
<1>3. ~Ending(d) /\ d.owner = "none" /\ d.s.id = 0 /\ Elements(d.queue) = {} /\ d.queue = <<>>
      /\ d.stage = "ready" /\ d.shutdown = "no"
  BY QueueEmpty DEF Orderly, InOrder, Owned, Shaped, Ahead, IdleSession, Ending
<1>4. /\ e.queue \in Seq(Effects) /\ Rising(e.queue) /\ Elements(e.queue) = {"start-capture"}
      /\ e.queue # <<>> /\ e.s = s
  BY <1>1, <1>2, <1>3, QueueAppend DEF Led, Orderly, InOrder
<1>5. id # 0
  BY MaxSessionsAssumption
<1>6. InOrder(e)
  <2>1. Elements(e.queue) \subseteq Ahead(s.phase) /\ ~Ending(e)
    BY <1>1, <1>2, <1>3, <1>4 DEF Ahead, Led, Ending
  <2> QED BY <1>2, <1>3, <1>4, <2>1 DEF Led, InOrder
<1>7. Shaped(e) /\ Written(e) /\ Owned(e)
  BY <1>1, <1>2, <1>3, <1>4, <1>5 DEF Led, Shaped, Written, Owned, Heard
<1>8. Retains(d, e) /\ WaitsStill(d, e) /\ HearsNot(d, e) /\ ProvesNot(d, e)
  BY <1>1, <1>2, <1>3, <1>4 DEF Retains, WaitsStill, HearsNot, ProvesNot, Proven, Heard, Waiting, Led
<1> QED BY <1>1, <1>2, <1>4, <1>6, <1>7, <1>8 DEF Orderly, Serves, Led

\* A session that is over is forgotten.
LEMMA IdleServes ==
  ASSUME NEW d, NEW e, Orderly(d), IsTerminal(d.s.phase), d.teardownComplete, Led(d, Stay(IdleSession), e)
  PROVE  Serves(d, e) /\ e.s.phase = "idle"
<1>1. /\ Stay(IdleSession).state = IdleSession /\ Stay(IdleSession).effects = <<>>
      /\ IdleSession \in Sessions(MaxSessions)
      /\ IdleSession.phase = "idle" /\ IdleSession.id = 0 /\ IdleSession.completion = "none"
  BY IdleType DEF Stay, To
<1>2. ~Begins(d, Stay(IdleSession)) /\ d.owner = "none"
  BY <1>1 DEF Begins, Orderly, Owned
<1>3. e.queue = d.queue /\ e.s = IdleSession
  BY <1>1, QueueEmpty DEF Led, Orderly, InOrder
<1>4. /\ IsContext(e) /\ e.stage = d.stage /\ e.disposed = d.disposed /\ e.shutdown = d.shutdown
      /\ e.owner = "none" /\ e.teardownComplete = d.teardownComplete
      /\ e.stopCompleted = d.stopCompleted /\ e.committed = d.committed /\ e.written = d.written
  BY <1>1, <1>2 DEF Led, RecordOf
<1>5. ~Ending(d) => Elements(d.queue) = {}
  BY QueueEmpty DEF Orderly, InOrder
<1>6. InOrder(e)
  BY <1>1, <1>3, <1>4, <1>5 DEF Orderly, InOrder, Ending, IsCapture, IsRecording
<1>7. Shaped(e) /\ Written(e)
  BY <1>1, <1>3, <1>4 DEF Shaped, Written, Heard, Orderly, InOrder, Ending
<1>8. Owned(e)
  BY <1>1, <1>3, <1>4 DEF Owned, Orderly
<1>9. ~Waiting(d)
  <2>1. d.queue # <<>> => Head(d.queue) \in Elements(d.queue) /\ "insert" \notin Elements(d.queue)
    BY <1>5, QueueTail DEF Orderly, InOrder
  <2> QED BY <2>1 DEF Waiting
<1> QED
  BY <1>1, <1>2, <1>3, <1>4, <1>6, <1>7, <1>8, <1>9
  DEF Orderly, Serves, Retains, WaitsStill, HearsNot, ProvesNot, Proven, Heard

\* A failure that no session is there for.
LEMMA OperationalServes ==
  ASSUME NEW d, NEW e, Orderly(d), d.s.phase = "idle", Led(d, OperationalFailure(d.s), e)
  PROVE  Serves(d, e)
<1> DEFINE t == OperationalFailure(d.s)
           s == t.state
<1>1. /\ t.effects = <<>> /\ s \in Sessions(MaxSessions) /\ s.phase = "error" /\ s.id = 0
      /\ s.completion = "none"
  <2> DEFINE failed == [IdleSession EXCEPT !.phase = "error"]
  <2>1. /\ failed \in Sessions(MaxSessions)
        /\ failed.id = 0 /\ failed.phase = "error" /\ failed.completion = "none"
    BY IdleType DEF Sessions, Phases
  <2>2. t = Stay(failed)
    BY DEF OperationalFailure
  <2> HIDE DEF failed, t
  <2> QED BY <2>1, <2>2 DEF Stay, To
<1> HIDE DEF t
<1>2. Led(d, t, e) /\ ~Begins(d, t)
  BY <1>1 DEF t, Begins
<1>3. e.queue = d.queue /\ e.s = s /\ d.owner = "none"
  BY <1>1, <1>2, QueueEmpty DEF Led, Orderly, InOrder, Owned, Shaped, IdleSession
<1>4. /\ IsContext(e) /\ e.stage = d.stage /\ e.disposed = d.disposed /\ e.shutdown = d.shutdown
      /\ e.owner = "none" /\ e.teardownComplete = d.teardownComplete
      /\ e.stopCompleted = d.stopCompleted /\ e.committed = d.committed /\ e.written = d.written
  BY <1>1, <1>2, <1>3 DEF Led, RecordOf
<1>5. ~Ending(d) => d.queue = <<>> /\ Elements(d.queue) = {}
  BY QueueEmpty DEF Orderly, InOrder, Ahead
<1>6. InOrder(e)
  BY <1>1, <1>3, <1>4, <1>5 DEF Orderly, InOrder, Ending, IsCapture, IsRecording, IsTerminal
<1>7. Shaped(e) /\ Written(e)
  BY <1>1, <1>3, <1>4, <1>5 DEF Shaped, Written, Heard, Orderly, Ending
<1>8. Owned(e)
  BY <1>1, <1>3, <1>4 DEF Owned, Orderly, IsTerminal
<1>9. ~Waiting(d)
  <2>1. d.queue # <<>> => Head(d.queue) \in Elements(d.queue) /\ "insert" \notin Elements(d.queue)
    BY <1>5, QueueTail DEF Orderly, InOrder
  <2> QED BY <2>1 DEF Waiting
<1> QED
  BY <1>1, <1>3, <1>4, <1>6, <1>7, <1>8, <1>9
  DEF Orderly, Serves, Retains, WaitsStill, HearsNot, ProvesNot, Proven, Heard

\* An event that changes nothing.
LEMMA StayServes == ASSUME NEW d, NEW e, Orderly(d), Led(d, Stay(d.s), e) PROVE Serves(d, e)
BY FlagServes DEF Orderly, Shaped

\* A failure ends a session that has not come to its insertion.
LEMMA FailServes ==
  ASSUME NEW d, NEW e, Orderly(d), Led(d, Fail(d.s), e),
         d.s.phase \notin {"inserting", "restoringClipboard"}
  PROVE  Serves(d, e)
<1>1. CASE d.s.phase = "idle" \/ IsTerminal(d.s.phase)
  BY <1>1, StayServes DEF Fail
<1>2. CASE ~(d.s.phase = "idle" \/ IsTerminal(d.s.phase))
  <2>1. ~Ending(d)
    BY <1>2 DEF Orderly, Owned, Ending
  <2>2. Led(d, To([d.s EXCEPT !.phase = "error"], <<"teardown">>), e)
    BY <1>2 DEF Fail, ToError
  <2> QED BY <1>2, <2>1, <2>2, EndServes
<1> QED BY <1>1, <1>2

\* So does its user; the smart profile's provider has the text inserted as it is.
LEMMA AbortServes ==
  ASSUME NEW d, NEW e, NEW provider \in BOOLEAN, Orderly(d), Led(d, Abort(d.s, provider), e),
         provider /\ d.s.phase = "processingSmart" => d.queue = <<>>
  PROVE  Serves(d, e)
<1>1. CASE d.s.phase \in {"idle", "restoringClipboard"} \/ IsTerminal(d.s.phase)
  BY <1>1, StayServes DEF Abort
<1>2. CASE d.s.phase = "inserting"
  <2> DEFINE s == [d.s EXCEPT !.insertion = "cancel-requested"]
  <2>1. /\ s \in Sessions(MaxSessions) /\ s.id = d.s.id /\ s.transcript = d.s.transcript
        /\ s.completion = d.s.completion /\ s.phase = d.s.phase /\ s.insertion = "cancel-requested"
    BY DEF Orderly, Shaped, Sessions
  <2>2. Led(d, Stay(s), e)
    BY <1>2 DEF Abort, IsTerminal
  <2> HIDE DEF s
  <2> QED BY <1>2, <2>1, <2>2, FlagServes
<1>3. CASE provider /\ d.s.phase = "processingSmart"
  <2> DEFINE s == [d.s EXCEPT !.fallback = TRUE, !.final = TRUE, !.phase = "inserting", !.insertion = "pending"]
  <2>1. /\ s \in Sessions(MaxSessions) /\ s.id = d.s.id /\ s.transcript = d.s.transcript
        /\ s.completion = d.s.completion /\ s.phase = "inserting" /\ s.insertion = "pending"
        /\ d.s.transcript
    BY <1>3 DEF Orderly, Shaped, Sessions, Phases, Heard
  <2>2. [[d.s EXCEPT !.fallback = TRUE, !.final = TRUE] EXCEPT !.phase = "inserting", !.insertion = "pending"] = s
    BY DEF Orderly, Shaped, Sessions
  <2>3. Led(d, To(s, <<"insert">>), e)
    BY <1>3, <2>1, <2>2 DEF Abort, IsTerminal, BeginInsertion
  <2>4. ~Ending(d)
    BY <1>3 DEF Orderly, Owned, Ending, IsTerminal
  <2> HIDE DEF s
  <2> QED BY <1>3, <2>1, <2>3, <2>4, HeardServes DEF Serves
<1>4. CASE ~(\/ d.s.phase \in {"idle", "restoringClipboard", "inserting"} \/ IsTerminal(d.s.phase)
             \/ provider /\ d.s.phase = "processingSmart")
  <2>1. ~Ending(d)
    BY <1>4 DEF Orderly, Owned, Ending
  <2>2. Led(d, To([d.s EXCEPT !.phase = "cancelled"], <<"teardown">>), e)
    BY <1>4 DEF Abort
  <2> QED BY <1>4, <2>1, <2>2, EndServes
<1> QED BY <1>1, <1>2, <1>3, <1>4

\* The events of a capture are noted, or make it go on.
LEMMA CaptureServes ==
  ASSUME NEW d, NEW e, NEW transition, Orderly(d), Led(d, transition, e),
         \/ \E field \in {"captureReady", "audioReady"} : transition = Ready(d.s, field)
         \/ transition = Submit(d.s)
         \/ transition = KeyboardDisconnected(d.s)
         \/ transition = Extend(d.s)
         \/ \E long \in BOOLEAN : transition = ShortcutUp(d.s, long)
  PROVE  Serves(d, e)
<1>0. d.s \in Sessions(MaxSessions)
  BY DEF Orderly, Shaped
<1>1. \A s \in Sessions(MaxSessions) :
        /\ s.id = d.s.id /\ s.transcript = d.s.transcript /\ s.completion = d.s.completion
        /\ s.phase = d.s.phase /\ IsCapture(d.s.phase)
        /\ transition \in {Stay(s), Transcribe(s)}
        => Serves(d, e)
  <2> SUFFICES ASSUME NEW s \in Sessions(MaxSessions),
                      s.id = d.s.id, s.transcript = d.s.transcript, s.completion = d.s.completion,
                      s.phase = d.s.phase, IsCapture(d.s.phase),
                      transition \in {Stay(s), Transcribe(s)}
               PROVE  Serves(d, e)
    OBVIOUS
  <2>1. CASE transition = Stay(s)
    BY <2>1, FlagServes DEF IsCapture, IsRecording
  <2>2. CASE transition = Transcribe(s)
    <3> DEFINE heard == [s EXCEPT !.phase = "transcribing", !.submitPending = FALSE]
    <3>1. heard \in Sessions(MaxSessions) /\ heard.id = s.id /\ heard.completion = s.completion
          /\ heard.phase = "transcribing"
      BY DEF Sessions, Phases
    <3>2. Led(d, To(heard, <<"transcribe">>), e)
      BY <2>2 DEF Transcribe
    <3> HIDE DEF heard
    <3> QED BY <3>1, <3>2, RecordServes
  <2> QED BY <2>1, <2>2
<1>2. CASE transition = Stay(d.s)
  BY <1>2, StayServes
<1>3. CASE \E field \in {"captureReady", "audioReady"} : transition = Ready(d.s, field)
  <2>1. PICK field \in {"captureReady", "audioReady"} : transition = Ready(d.s, field)
    BY <1>3
  <2> DEFINE ready == [d.s EXCEPT ![field] = TRUE]
  <2>2. /\ ready \in Sessions(MaxSessions) /\ ready.id = d.s.id /\ ready.transcript = d.s.transcript
        /\ ready.completion = d.s.completion /\ ready.phase = d.s.phase
    BY <1>0 DEF Sessions
  <2>3. transition = Stay(d.s) \/ (IsCapture(d.s.phase) /\ transition \in {Stay(ready), Transcribe(ready)})
    BY <2>1 DEF Ready
  <2> HIDE DEF ready
  <2> QED BY <1>1, <1>2, <2>2, <2>3
<1>4. \A s \in Sessions(MaxSessions) :
        /\ s.id = d.s.id /\ s.transcript = d.s.transcript /\ s.completion = d.s.completion
        /\ s.phase = d.s.phase /\ transition = Submit(s)
        => transition = Stay(s) \/ Serves(d, e)
  <2> SUFFICES ASSUME NEW s \in Sessions(MaxSessions),
                      s.id = d.s.id, s.transcript = d.s.transcript, s.completion = d.s.completion,
                      s.phase = d.s.phase, transition = Submit(s), transition # Stay(s)
               PROVE  Serves(d, e)
    OBVIOUS
  <2> DEFINE pending == [s EXCEPT !.submitPending = TRUE]
  <2>1. /\ pending \in Sessions(MaxSessions) /\ pending.id = s.id /\ pending.transcript = s.transcript
        /\ pending.completion = s.completion /\ pending.phase = s.phase
    BY DEF Sessions
  <2>2. IsCapture(s.phase) /\ transition \in {Transcribe(s), Stay(pending)}
    BY DEF Submit
  <2> HIDE DEF pending
  <2> QED BY <1>1, <2>1, <2>2
<1>5. CASE transition = Submit(d.s)
  BY <1>0, <1>2, <1>4, <1>5
<1>6. CASE transition = KeyboardDisconnected(d.s)
  <2> DEFINE lost == [d.s EXCEPT !.target = FALSE]
  <2>1. /\ lost \in Sessions(MaxSessions) /\ lost.id = d.s.id /\ lost.transcript = d.s.transcript
        /\ lost.completion = d.s.completion /\ lost.phase = d.s.phase /\ lost.insertion = d.s.insertion
    BY <1>0 DEF Sessions
  <2>2. transition = Stay(d.s) \/ (d.s.id # 0 /\ transition = Submit(lost))
    BY <1>6 DEF KeyboardDisconnected
  <2> HIDE DEF lost
  <2>3. CASE d.s.id # 0 /\ transition = Stay(lost)
    <3>1. d.s.phase # "idle" /\ (d.s.phase = "inserting" => d.s.insertion # "committed")
      BY <2>3 DEF Orderly, Shaped, IdleSession
    <3> QED BY <2>1, <2>3, <3>1, FlagServes
  <2> QED BY <1>2, <1>4, <2>1, <2>2, <2>3
<1>7. \A s : s = d.s /\ transition = Extend(s) => Serves(d, e)
  <2> SUFFICES ASSUME transition = Extend(d.s), transition # Stay(d.s)
               PROVE  Serves(d, e)
    BY <1>2
  <2> DEFINE extended == [d.s EXCEPT !.phase = "recordingExtended"]
  <2>1. /\ extended \in Sessions(MaxSessions) /\ extended.id = d.s.id
        /\ extended.completion = d.s.completion /\ extended.phase = "recordingExtended"
    BY <1>0 DEF Sessions, Phases
  <2>2. d.s.phase = "arming" /\ transition = To(extended, <<"begin-extended">>)
    BY DEF Extend
  <2> HIDE DEF extended
  <2> QED BY <2>1, <2>2, RecordServes DEF IsCapture
<1>8. CASE \E long \in BOOLEAN : transition = ShortcutUp(d.s, long)
  <2> DEFINE quick == [d.s EXCEPT !.phase = "recordingQuick"]
  <2>1. /\ quick \in Sessions(MaxSessions) /\ quick.id = d.s.id /\ quick.transcript = d.s.transcript
        /\ quick.completion = d.s.completion /\ quick.phase = "recordingQuick"
    BY <1>0 DEF Sessions, Phases
  <2>2. transition \in {Stay(d.s), Extend(d.s)} \/ (d.s.phase = "arming" /\ transition = Stay(quick))
    BY <1>8 DEF ShortcutUp
  <2> HIDE DEF quick
  <2> QED BY <1>2, <1>7, <2>1, <2>2, FlagServes
<1> QED BY <1>3, <1>5, <1>6, <1>7, <1>8

-----------------------------------------------------------------------------
(* The operations that dispatch them                                       *)

\* So it does from every orderly context.
LEMMA DispatchLed ==
  ASSUME NEW d, NEW transition, Orderly(d)
  PROVE  Led(d, transition, Dispatch(d, transition))
BY DispatchLeads DEF Orderly, InOrder

\* An effect before the text is known throws.
LEMMA ThrowsServes ==
  ASSUME NEW d, NEW abortError, Orderly(d), d.queue # <<>>,
         Head(d.queue) \notin {"insert", "teardown"}, Head(d.queue) = "process-smart" => abortError /\ d.signal
  PROVE  Serves(d, Throws(d, abortError)) /\ Throws(d, abortError).stage = "ready"
<1>1. ~Waiting(d) /\ ~Ending(d) /\ Head(d.queue) \in Elements(d.queue)
  BY QueueTail DEF Waiting, Orderly, InOrder
<1>2. CASE Throws(d, abortError) = Done(d)
  <2>1. Done(d).stage = "ready"
    BY FieldsOf DEF Done, Orderly, IsContext
  <2> QED BY <1>1, <1>2, <2>1, DoneServes
<1>3. CASE /\ Throws(d, abortError) = Done(Dispatch(AbortOperation(d), Fail(d.s)))
           /\ ~Over(d) /\ ~(abortError /\ d.signal)
  <2> DEFINE a == AbortOperation(d)
             e == Dispatch(a, Fail(a.s))
  <2>1. Aborts(d, a) /\ Serves(d, a)
    BY AbortAborts, AbortsServes DEF Orderly
  <2>2. a.s = d.s /\ a.queue = d.queue /\ a.stage = d.stage /\ a.shutdown = d.shutdown
    BY <2>1 DEF Aborts
  <2> HIDE DEF a
  <2>3. Orderly(a) /\ ~Waiting(a) /\ ~Ending(a)
    BY <1>1, <2>1, <2>2 DEF Serves, Waiting, Ending
  <2>4. Led(a, Fail(a.s), e)
    BY <2>3, DispatchLed
  <2> HIDE DEF e
  <2>5. Fail(a.s).effects \in Seq(Effects)
    <3>1. Fail(a.s).effects \in {<<>>, <<"teardown">>}
      BY DEF Fail, ToError, Stay, To
    <3>2. <<>> \in Seq(Effects) /\ <<"teardown">> \in Seq(Effects)
      BY DEF Effects
    <3> QED BY <3>1, <3>2
  <2>6. Led(Done(a), Fail(a.s), Done(e))
    BY <1>1, <2>2, <2>3, <2>4, <2>5, DoneLed
  <2>7. Serves(a, Done(a)) /\ Done(a).s = a.s
    <3>1. Done(a).s = a.s
      BY <2>3, FieldsOf DEF Done, Orderly, IsContext
    <3> QED BY <2>2, <2>3, <3>1, DoneServes
  <2>8. d.s.phase \notin {"inserting", "restoringClipboard"}
    BY <1>1 DEF Orderly, InOrder, Ahead
  <2>9. Serves(Done(a), Done(e))
    BY <2>2, <2>6, <2>7, <2>8, FailServes DEF Serves
  <2>10. Done(e).stage = "ready"
    BY <2>4, FieldsOf DEF Done, Led, IsContext
  <2> QED BY <1>3, <2>1, <2>2, <2>7, <2>9, <2>10, ServesChain DEF e, a
<1> QED BY <1>2, <1>3 DEF Throws

\* A stage of the effect that runs.
LEMMA AtServes ==
  ASSUME NEW d, NEW stage, Orderly(d), d.queue # <<>>,
         stage = "settling" => d.committed,
         d.s.id # 0 /\ d.committed /\ "insert" \in Elements(d.queue) => stage \in {"pasting", "settling"}
  PROVE  /\ Orderly(At(d, stage)) /\ At(d, stage).s = d.s /\ At(d, stage).owner = d.owner
         /\ At(d, stage).stage = stage /\ At(d, stage).queue = d.queue
         /\ At(d, stage).committed = d.committed
         /\ At(d, stage).captureOpening = d.captureOpening /\ At(d, stage).captureId = d.captureId
         /\ At(d, stage).stopCompleted = d.stopCompleted
         /\ HearsNot(d, At(d, stage)) /\ ProvesNot(d, At(d, stage))
         /\ stage \notin Late => Retains(d, At(d, stage))
         /\ stage \notin Late /\ (Waiting(d) => stage = "pasting") => Serves(d, At(d, stage))
<1> DEFINE e == At(d, stage)
<1>1. /\ IsContext(e) /\ e.s = d.s /\ e.queue = d.queue /\ e.stage = stage
      /\ e.owner = d.owner /\ e.captureId = d.captureId /\ e.captureOpening = d.captureOpening
      /\ e.stopCompleted = d.stopCompleted /\ e.teardownComplete = d.teardownComplete
      /\ e.written = d.written /\ e.committed = d.committed
      /\ e.disposed = d.disposed /\ e.shutdown = d.shutdown
  BY FieldsOf DEF At, Orderly, IsContext
<1> HIDE DEF e
<1>2. InOrder(e)
  BY <1>1 DEF Orderly, InOrder, Ending
<1>3. Shaped(e)
  BY <1>1 DEF Orderly, Shaped, Ending
<1>4. Written(e)
  BY <1>1 DEF Orderly, Written
<1>5. Owned(e)
  BY <1>1 DEF Orderly, Owned
<1>6. HearsNot(d, e) /\ ProvesNot(d, e) /\ (stage \notin Late => Retains(d, e))
  BY <1>1 DEF HearsNot, ProvesNot, Proven, Retains
<1>7. (Waiting(d) => stage = "pasting") => WaitsStill(d, e)
  BY <1>1 DEF WaitsStill, Waiting
<1> QED BY <1>1, <1>2, <1>3, <1>4, <1>5, <1>6, <1>7 DEF Orderly, Serves, e

\* Who has the microphone is not a question of the order.
LEMMA CaptureFields ==
  ASSUME NEW d, Orderly(d), NEW field \in {"captureId", "captureOpening"}, NEW value
  PROVE  /\ Orderly([d EXCEPT ![field] = value])
         /\ [d EXCEPT ![field] = value].s = d.s /\ [d EXCEPT ![field] = value].queue = d.queue
         /\ [d EXCEPT ![field] = value].stage = d.stage
         /\ [d EXCEPT ![field] = value].owner = d.owner
         /\ [d EXCEPT ![field] = value].stopCompleted = d.stopCompleted
         /\ [d EXCEPT ![field] = value].committed = d.committed
         /\ [d EXCEPT ![field] = value][field] = value
         /\ \A other \in {"captureId", "captureOpening"} \ {field} :
              [d EXCEPT ![field] = value][other] = d[other]
<1> DEFINE e == [d EXCEPT ![field] = value]
<1>1. /\ IsContext(e) /\ e.s = d.s /\ e.queue = d.queue /\ e.stage = d.stage
      /\ e.owner = d.owner
      /\ e.stopCompleted = d.stopCompleted /\ e.teardownComplete = d.teardownComplete
      /\ e.written = d.written /\ e.committed = d.committed
      /\ e.disposed = d.disposed /\ e.shutdown = d.shutdown
      /\ e[field] = value
      /\ \A other \in {"captureId", "captureOpening"} \ {field} : e[other] = d[other]
  BY FieldsOf DEF Orderly, IsContext
<1> HIDE DEF e
<1>2. InOrder(e)
  BY <1>1 DEF Orderly, InOrder, Ending
<1>3. Shaped(e)
  BY <1>1 DEF Orderly, Shaped, Ending
<1>4. Written(e)
  BY <1>1 DEF Orderly, Written
<1>5. Owned(e)
  BY <1>1 DEF Orderly, Owned
<1> QED BY <1>1, <1>2, <1>3, <1>4, <1>5 DEF Orderly, e

\* An effect ends with an event: f is the session whose effect has ended first.
LEMMA DoneDispatch ==
  ASSUME NEW d, NEW e, NEW transition, Orderly(d), d.queue # <<>>, Head(d.queue) # "teardown",
         transition.effects \in Seq(Effects), Led(d, transition, e)
  PROVE  \E f : /\ Orderly(f) /\ Retains(d, f) /\ HearsNot(d, f) /\ ProvesNot(d, f)
                /\ ~Waiting(d) => Serves(d, f)
                /\ Led(f, transition, Done(e))
                /\ f.s = d.s /\ f.committed = d.committed /\ f.shutdown = d.shutdown /\ ~Ending(f)
                /\ Elements(f.queue) \subseteq Later(Head(d.queue)) \cap Ahead(d.s.phase)
                /\ f.queue = <<>> <=> Elements(f.queue) = {}
<1> DEFINE f == Done(d)
<1>1. ~Ending(d) /\ Elements(Tail(d.queue)) \subseteq Later(Head(d.queue)) \cap Ahead(d.s.phase)
      /\ Tail(d.queue) \in Seq(Effects)
  BY QueueTail DEF Orderly, InOrder
<1>2. f.s = d.s /\ f.committed = d.committed /\ f.queue = Tail(d.queue) /\ f.shutdown = d.shutdown
  BY FieldsOf DEF Done, Orderly, IsContext
<1>3. /\ Orderly(f) /\ Retains(d, f) /\ HearsNot(d, f) /\ ProvesNot(d, f)
      /\ ~Waiting(d) => Serves(d, f)
  BY <1>1, DoneServes
<1>4. Led(f, transition, Done(e))
  BY DoneLed
<1>5. f.queue = <<>> <=> Elements(f.queue) = {}
  BY <1>1, <1>2, QueueEmpty
<1> HIDE DEF f
<1> QED BY <1>1, <1>2, <1>3, <1>4, <1>5 DEF Ending

\* A failure that the session is told of, or keeps for later.
LEMMA ReportServes ==
  ASSUME NEW d, Orderly(d)
  PROVE  Serves(d, ReportOperationalFailure(d))
<1> DEFINE a == AbortOperation(d)
           noted == [d EXCEPT !.pendingError = TRUE]
<1>1. Serves(d, d) /\ Serves(d, noted)
  <2>1. Same(d, noted)
    BY OtherSame DEF Others, Orderly
  <2> QED BY <2>1, SameServes, ServesChain
<1>2. d.s.phase = "idle" => Serves(d, Dispatch(d, OperationalFailure(d.s)))
  BY DispatchLed, OperationalServes
<1>3. d.s.phase \notin {"inserting", "restoringClipboard"} => Serves(d, Dispatch(a, Fail(d.s)))
  <2>1. Serves(d, a) /\ a.s = d.s
    BY AbortAborts, AbortsServes DEF Orderly, Aborts
  <2> HIDE DEF a
  <2>2. d.s.phase \notin {"inserting", "restoringClipboard"} => Serves(a, Dispatch(a, Fail(d.s)))
    BY <2>1, DispatchLed, FailServes DEF Serves
  <2> QED BY <2>1, <2>2, ServesChain
<1> QED BY <1>1, <1>2, <1>3 DEF ReportOperationalFailure

\* A session that is aborted: a is the one whose operation is.
LEMMA AbortSessionLed ==
  ASSUME NEW d, NEW provider, Orderly(d)
  PROVE  \E a : Aborts(d, a) /\ Led(a, Abort(d.s, provider), AbortSession(d, provider))
<1> DEFINE a == AbortOperation(d)
           renewed == [a EXCEPT !.aborted = FALSE]
<1>1. Aborts(d, a)
  BY AbortAborts DEF Orderly
<1>2. Aborts(d, renewed)
  <2> HIDE DEF a
  <2>1. Same(a, renewed)
    BY <1>1, OtherSame DEF Others, Aborts
  <2> QED BY <1>1, <2>1, SameChain
<1>3. AbortSession(d, provider) \in {Dispatch(a, Abort(d.s, provider)), Dispatch(renewed, Abort(d.s, provider))}
  BY DEF AbortSession
<1> HIDE DEF a, renewed
<1>4. \A b : Aborts(d, b) => Led(b, Abort(d.s, provider), Dispatch(b, Abort(d.s, provider)))
  BY AbortsServes, DispatchLed DEF Serves
<1> QED BY <1>1, <1>2, <1>3, <1>4

\* A cancellation serves the session.
LEMMA AbortSessionServes ==
  ASSUME NEW d, Orderly(d)
  PROVE  Serves(d, AbortSession(d, FALSE))
<1>1. PICK a : Aborts(d, a) /\ Led(a, Abort(d.s, FALSE), AbortSession(d, FALSE))
  BY AbortSessionLed
<1>2. Serves(d, a) /\ a.s = d.s
  BY <1>1, AbortsServes DEF Aborts
<1>3. Serves(a, AbortSession(d, FALSE))
  BY <1>1, <1>2, AbortServes DEF Serves
<1> QED BY <1>2, <1>3, ServesChain

\* What the session makes of a helper that is gone.
LEMMA KeyboardLostServes ==
  ASSUME NEW d, NEW survives, NEW message, Orderly(d)
  PROVE  Serves(d, KeyboardLost(d, survives, message))
<1> DEFINE unknown == [d EXCEPT !.rec = MarkAppliedUnknown(@)]
           asked == Ask(unknown, "off")
           lost == [asked EXCEPT !.nativeCaptureLost = TRUE]
<1>1. Same(d, unknown)
  BY FieldsOf DEF Same, Orderly, IsContext
<1> HIDE DEF unknown
<1>2. Same(d, asked)
  BY <1>1, AskSame, SameChain DEF Same
<1> HIDE DEF asked
<1>3. Same(d, lost)
  BY <1>2, OtherSame, SameChain DEF Same, Others
<1> HIDE DEF lost
<1>4. Serves(d, asked) /\ Serves(d, lost) /\ asked.s = d.s /\ lost.s = d.s
  BY <1>2, <1>3, SameServes DEF Same
<1>5. /\ Serves(asked, ReportOperationalFailure(asked))
      /\ Serves(asked, AbortSession(asked, FALSE))
      /\ Serves(lost, Dispatch(lost, KeyboardDisconnected(asked.s)))
  BY <1>4, ReportServes, AbortSessionServes, DispatchLed, CaptureServes DEF Serves
<1> QED BY <1>4, <1>5, ServesChain DEF KeyboardLost, unknown, asked, lost

-----------------------------------------------------------------------------
(* The steps                                                               *)

\* What a step leaves of the invariant, beside the capture's.
Holds == Orderly(c') /\ Held' /\ Pasting' /\ Planned'

\* A step of the plan.
LEMMA PlanStep ==
  ASSUME Planned, plan' = plan \/ (\E kind : Fault(kind)), native' \in Modes
  PROVE  Planned'
BY DEF Planned, Fault

\* A step that hears of nothing and leaves the resources alone keeps what is
\* held.
LEMMA HeldStep ==
  ASSUME Held, Retains(c, c'), HearsNot(c, c'), UNCHANGED <<mic, grant, stream>>
  PROVE  Held'
BY DEF Held, Retains, HearsNot, Current

\* A step that leaves the helper alone keeps what is known of the paste.
LEMMA PastingStep ==
  ASSUME Pasting, WaitsStill(c, c'), ProvesNot(c, c'), UNCHANGED <<wire, up, paste>>
  PROVE  Pasting'
BY DEF Pasting, WaitsStill, ProvesNot

\* The turn is over.
LEMMA BecomesServes ==
  ASSUME NEW d, Orderly(d), Becomes(d)
  PROVE  Serves(d, c') /\ Same(d, c')
BY BecomesSame, SameServes DEF Orderly

\* A step of the session alone.
LEMMA SessionStep ==
  ASSUME SessionInvariant, NEW d, Serves(c, d), Becomes(d), plan' = plan \/ (\E kind : Fault(kind)),
         UNCHANGED <<native, wire, up, mic, grant, stream, paste>>
  PROVE  Holds
<1>1. Serves(c, c')
  BY BecomesServes, ServesChain DEF Serves
<1>2. Held'
  BY <1>1, HeldStep DEF SessionInvariant, Serves
<1>3. Pasting'
  BY <1>1, PastingStep DEF SessionInvariant, Serves
<1>4. Planned'
  BY PlanStep DEF SessionInvariant, Planned
<1> QED BY <1>1, <1>2, <1>3, <1>4 DEF Holds, Serves

\* The effect that runs is one of its phase.
LEMMA RunningEffect ==
  ASSUME SessionInvariant, NEW effect, NEW stage, Running(effect, stage)
  PROVE  /\ Orderly(c) /\ c.queue # <<>> /\ Head(c.queue) = effect /\ c.stage = stage
         /\ effect \in Effects /\ effect \in Elements(c.queue)
         /\ Waiting(c) => effect = "insert" /\ stage = "pasting"
         /\ effect # "teardown" => ~Ending(c) /\ effect \in Ahead(c.s.phase) /\ c.s.id # 0
         /\ effect = "start-capture" => ~c.stopCompleted
         /\ c.s.id # 0 /\ c.committed /\ "insert" \in Elements(c.queue) => stage \in {"pasting", "settling"}
<1>1. Orderly(c) /\ c.queue # <<>> /\ Head(c.queue) = effect /\ c.stage = stage
  BY DEF SessionInvariant, Running
<1>2. effect \in Effects /\ effect \in Elements(c.queue)
  BY <1>1, QueueTail DEF Orderly, InOrder
<1>3. effect # "teardown" => ~Ending(c) /\ effect \in Ahead(c.s.phase) /\ c.s.id # 0
  BY <1>1, <1>2 DEF Orderly, InOrder, Shaped
<1> QED BY <1>1, <1>2, <1>3 DEF Waiting, Orderly, InOrder, Written

\* With the effect it ends.
LEMMA DoneStep ==
  ASSUME SessionInvariant, NEW effect \in Effects \ {"teardown"}, NEW stage, Running(effect, stage), ~Waiting(c)
  PROVE  /\ Serves(c, Done(c))
         /\ \A d : Same(c, d) => Serves(c, Done(d))
<1>1. \A d : Same(c, d) => Serves(c, Done(d))
  <2> SUFFICES ASSUME NEW d, Same(c, d) PROVE Serves(c, Done(d))
    OBVIOUS
  <2>1. Serves(c, d) /\ d.queue = c.queue /\ ~Waiting(d) /\ ~Ending(d) /\ Orderly(d)
    BY RunningEffect, SameServes DEF Same, Waiting, Ending, Serves
  <2>2. Serves(d, Done(d))
    BY <2>1, RunningEffect, DoneServes
  <2> QED BY <2>1, <2>2, ServesChain
<1>2. Same(c, c)
  BY DEF SessionInvariant, Orderly, Same
<1> QED BY <1>1, <1>2

\* The effects that do not touch the microphone, the stream or the paste.
LEMMA StartHolds == ASSUME SessionInvariant, BeginStartCapture PROVE Holds
<1> DEFINE d == TakeSignal(c)
<1>1. Orderly(c) /\ c.queue # <<>> /\ Head(c.queue) = "start-capture" /\ ~Waiting(c) /\ ~Ending(c)
  BY RunningEffect DEF BeginStartCapture
<1>2. Same(c, d) /\ Serves(c, d)
  BY <1>1, TakeSignalSame, SameServes DEF Orderly
<1> HIDE DEF d
<1>3. Orderly(d) /\ d.queue = c.queue /\ d.stage = c.stage /\ d.s = c.s
  BY <1>2 DEF Same, Serves
<1>4. Serves(d, Throws(d, TRUE))
  BY <1>1, <1>3, ThrowsServes
<1>5. Serves(c, Done(d))
  BY <1>1, <1>2, DoneStep DEF BeginStartCapture, Effects
<1>6. Serves(d, At(d, "widget"))
  <2>1. ~(c.s.id # 0 /\ c.committed /\ "insert" \in Elements(c.queue))
    BY RunningEffect DEF BeginStartCapture
  <2> QED BY <1>1, <1>2, <1>3, <2>1, AtServes DEF Same, Waiting, Late
<1>7. \E e : Serves(c, e) /\ Becomes(e)
  BY <1>2, <1>4, <1>5, <1>6, ServesChain DEF BeginStartCapture, d
<1> QED BY <1>7, SessionStep DEF BeginStartCapture

\* An effect that throws, or ends.
LEMMA ThrownHolds ==
  ASSUME SessionInvariant, WidgetFails \/ CaptureOpenFails \/ EffectAborted \/ StreamOpened \/ InferenceFails
  PROVE  Holds
<1>1. PICK effect \in {"start-capture", "begin-extended", "transcribe", "process-smart"},
           stage \in {"widget", "opening", "streaming", "inferring", "processing"} :
        Running(effect, stage) /\ (effect = "process-smart" => c.signal /\ EffectAborted)
  BY DEF WidgetFails, CaptureOpenFails, EffectAborted, StreamOpened, InferenceFails
<1>2. /\ Orderly(c) /\ c.queue # <<>> /\ Head(c.queue) = effect /\ ~Waiting(c)
      /\ effect \in Effects \ {"teardown"}
  BY <1>1, RunningEffect
<1>3. Serves(c, Done(c))
  BY <1>1, <1>2, DoneStep
<1>4. EffectAborted => Serves(c, Throws(c, TRUE))
  BY <1>2, ThrowsServes DEF EffectAborted
<1>5. ~EffectAborted => Serves(c, Throws(c, FALSE))
  BY <1>1, <1>2, ThrowsServes
<1>6. \E e : Serves(c, e) /\ Becomes(e)
  <2>1. CASE EffectAborted
    BY <1>4, <2>1 DEF EffectAborted
  <2>2. CASE ~EffectAborted
    BY <1>3, <1>5, <2>2 DEF WidgetFails, CaptureOpenFails, StreamOpened, InferenceFails
  <2> QED BY <2>1, <2>2
<1> QED
  BY <1>6, SessionStep
  DEF WidgetFails, CaptureOpenFails, EffectAborted, StreamOpened, InferenceFails

\* The capture is open.
LEMMA OpenedHolds == ASSUME SessionInvariant, CaptureOpened PROVE Holds
<1>1. /\ Orderly(c) /\ c.queue # <<>> /\ Head(c.queue) = "start-capture" /\ ~Waiting(c)
      /\ Running("start-capture", "opening") /\ "start-capture" \in Effects
  BY RunningEffect DEF CaptureOpened
<1> DEFINE t == Ready(c.s, "captureReady")
           e == Dispatch(c, t)
<1>2. t.effects \in Seq(Effects)
  <2>1. t.effects \in {<<>>, <<"transcribe">>}
    BY DEF Ready, Transcribe, Stay, To
  <2>2. <<>> \in Seq(Effects) /\ <<"transcribe">> \in Seq(Effects)
    BY DEF Effects
  <2> QED BY <2>1, <2>2
<1>3. Led(c, t, e)
  BY <1>1, DispatchLed
<1>4. \A f : f.s = c.s /\ Orderly(f) /\ Led(f, t, Done(e)) => Serves(f, Done(e))
  BY CaptureServes
<1> HIDE DEF t, e
<1>5. PICK f : Serves(c, f) /\ f.s = c.s /\ Led(f, t, Done(e))
  BY <1>1, <1>2, <1>3, DoneDispatch
<1>6. Serves(c, Done(e))
  BY <1>4, <1>5, ServesChain DEF Serves
<1>7. Serves(c, Done(c))
  BY <1>1, DoneStep
<1>8. \E g : Serves(c, g) /\ Becomes(g)
  BY <1>6, <1>7 DEF CaptureOpened, e, t
<1> QED BY <1>8, SessionStep DEF CaptureOpened

-----------------------------------------------------------------------------
(* The effects that stop and release                                       *)

\* A step of the context alone.
LEMMA ContextStep ==
  ASSUME SessionInvariant, Serves(c, c'), plan' = plan \/ (\E kind : Fault(kind)),
         UNCHANGED <<native, wire, up, mic, grant, stream, paste>>
  PROVE  Holds
<1>1. Held'
  BY HeldStep DEF SessionInvariant, Serves
<1>2. Pasting'
  BY PastingStep DEF SessionInvariant, Serves
<1>3. Planned'
  BY PlanStep DEF SessionInvariant, Planned
<1> QED BY <1>1, <1>2, <1>3 DEF Holds, Serves

\* While no insertion waits there is nothing of a paste under way.
LEMMA NoPasteStep ==
  ASSUME SessionInvariant, ~Waiting(c), ProvesNot(c, c'), UNCHANGED <<native, wire, up, paste>>,
         plan' = plan \/ (\E kind : Fault(kind))
  PROVE  Pasting' /\ Planned'
<1>1. Pasting'
  BY PastingStep DEF SessionInvariant, WaitsStill
<1>2. Planned'
  BY PlanStep DEF SessionInvariant, Planned
<1> QED BY <1>1, <1>2

\* The microphone has been stopped by then.
LEMMA LateHeld ==
  ASSUME Held, c.stage \in Late, HearsNot(c, c'),
         c.owner # "none" => c'.s.id = c.s.id /\ c'.owner # "none",
         UNCHANGED <<mic, grant, stream>>
  PROVE  Held'
BY DEF Held, HearsNot, Current

\* The session that runs an effect is the current one.
LEMMA SessionCurrent ==
  ASSUME SessionInvariant
  PROVE  /\ c.s.id # 0 => Session = c.s.id /\ Session \in SessionIds
         /\ \A k \in SessionIds : Current(k) => Session = k /\ c.s.id # 0
<1>1. c.s.id \in 0 .. MaxSessions
  BY DEF SessionInvariant, Orderly, Shaped, Sessions
<1> QED BY <1>1, MaxSessionsAssumption DEF Session, SessionIds, Current

\* The microphone is being opened.
LEMMA OpenHolds == ASSUME SessionInvariant, OpenCapture PROVE Holds
<1>1. /\ Orderly(c) /\ c.queue # <<>> /\ Head(c.queue) = "start-capture" /\ ~Waiting(c) /\ ~Ending(c)
      /\ Running("start-capture", "widget") /\ "start-capture" \in Effects
      /\ "start-capture" \in Ahead(c.s.phase) /\ c.s.id # 0 /\ ~c.stopCompleted
      /\ ~(c.s.id # 0 /\ c.committed /\ "insert" \in Elements(c.queue))
  BY RunningEffect DEF OpenCapture
<1>2. CASE ~IsActive(c)
  BY <1>1, <1>2, DoneStep, SessionStep DEF OpenCapture
<1>3. CASE IsActive(c)
  <2> DEFINE d == Await(c, "recording")
             opening == [d EXCEPT !.captureOpening = TRUE]
             e == At(opening, "opening")
  <2>1. Same(c, d) /\ Orderly(d)
    BY <1>1, AwaitSame, SameServes DEF Orderly, Serves
  <2> HIDE DEF d
  <2>2. /\ Orderly(opening) /\ opening.s = c.s /\ opening.queue = c.queue /\ opening.stage = c.stage
        /\ opening.owner = c.owner /\ opening.stopCompleted = c.stopCompleted
        /\ opening.committed = c.committed /\ opening.captureOpening = TRUE
    BY <2>1, CaptureFields DEF Same
  <2> HIDE DEF opening
  <2>3. /\ Orderly(e) /\ e.s = c.s /\ e.owner = c.owner /\ e.stage = "opening"
        /\ e.captureOpening = TRUE /\ e.stopCompleted = c.stopCompleted /\ e.committed = c.committed
    BY <1>1, <2>2, AtServes
  <2> HIDE DEF e
  <2>4. Becomes(e) /\ mic' = [mic EXCEPT ![Session] = "opening"]
    BY <1>3 DEF OpenCapture, d, opening, e
  <2>5. /\ Orderly(c') /\ c'.s = c.s /\ c'.owner = "active" /\ c'.stage = "opening"
        /\ c'.captureOpening = TRUE /\ ~c'.stopCompleted /\ c'.committed = c.committed
    BY <1>1, <1>3, <2>3, <2>4, BecomesServes DEF Same, Serves, IsActive
  <2>6. ~Heard(c.s.phase)
    BY <1>1 DEF Heard, Ahead
  <2>7. Session = c.s.id /\ Session \in SessionIds
    BY <1>1, SessionCurrent
  <2>8. Held'
    BY <2>4, <2>5, <2>6, <2>7 DEF SessionInvariant, OpenCapture, Held, Current, Late
  <2>9. Pasting' /\ Planned'
    <3>1. ProvesNot(c, c')
      BY <2>5 DEF ProvesNot, Proven
    <3> QED BY <1>1, <3>1, NoPasteStep DEF OpenCapture
  <2> QED BY <2>5, <2>8, <2>9 DEF Holds
<1> QED BY <1>2, <1>3

\* The stream is being opened.
LEMMA ExtendedHolds == ASSUME SessionInvariant, BeginExtended PROVE Holds
<1> DEFINE d == TakeSignal(c)
           e == At(d, "streaming")
<1>1. /\ Orderly(c) /\ c.queue # <<>> /\ Head(c.queue) = "begin-extended" /\ ~Waiting(c) /\ ~Ending(c)
      /\ "begin-extended" \in Ahead(c.s.phase) /\ c.s.id # 0
      /\ ~(c.s.id # 0 /\ c.committed /\ "insert" \in Elements(c.queue))
  BY RunningEffect DEF BeginExtended
<1>2. Same(c, d) /\ Serves(c, d)
  BY <1>1, TakeSignalSame, SameServes DEF Orderly
<1> HIDE DEF d
<1>3. Orderly(d) /\ d.queue = c.queue /\ d.stage = c.stage /\ d.s = c.s /\ d.committed = c.committed
  BY <1>2 DEF Same, Serves
<1>4. CASE ~IsActive(d)
  <2>1. Serves(c, Throws(d, TRUE))
    BY <1>1, <1>2, <1>3, ThrowsServes, ServesChain
  <2> QED BY <1>4, <2>1, SessionStep DEF BeginExtended, d
<1>5. CASE IsActive(d)
  <2>1. Becomes(e) /\ stream' = [stream EXCEPT ![Session] = "opening"]
    BY <1>5 DEF BeginExtended, d
  <2>2. Serves(c, e) /\ e.s = c.s
    <3>1. Serves(d, e) /\ e.s = d.s
      BY <1>1, <1>3, AtServes DEF Waiting, Late
    <3> HIDE DEF e
    <3> QED BY <1>2, <1>3, <3>1, ServesChain
  <2> HIDE DEF e
  <2>3. Serves(c, c') /\ c'.s = c.s
    BY <2>1, <2>2, BecomesServes, ServesChain DEF Serves, Same
  <2>4. Session = c.s.id /\ Session \in SessionIds /\ ~Heard(c.s.phase)
    BY <1>1, SessionCurrent DEF Heard, Ahead
  <2>5. Held'
    BY <2>1, <2>3, <2>4 DEF SessionInvariant, BeginExtended, Held, Current, Late, Serves, Retains
  <2>6. Pasting' /\ Planned'
    BY <1>1, <2>3, NoPasteStep DEF BeginExtended, Serves
  <2> QED BY <2>3, <2>5, <2>6 DEF Holds, Serves
<1> QED BY <1>4, <1>5

\* What stopCapture leaves of the microphone.
LEMMA StopHolds ==
  ASSUME SessionInvariant, NEW d, Orderly(d), StopCapture(d), c.queue # <<>>, ~Waiting(c),
         ~(c.s.id # 0 /\ c.committed /\ "insert" \in Elements(c.queue)),
         d.s = c.s, d.queue = c.queue, d.committed = c.committed,
         d.captureId = c.captureId, d.captureOpening = c.captureOpening, d.stopCompleted = c.stopCompleted,
         c.owner # "none" => d.owner # "none",
         UNCHANGED <<native, wire, up, grant, stream, paste, plan>>
  PROVE  Holds
<1> DEFINE asked == Await(d, CaptureModeFor(d.s.phase))
           m == [asked EXCEPT !.mwait = IF Stops(d) THEN "waiting" ELSE "ok"]
           e == At(m, "stopping")
<1>1. Same(d, asked)
  BY AwaitSame DEF Orderly
<1> HIDE DEF asked
<1>2. Same(d, m)
  <2>1. Same(asked, m)
    BY <1>1, FieldsOf DEF Same, IsContext
  <2> HIDE DEF m
  <2> QED BY <1>1, <2>1, SameChain
<1> HIDE DEF m
<1>3. Orderly(m) /\ m.s = c.s /\ m.owner = d.owner /\ m.queue = c.queue /\ m.committed = c.committed
  BY <1>2, SameServes DEF Same, Serves
<1>4. Orderly(e) /\ e.s = c.s /\ e.owner = d.owner /\ e.committed = c.committed
  BY <1>3, AtServes
<1> HIDE DEF e
<1>5. Becomes(e) /\ mic' = IF Stops(d) THEN [mic EXCEPT ![Session] = Stopping(@)] ELSE mic
  BY DEF StopCapture, asked, m, e
<1>6. Orderly(c') /\ c'.s = c.s /\ c'.owner = d.owner /\ c'.committed = c.committed
  BY <1>4, <1>5, BecomesServes DEF Same, Serves
<1>7. Held'
  <2>1. \A k \in SessionIds : mic[k] \in {"opening", "on"} => Stops(d) /\ Session = k
    BY SessionCurrent DEF SessionInvariant, Held, Stops
  <2>2. mic' \in [SessionIds -> {"none", "opening", "on", "stopping", "stopped", "failed"}]
    BY <1>5 DEF SessionInvariant, Held, Stopping
  <2>3. \A k \in SessionIds : mic'[k] \notin {"opening", "on"}
    BY <1>5, <2>1 DEF SessionInvariant, Held, Stopping
  <2> QED BY <1>6, <2>2, <2>3 DEF SessionInvariant, Held, Current
<1>8. Pasting' /\ Planned'
  <2>1. ProvesNot(c, c')
    BY <1>6 DEF ProvesNot, Proven
  <2> QED BY <2>1, NoPasteStep
<1> QED BY <1>6, <1>7, <1>8 DEF Holds

\* The capture is stopped for the transcription.
LEMMA TranscribeHolds == ASSUME SessionInvariant, BeginTranscribe PROVE Holds
<1> DEFINE d == TakeSignal(c)
<1>1. /\ Orderly(c) /\ c.queue # <<>> /\ ~Waiting(c)
      /\ ~(c.s.id # 0 /\ c.committed /\ "insert" \in Elements(c.queue))
  BY RunningEffect DEF BeginTranscribe
<1>2. Same(c, d) /\ Orderly(d)
  BY <1>1, TakeSignalSame, SameServes DEF Orderly, Serves
<1>3. StopCapture(d)
  BY DEF BeginTranscribe
<1> HIDE DEF d
<1> QED BY <1>1, <1>2, <1>3, StopHolds DEF BeginTranscribe, Same

\* The capture is stopped for good.
LEMMA TeardownHolds == ASSUME SessionInvariant, BeginTeardown PROVE Holds
<1> DEFINE d == TakeSignal(c)
           closing == [d EXCEPT !.owner = IF @ = "none" THEN @ ELSE "closing", !.resetTimer = FALSE]
<1>1. /\ Orderly(c) /\ c.queue # <<>> /\ ~Waiting(c)
      /\ ~(c.s.id # 0 /\ c.committed /\ "insert" \in Elements(c.queue))
  BY RunningEffect DEF BeginTeardown
<1>2. CASE c.teardownComplete /\ c.rec.off
  <2>1. Serves(c, Done(c))
    BY <1>1, <1>2, DoneServes DEF Orderly, Owned
  <2> QED BY <1>2, <2>1, SessionStep DEF BeginTeardown
<1>3. CASE ~(c.teardownComplete /\ c.rec.off)
  <2>1. Same(c, d) /\ Orderly(d)
    BY <1>1, TakeSignalSame, SameServes DEF Orderly, Serves
  <2>2. StopCapture(closing)
    BY <1>3 DEF BeginTeardown
  <2> HIDE DEF d
  <2>3. /\ IsContext(closing) /\ closing.s = d.s /\ closing.queue = d.queue /\ closing.stage = d.stage
        /\ closing.owner = (IF d.owner = "none" THEN "none" ELSE "closing")
        /\ closing.captureId = d.captureId /\ closing.captureOpening = d.captureOpening
        /\ closing.stopCompleted = d.stopCompleted /\ closing.teardownComplete = d.teardownComplete
        /\ closing.written = d.written /\ closing.committed = d.committed
        /\ closing.disposed = d.disposed /\ closing.shutdown = d.shutdown
    BY <2>1, FieldsOf DEF IsContext, Same
  <2> HIDE DEF closing
  <2>4. InOrder(closing)
    BY <2>1, <2>3 DEF Orderly, InOrder, Ending
  <2>5. Shaped(closing)
    BY <2>1, <2>3 DEF Orderly, Shaped, Ending
  <2>6. Written(closing)
    BY <2>1, <2>3 DEF Orderly, Written
  <2>7. Owned(closing)
    BY <2>1, <2>3 DEF Orderly, Owned
  <2>8. Orderly(closing)
    BY <2>3, <2>4, <2>5, <2>6, <2>7 DEF Orderly
  <2> QED BY <1>1, <1>3, <2>1, <2>2, <2>3, <2>8, StopHolds DEF BeginTeardown, Same
<1> QED BY <1>2, <1>3

\* A short list of effects is one.
LEMMA ShortEffects ==
  ASSUME NEW t, t.effects = <<>> \/ \E effect \in Effects : t.effects = <<effect>>
  PROVE  t.effects \in Seq(Effects)
<1>1. <<>> \in Seq(Effects)
  OBVIOUS
<1>2. \A effect \in Effects : <<effect>> \in Seq(Effects)
  OBVIOUS
<1> QED BY <1>1, <1>2

\* The transitions that the effects' answers lead to.
LEMMA AnswerEffects ==
  ASSUME NEW s, NEW b \in BOOLEAN, NEW completion
  PROVE  /\ Transcribed(s, b).effects \in Seq(Effects)
         /\ VoiceCommandMatched(s).effects \in Seq(Effects)
         /\ SmartCompleted(s, b).effects \in Seq(Effects)
         /\ Abort(s, b).effects \in Seq(Effects)
         /\ InsertionCommitted(s).effects \in Seq(Effects)
         /\ InsertionCancelled(s).effects \in Seq(Effects)
         /\ Inserted(s, completion).effects \in Seq(Effects)
<1>1. Transcribed(s, b).effects \in {<<>>, <<"teardown">>, <<"process-smart">>, <<"insert">>}
  BY DEF Transcribed, BeginInsertion, ToError, Stay, To
<1>2. VoiceCommandMatched(s).effects \in {<<>>, <<"insert">>}
  BY DEF VoiceCommandMatched, BeginInsertion, Stay, To
<1>3. SmartCompleted(s, b).effects \in {<<>>, <<"teardown">>, <<"insert">>}
  BY DEF SmartCompleted, BeginInsertion, ToError, Stay, To
<1>4. Abort(s, b).effects \in {<<>>, <<"teardown">>, <<"insert">>}
  BY DEF Abort, BeginInsertion, Stay, To
<1>5. InsertionCommitted(s).effects = <<>>
  BY DEF InsertionCommitted, Stay, To
<1>6. InsertionCancelled(s).effects \in {<<>>, <<"teardown">>}
  BY DEF InsertionCancelled, Stay, To
<1>7. Inserted(s, completion).effects \in {<<>>, <<"teardown">>}
  BY DEF Inserted, Stay, To
<1>8. {"teardown", "process-smart", "insert"} \subseteq Effects
  BY DEF Effects
<1> QED BY <1>1, <1>2, <1>3, <1>4, <1>5, <1>6, <1>7, <1>8, ShortEffects

\* The microphone has been asked to stop, and whether it has is noted.
LEMMA StoppedOrderly ==
  ASSUME SessionInvariant, NEW effect \in {"transcribe", "teardown"}, Running(effect, "stopping")
  PROVE  /\ Orderly(Stopped(c)) /\ Stopped(c).s = c.s /\ Stopped(c).queue = c.queue
         /\ Stopped(c).owner = c.owner /\ Stopped(c).committed = c.committed
         /\ Stopped(c).stage = c.stage
<1> DEFINE d == Stopped(c)
<1>1. Orderly(c) /\ c.queue # <<>> /\ Head(c.queue) = effect
  BY RunningEffect
<1>2. /\ IsContext(d) /\ d.s = c.s /\ d.queue = c.queue /\ d.stage = c.stage /\ d.owner = c.owner
      /\ d.captureId = c.captureId /\ d.captureOpening = c.captureOpening
      /\ d.teardownComplete = c.teardownComplete
      /\ d.written = c.written /\ d.committed = c.committed
      /\ d.disposed = c.disposed /\ d.shutdown = c.shutdown
  BY <1>1, FieldsOf DEF Stopped, Orderly, IsContext
<1> HIDE DEF d
<1>3. Elements(c.queue) \cap {"start-capture", "begin-extended"} = {}
  <2>1. /\ Elements(c.queue) = {effect} \cup Elements(Tail(c.queue))
        /\ Elements(Tail(c.queue)) \subseteq Later(effect)
    BY <1>1, QueueTail DEF Orderly, InOrder
  <2> QED BY <2>1 DEF Later
<1>4. ~IsCapture(c.s.phase)
  <2>1. effect \in IF Ending(c) THEN {"teardown"} ELSE Ahead(c.s.phase)
    BY <1>1, QueueTail DEF Orderly, InOrder
  <2> QED BY <1>1, <2>1 DEF Ahead, Ending, Orderly, Owned, IsCapture, IsRecording, IsTerminal
<1>5. InOrder(d)
  BY <1>1, <1>2, <1>3, <1>4 DEF Orderly, InOrder, Ending
<1>6. Shaped(d)
  BY <1>1, <1>2 DEF Orderly, Shaped, Ending
<1>7. Written(d)
  BY <1>1, <1>2 DEF Orderly, Written
<1>8. Owned(d)
  BY <1>1, <1>2 DEF Orderly, Owned
<1> QED BY <1>2, <1>5, <1>6, <1>7, <1>8 DEF Orderly, d

\* A step from a session whose microphone has been stopped.
LEMMA LateStep ==
  ASSUME SessionInvariant, c.stage \in Late, ~Waiting(c), NEW e, Orderly(e), Becomes(e),
         c.owner # "none" => e.s.id = c.s.id /\ e.owner # "none",
         HearsNot(c, e), ProvesNot(c, e), plan' = plan \/ (\E kind : Fault(kind)),
         UNCHANGED <<native, wire, up, mic, grant, stream, paste>>
  PROVE  Holds
<1>1. Orderly(c') /\ c'.s = e.s /\ c'.owner = e.owner /\ c'.committed = e.committed
  BY BecomesServes DEF Serves, Same
<1>2. HearsNot(c, c') /\ ProvesNot(c, c')
  BY <1>1 DEF HearsNot, ProvesNot, Proven
<1>3. Held'
  BY <1>1, <1>2, LateHeld DEF SessionInvariant
<1>4. Pasting' /\ Planned'
  BY <1>2, NoPasteStep
<1> QED BY <1>1, <1>3, <1>4 DEF Holds

\* The transcription begins when the capture has been stopped.
LEMMA StoppedHolds == ASSUME SessionInvariant, CaptureStopped PROVE Holds
<1> DEFINE d == Stopped(c)
           t == TakeSignal(d)
<1>1. /\ Orderly(c) /\ c.queue # <<>> /\ Head(c.queue) = "transcribe" /\ ~Waiting(c) /\ c.stage = "stopping"
      /\ Running("transcribe", "stopping")
      /\ ~(c.s.id # 0 /\ c.committed /\ "insert" \in Elements(c.queue))
  BY RunningEffect DEF CaptureStopped
<1>2. /\ Orderly(d) /\ d.s = c.s /\ d.queue = c.queue /\ d.owner = c.owner /\ d.committed = c.committed
      /\ d.stage = c.stage
  BY <1>1, StoppedOrderly
<1>3. Becomes(IF StopFailed(c) THEN Throws(d, FALSE)
              ELSE IF ~IsActive(d) THEN Throws(t, TRUE)
              ELSE At(t, "inferring"))
  BY DEF CaptureStopped
<1> HIDE DEF d
<1>4. Same(d, t) /\ Orderly(t)
  BY <1>2, TakeSignalSame, SameServes DEF Orderly, Serves
<1> HIDE DEF t
<1>5. /\ t.s = c.s /\ t.queue = c.queue /\ t.owner = c.owner /\ t.committed = c.committed /\ t.stage = c.stage
  BY <1>2, <1>4 DEF Same
<1>6. Serves(d, Throws(d, FALSE)) /\ Serves(t, Throws(t, TRUE))
  BY <1>1, <1>2, <1>4, <1>5, ThrowsServes
<1>7. /\ Orderly(At(t, "inferring")) /\ At(t, "inferring").s = c.s /\ At(t, "inferring").owner = c.owner
      /\ At(t, "inferring").committed = c.committed
  BY <1>1, <1>4, <1>5, AtServes
<1>8. \E e : /\ Orderly(e) /\ Becomes(e) /\ HearsNot(c, e) /\ ProvesNot(c, e)
             /\ c.owner # "none" => e.s.id = c.s.id /\ e.owner # "none"
  <2>1. \A e : Serves(d, e) \/ Serves(t, e) =>
          /\ Orderly(e) /\ HearsNot(c, e) /\ ProvesNot(c, e)
          /\ c.owner # "none" => e.s.id = c.s.id /\ e.owner # "none"
    BY <1>2, <1>5 DEF Serves, HearsNot, ProvesNot, Proven, Retains
  <2>2. HearsNot(c, At(t, "inferring")) /\ ProvesNot(c, At(t, "inferring"))
    BY <1>7 DEF HearsNot, ProvesNot, Proven
  <2> QED BY <1>3, <1>6, <1>7, <2>1, <2>2
<1> QED BY <1>1, <1>8, LateStep DEF CaptureStopped, Late

\* The capture has been stopped for good.
LEMMA TeardownStoppedHolds == ASSUME SessionInvariant, TeardownStopped PROVE Holds
<1> DEFINE d == Stopped(c)
           e == At(d, "releasing")
<1>1. /\ Orderly(c) /\ c.queue # <<>> /\ ~Waiting(c) /\ c.stage = "stopping"
      /\ Running("teardown", "stopping")
      /\ ~(c.s.id # 0 /\ c.committed /\ "insert" \in Elements(c.queue))
  BY RunningEffect DEF TeardownStopped
<1>2. Orderly(d) /\ d.s = c.s /\ d.queue = c.queue /\ d.owner = c.owner /\ d.committed = c.committed
  BY <1>1, StoppedOrderly
<1>3. Becomes(e)
  BY DEF TeardownStopped
<1> HIDE DEF d
<1>4. Orderly(e) /\ e.s = c.s /\ e.owner = c.owner /\ e.committed = c.committed
  BY <1>1, <1>2, AtServes
<1> HIDE DEF e
<1>5. HearsNot(c, e) /\ ProvesNot(c, e)
  BY <1>4 DEF HearsNot, ProvesNot, Proven
<1> QED BY <1>1, <1>3, <1>4, <1>5, LateStep DEF TeardownStopped, Late

\* The session gives up what it holds.
LEMMA ReleaseHolds == ASSUME SessionInvariant, Release PROVE Holds
<1> DEFINE freed == [c EXCEPT !.owner = "none", !.captureId = FALSE, !.stopCompleted = FALSE,
                              !.teardownComplete = TRUE]
           d == ScheduleTerminalReset(freed)
           e == Done(d)
<1>1. /\ Orderly(c) /\ c.queue # <<>> /\ Head(c.queue) = "teardown" /\ ~Waiting(c) /\ c.stage = "releasing"
  BY RunningEffect DEF Release
<1>2. /\ IsContext(freed) /\ freed.s = c.s /\ freed.queue = c.queue /\ freed.owner = "none"
      /\ ~freed.captureId /\ ~freed.stopCompleted /\ freed.teardownComplete
      /\ freed.written = c.written /\ freed.committed = c.committed
      /\ freed.disposed = c.disposed /\ freed.shutdown = c.shutdown
  BY <1>1, FieldsOf DEF Orderly, IsContext
<1>3. Becomes(e)
  BY DEF Release
<1> HIDE DEF freed
<1>4. Same(freed, d)
  BY <1>2, ScheduleSame
<1> HIDE DEF d
<1>5. /\ IsContext(e) /\ e.s = c.s /\ e.queue = Tail(c.queue) /\ e.stage = "ready" /\ e.owner = "none"
      /\ ~e.captureId /\ ~e.stopCompleted /\ e.teardownComplete
      /\ e.written = c.written /\ e.committed = c.committed
      /\ e.disposed = c.disposed /\ e.shutdown = c.shutdown
  BY <1>2, <1>4, FieldsOf DEF Done, Same, IsContext
<1> HIDE DEF e
<1>6. /\ e.queue = <<>> /\ e.queue \in Seq(Effects) /\ Rising(e.queue) /\ Elements(e.queue) = {}
      /\ "teardown" \in Elements(c.queue)
  <2>1. /\ e.queue \in Seq(Effects) /\ Rising(e.queue) /\ Elements(e.queue) \subseteq Later("teardown")
        /\ "teardown" \in Elements(c.queue)
    BY <1>1, <1>5, QueueTail DEF Orderly, InOrder
  <2>2. Elements(e.queue) = {}
    BY <2>1 DEF Later
  <2> QED BY <2>1, <2>2, QueueEmpty
<1>7. ~Ending(e) => e.s.phase = "idle" \/ IsTerminal(e.s.phase)
  BY <1>1, <1>5, <1>6 DEF Orderly, InOrder, Ending, Ahead, IsTerminal
<1>8. Orderly(e)
  <2>1. InOrder(e)
    BY <1>5, <1>6, <1>7 DEF InOrder
  <2>2. Shaped(e)
    BY <1>1, <1>5, <1>6 DEF Orderly, Shaped
  <2>3. Written(e)
    BY <1>1, <1>5, <1>6 DEF Orderly, Written
  <2>4. Owned(e)
    BY <1>1, <1>5 DEF Orderly, Owned
  <2> QED BY <1>5, <2>1, <2>2, <2>3, <2>4 DEF Orderly
<1>9. Orderly(c') /\ c'.s = c.s /\ c'.committed = c.committed
  BY <1>3, <1>5, <1>8, BecomesServes DEF Same, Serves
<1>10. Held'
  <2>1. \A k \in SessionIds : mic[k] \notin {"opening", "on"}
    BY <1>1 DEF SessionInvariant, Held, Late
  <2>2. /\ grant' \in [SessionIds -> {"none", "opening", "held", "released", "failed"}]
        /\ stream' \in [SessionIds -> {"none", "opening", "open", "closed", "failed"}]
    BY DEF SessionInvariant, Held, Release
  <2>3. \A k \in SessionIds : grant'[k] # "held"
    BY SessionCurrent DEF SessionInvariant, Held, Release
  <2>4. \A k \in SessionIds : stream'[k] # "open"
    BY SessionCurrent DEF SessionInvariant, Held, Release, Heard
  <2>5. \A k \in SessionIds : stream'[k] = "opening" => stream[k] = "opening"
    BY DEF SessionInvariant, Held, Release
  <2> QED BY <1>9, <2>1, <2>2, <2>3, <2>4, <2>5 DEF SessionInvariant, Held, Release, Current
<1>11. Pasting' /\ Planned'
  <2>1. ProvesNot(c, c')
    BY <1>9 DEF ProvesNot, Proven
  <2> QED BY <1>1, <2>1, NoPasteStep DEF Release
<1> QED BY <1>9, <1>10, <1>11 DEF Holds

-----------------------------------------------------------------------------
(* The effects that end with what was said and what came of it             *)

\* A session whose transcription or smart processing ends, as f says of it when
\* the effect is over.
LEMMA SaidServes ==
  ASSUME NEW d, NEW e, NEW t, Orderly(d), ~Ending(d), Led(d, t, e),
         d.s.phase \in {"transcribing", "processingSmart"} => d.queue = <<>>,
         \/ \E speech \in BOOLEAN : t = Transcribed(d.s, speech)
         \/ t = VoiceCommandMatched(d.s)
         \/ \E text \in BOOLEAN : t = SmartCompleted(d.s, text)
  PROVE  /\ Orderly(e) /\ Retains(d, e) /\ ProvesNot(d, e)
         /\ d.s.phase # "transcribing" => Serves(d, e)
<1>1. CASE t = Stay(d.s)
  <2>1. Serves(d, e)
    BY <1>1, StayServes
  <2> QED BY <2>1 DEF Serves
<1>2. CASE d.s.phase \in {"transcribing", "processingSmart"} /\ t = ToError(d.s)
  <2>1. Led(d, To([d.s EXCEPT !.phase = "error"], <<"teardown">>), e)
    BY <1>2 DEF ToError
  <2>2. Serves(d, e)
    BY <1>2, <2>1, EndServes DEF IsTerminal
  <2> QED BY <2>2 DEF Serves
<1>3. CASE d.s.phase = "transcribing" /\ \E s : /\ t = To(s, <<"process-smart">>)
                                                /\ s = [d.s EXCEPT !.phase = "processingSmart", !.transcript = TRUE]
  <2>1. PICK s : t = To(s, <<"process-smart">>) /\ s = [d.s EXCEPT !.phase = "processingSmart", !.transcript = TRUE]
    BY <1>3
  <2>2. /\ s \in Sessions(MaxSessions) /\ s.id = d.s.id /\ s.completion = d.s.completion /\ s.transcript
        /\ s.phase = "processingSmart"
    BY <2>1 DEF Orderly, Shaped, Sessions, Phases
  <2> QED BY <1>3, <2>1, <2>2, HeardServes
<1>4. CASE /\ d.s.phase \in {"transcribing", "processingSmart"}
           /\ \E s \in Sessions(MaxSessions) :
                /\ t = BeginInsertion(s) /\ s.id = d.s.id /\ s.completion = d.s.completion /\ s.transcript
  <2>1. PICK s \in Sessions(MaxSessions) :
          t = BeginInsertion(s) /\ s.id = d.s.id /\ s.completion = d.s.completion /\ s.transcript
    BY <1>4
  <2> DEFINE inserting == [s EXCEPT !.phase = "inserting", !.insertion = "pending"]
  <2>2. /\ inserting \in Sessions(MaxSessions) /\ inserting.id = d.s.id
        /\ inserting.completion = d.s.completion /\ inserting.transcript
        /\ inserting.phase = "inserting" /\ inserting.insertion = "pending"
    BY <2>1 DEF Sessions, Phases
  <2>3. t = To(inserting, <<"insert">>)
    BY <2>1 DEF BeginInsertion
  <2> HIDE DEF inserting
  <2> QED BY <1>4, <2>2, <2>3, HeardServes
<1>5. \/ t = Stay(d.s)
      \/ d.s.phase \in {"transcribing", "processingSmart"} /\ t = ToError(d.s)
      \/ d.s.phase = "transcribing" /\ \E s : /\ t = To(s, <<"process-smart">>)
                                              /\ s = [d.s EXCEPT !.phase = "processingSmart", !.transcript = TRUE]
      \/ /\ d.s.phase \in {"transcribing", "processingSmart"}
         /\ \E s \in Sessions(MaxSessions) :
              /\ t = BeginInsertion(s) /\ s.id = d.s.id /\ s.completion = d.s.completion /\ s.transcript
  <2>1. /\ d.s \in Sessions(MaxSessions)
        /\ d.s.phase = "processingSmart" => d.s.transcript
    BY DEF Orderly, Shaped, Heard
  <2>2. \A s \in {[d.s EXCEPT !.transcript = TRUE, !.final = TRUE], [d.s EXCEPT !.transcript = TRUE]} :
          s \in Sessions(MaxSessions) /\ s.id = d.s.id /\ s.completion = d.s.completion /\ s.transcript
    BY <2>1 DEF Sessions
  <2>3. LET s == [d.s EXCEPT !.final = TRUE]
        IN  /\ s \in Sessions(MaxSessions) /\ s.id = d.s.id /\ s.completion = d.s.completion
            /\ s.transcript = d.s.transcript
    BY <2>1 DEF Sessions
  <2>4. CASE \E speech \in BOOLEAN : t = Transcribed(d.s, speech)
    BY <2>2, <2>4 DEF Transcribed
  <2>5. CASE t = VoiceCommandMatched(d.s)
    BY <2>2, <2>5 DEF VoiceCommandMatched
  <2>6. CASE \E text \in BOOLEAN : t = SmartCompleted(d.s, text)
    BY <2>1, <2>3, <2>6 DEF SmartCompleted
  <2> QED BY <2>4, <2>5, <2>6
<1> QED BY <1>1, <1>2, <1>3, <1>4, <1>5

\* What was said is known.
LEMMA InferredHolds == ASSUME SessionInvariant, Inferred PROVE Holds
<1>1. /\ Orderly(c) /\ c.queue # <<>> /\ Head(c.queue) = "transcribe" /\ ~Waiting(c) /\ c.stage = "inferring"
      /\ c.s.id # 0
  BY RunningEffect DEF Inferred
<1>2. PICK t : /\ \/ \E speech \in BOOLEAN : t = Transcribed(c.s, speech)
                  \/ t = VoiceCommandMatched(c.s)
               /\ Becomes(Done(Dispatch(c, t)))
  BY DEF Inferred
<1> DEFINE e == Dispatch(c, t)
<1>3. Led(c, t, e)
  BY <1>1, DispatchLed
<1>4. t.effects \in Seq(Effects)
  BY <1>2, AnswerEffects
<1>5. Becomes(Done(e))
  BY <1>2
<1> HIDE DEF e
<1>6. PICK f : /\ Serves(c, f) /\ Led(f, t, Done(e)) /\ f.s = c.s /\ ~Ending(f)
               /\ Elements(f.queue) \subseteq Later("transcribe") \cap Ahead(c.s.phase)
               /\ f.queue = <<>> <=> Elements(f.queue) = {}
  BY <1>1, <1>3, <1>4, DoneDispatch
<1>7. f.s.phase \in {"transcribing", "processingSmart"} => f.queue = <<>>
  <2>1. "transcribe" \in Ahead(c.s.phase)
    BY RunningEffect DEF Inferred
  <2> QED BY <1>6, <2>1 DEF Later, Ahead
<1>8. Orderly(Done(e)) /\ Retains(f, Done(e)) /\ ProvesNot(f, Done(e))
  BY <1>2, <1>6, <1>7, SaidServes DEF Serves
<1>9. Orderly(c') /\ Retains(c, c') /\ ProvesNot(c, c')
  <2>1. Serves(Done(e), c')
    BY <1>5, <1>8, BecomesServes
  <2> QED BY <1>6, <1>8, <2>1, ServesChain DEF Serves, ProvesNot
<1>10. Held'
  <2>1. \A k \in SessionIds : mic[k] \notin {"opening", "on"}
    BY <1>1 DEF SessionInvariant, Held, Late
  <2>2. stream' \in [SessionIds -> {"none", "opening", "open", "closed", "failed"}]
    BY DEF SessionInvariant, Held, Inferred
  <2>3. \A k \in SessionIds : stream'[k] # "open"
    BY SessionCurrent DEF SessionInvariant, Held, Inferred
  <2>4. \A k \in SessionIds : stream'[k] = "opening" /\ Heard(c'.s.phase) => k # c'.s.id
    <3>1. t.state.id = c.s.id
      <4>1. c.s \in Sessions(MaxSessions)
        BY DEF SessionInvariant, Orderly, Shaped
      <4>2. \A speech \in BOOLEAN : Transcribed(c.s, speech).state.id = c.s.id
        BY <4>1 DEF Transcribed, Stay, To, ToError, BeginInsertion, Sessions
      <4>3. VoiceCommandMatched(c.s).state.id = c.s.id
        BY <4>1 DEF VoiceCommandMatched, Stay, To, BeginInsertion, Sessions
      <4> QED BY <1>2, <4>2, <4>3
    <3>2. c'.s = Done(e).s
      BY <1>5, <1>8, BecomesServes DEF Same
    <3>3. c'.s.id = c.s.id
      BY <1>6, <3>1, <3>2 DEF Led
    <3> QED BY <1>1, <3>3, SessionCurrent DEF SessionInvariant, Held, Inferred
  <2> QED BY <1>9, <2>1, <2>2, <2>3, <2>4 DEF SessionInvariant, Held, Inferred, Current, Retains
<1>11. Pasting' /\ Planned'
  BY <1>1, <1>9, NoPasteStep DEF Inferred
<1> QED BY <1>9, <1>10, <1>11 DEF Holds

\* The smart processing begins, or is given up at once.
LEMMA SmartHolds == ASSUME SessionInvariant, BeginSmart PROVE Holds
<1> DEFINE d == TakeSignal(c)
           e == Dispatch(c, Abort(c.s, TRUE))
<1>1. /\ Orderly(c) /\ c.queue # <<>> /\ Head(c.queue) = "process-smart" /\ ~Waiting(c)
      /\ ~(c.s.id # 0 /\ c.committed /\ "insert" \in Elements(c.queue))
  BY RunningEffect DEF BeginSmart
<1>2. Serves(c, At(d, "processing"))
  <2>1. Same(c, d) /\ Serves(c, d)
    BY <1>1, TakeSignalSame, SameServes DEF Orderly
  <2> HIDE DEF d
  <2>2. Serves(d, At(d, "processing"))
    BY <1>1, <2>1, AtServes DEF Same, Serves, Waiting, Late
  <2> QED BY <2>1, <2>2, ServesChain
<1>3. Serves(c, Done(e))
  <2>1. Led(c, Abort(c.s, TRUE), e)
    BY <1>1, DispatchLed
  <2> HIDE DEF e
  <2>2. PICK f : /\ Serves(c, f) /\ Led(f, Abort(c.s, TRUE), Done(e)) /\ f.s = c.s
                 /\ Elements(f.queue) \subseteq Later("process-smart") \cap Ahead(c.s.phase)
                 /\ f.queue = <<>> <=> Elements(f.queue) = {}
    BY <1>1, <2>1, AnswerEffects, DoneDispatch
  <2>3. f.s.phase = "processingSmart" => f.queue = <<>>
    BY <2>2 DEF Later, Ahead
  <2>4. Serves(f, Done(e))
    BY <2>2, <2>3, AbortServes DEF Serves
  <2> QED BY <2>2, <2>4, ServesChain
<1>4. \E g : Serves(c, g) /\ Becomes(g)
  BY <1>2, <1>3 DEF BeginSmart
<1> QED BY <1>4, SessionStep DEF BeginSmart

\* The smart processing is over.
LEMMA ProcessedHolds == ASSUME SessionInvariant, Processed PROVE Holds
<1>1. /\ Orderly(c) /\ c.queue # <<>> /\ Head(c.queue) = "process-smart" /\ ~Waiting(c)
      /\ "process-smart" \in Ahead(c.s.phase)
  BY RunningEffect DEF Processed
<1>2. Serves(c, Done(c))
  BY <1>1, DoneStep DEF Processed, Effects
<1>3. \A d, t, e : /\ d = c \/ Aborts(c, d)
                   /\ Led(d, t, e)
                   /\ t.effects \in Seq(Effects)
                   => \E f : /\ Serves(c, f) /\ Led(f, t, Done(e)) /\ f.s = c.s /\ ~Ending(f)
                             /\ c.s.phase = "processingSmart" => f.queue = <<>>
                             /\ c.s.phase # "transcribing"
  <2> SUFFICES ASSUME NEW d, NEW t, NEW e, d = c \/ Aborts(c, d), Led(d, t, e), t.effects \in Seq(Effects)
               PROVE  \E f : /\ Serves(c, f) /\ Led(f, t, Done(e)) /\ f.s = c.s /\ ~Ending(f)
                             /\ c.s.phase = "processingSmart" => f.queue = <<>>
                             /\ c.s.phase # "transcribing"
    OBVIOUS
  <2>1. Serves(c, d) /\ d.s = c.s /\ d.queue = c.queue /\ d.stage = c.stage
    BY <1>1, ServesChain, AbortsServes DEF Aborts
  <2>0. /\ Orderly(d) /\ d.queue # <<>> /\ Head(d.queue) = "process-smart" /\ ~Waiting(d)
        /\ Head(d.queue) # "teardown"
    BY <1>1, <2>1 DEF Serves, Waiting
  <2>2. PICK f : /\ Serves(d, f) /\ Led(f, t, Done(e)) /\ f.s = c.s /\ ~Ending(f)
                 /\ Elements(f.queue) \subseteq Later("process-smart") \cap Ahead(c.s.phase)
                 /\ f.queue = <<>> <=> Elements(f.queue) = {}
    <3>1. \E f : /\ ~Waiting(d) => Serves(d, f)
                 /\ Led(f, t, Done(e))
                 /\ f.s = d.s /\ ~Ending(f)
                 /\ Elements(f.queue) \subseteq Later(Head(d.queue)) \cap Ahead(d.s.phase)
                 /\ f.queue = <<>> <=> Elements(f.queue) = {}
      BY <2>0, DoneDispatch, ZenonT(40)
    <3> QED BY <2>0, <2>1, <3>1, SMTT(30)
  <2>3. c.s.phase = "processingSmart" => f.queue = <<>>
    BY <2>2 DEF Later, Ahead
  <2>4. c.s.phase # "transcribing"
    BY <1>1 DEF Ahead
  <2>5. Serves(c, f)
    BY <2>1, <2>2, ServesChain
  <2> QED BY <2>2, <2>3, <2>4, <2>5
<1>4. \A t : /\ \/ \E text \in BOOLEAN : t = SmartCompleted(c.s, text)
                \/ t = VoiceCommandMatched(c.s)
             => Serves(c, Done(Dispatch(c, t)))
  <2> SUFFICES ASSUME NEW t, \/ \E text \in BOOLEAN : t = SmartCompleted(c.s, text)
                             \/ t = VoiceCommandMatched(c.s)
               PROVE  Serves(c, Done(Dispatch(c, t)))
    OBVIOUS
  <2> DEFINE e == Dispatch(c, t)
  <2>1. Led(c, t, e) /\ t.effects \in Seq(Effects)
    BY <1>1, DispatchLed, AnswerEffects
  <2> HIDE DEF e
  <2>2. PICK f : /\ Serves(c, f) /\ Led(f, t, Done(e)) /\ f.s = c.s /\ ~Ending(f)
                 /\ c.s.phase = "processingSmart" => f.queue = <<>>
                 /\ c.s.phase # "transcribing"
    BY <1>3, <2>1
  <2>3. Serves(f, Done(e))
    BY <2>2, SaidServes DEF Serves
  <2>4. Serves(c, Done(e))
    BY <2>2, <2>3, ServesChain
  <2> QED BY <2>4 DEF e
<1>5. c.s.phase = "processingSmart" => Serves(c, Done(AbortSession(c, TRUE)))
  <2> DEFINE e == AbortSession(c, TRUE)
             t == Abort(c.s, TRUE)
  <2>1. PICK a : Aborts(c, a) /\ Led(a, t, e)
    BY <1>1, AbortSessionLed
  <2>2. t.effects \in Seq(Effects) /\ t = Abort(c.s, TRUE)
    BY AnswerEffects
  <2>3. Led(a, t, e) /\ Aborts(c, a)
    BY <2>1
  <2> HIDE DEF e, t
  <2>4. PICK f : /\ Serves(c, f) /\ Led(f, t, Done(e)) /\ f.s = c.s
                 /\ c.s.phase = "processingSmart" => f.queue = <<>>
    BY <1>3, <2>2, <2>3
  <2>5. Serves(f, Done(e))
    BY <2>2, <2>4, AbortServes DEF Serves
  <2>6. Serves(c, Done(e))
    BY <2>4, <2>5, ServesChain
  <2> QED BY <2>6 DEF e
<1>6. \E g : Serves(c, g) /\ Becomes(g)
  BY <1>2, <1>4, <1>5 DEF Processed
<1> QED BY <1>6, SessionStep DEF Processed

-----------------------------------------------------------------------------
(* The paste                                                               *)

\* The insertion that runs is of a session that has heard what was said; what
\* is still to come after it is nothing.
LEMMA InsertRuns ==
  ASSUME SessionInvariant, NEW stage, Running("insert", stage)
  PROVE  /\ Orderly(c) /\ c.queue # <<>> /\ Head(c.queue) = "insert" /\ ~Ending(c) /\ c.s.id # 0
         /\ c.s.phase \in {"inserting", "restoringClipboard"} /\ c.s.completion = "none"
         /\ stage \notin {"pasting", "settling"} => ~c.committed
         /\ stage = "settling" => c.committed
<1>1. /\ Orderly(c) /\ c.queue # <<>> /\ Head(c.queue) = "insert" /\ ~Ending(c) /\ c.s.id # 0
      /\ c.stage = stage
      /\ "insert" \in Elements(c.queue) /\ "insert" \in Ahead(c.s.phase)
  BY RunningEffect
<1> QED BY <1>1 DEF Ahead, Orderly, InOrder, Shaped, Written

\* The insertion is over before it was committed.
LEMMA InsertEnds ==
  ASSUME NEW d, Orderly(d), d.queue # <<>>, Head(d.queue) = "insert", ~d.committed,
         d.s.phase \in {"inserting", "restoringClipboard"}, NEW t,
         \/ t = InsertionCancelled(d.s)
         \/ \E completion \in {"copied", "indeterminate"} : t = Inserted(d.s, completion)
  PROVE  /\ Orderly(Done(Dispatch(d, t)))
         /\ Retains(d, Done(Dispatch(d, t))) /\ HearsNot(d, Done(Dispatch(d, t)))
         /\ ProvesNot(d, Done(Dispatch(d, t)))
         /\ ~Waiting(d) => Serves(d, Done(Dispatch(d, t)))
<1> DEFINE e == Dispatch(d, t)
<1>1. Led(d, t, e)
  BY DispatchLed
<1>2. t.effects \in Seq(Effects)
  BY AnswerEffects
<1> HIDE DEF e
<1>3. PICK f : /\ Orderly(f) /\ Retains(d, f) /\ HearsNot(d, f) /\ ProvesNot(d, f)
               /\ ~Waiting(d) => Serves(d, f)
               /\ Led(f, t, Done(e)) /\ f.s = d.s /\ f.committed = d.committed /\ ~Ending(f)
               /\ Elements(f.queue) \subseteq Later("insert") \cap Ahead(d.s.phase)
               /\ f.queue = <<>> <=> Elements(f.queue) = {}
  BY <1>1, <1>2, DoneDispatch
<1>4. f.queue = <<>>
  BY <1>3 DEF Later, Ahead
<1>5. Serves(f, Done(e))
  <2>1. CASE t = Stay(d.s)
    BY <1>3, <2>1, StayServes
  <2>2. CASE t = InsertionCancelled(d.s) /\ t # Stay(d.s)
    <3>1. d.s.phase = "inserting" /\ t = To([d.s EXCEPT !.phase = "cancelled"], <<"teardown">>)
      BY <2>2 DEF InsertionCancelled
    <3> QED BY <1>3, <1>4, <3>1, EndServes DEF IsTerminal
  <2>3. CASE \E completion \in {"copied", "indeterminate"} : t = Inserted(d.s, completion)
    <3>1. PICK completion \in {"copied", "indeterminate"} : t = Inserted(d.s, completion)
      BY <2>3
    <3> QED BY <1>3, <1>4, <3>1, CompleteServes
  <2> QED BY <2>1, <2>2, <2>3
<1>6. /\ Orderly(Done(e)) /\ Retains(d, Done(e)) /\ HearsNot(d, Done(e)) /\ ProvesNot(d, Done(e))
      /\ ~Waiting(d) => Serves(d, Done(e))
  BY <1>3, <1>5, ServesChain DEF Serves, HearsNot, ProvesNot
<1> QED BY <1>6 DEF e

\* The insertion begins.
LEMMA InsertHolds == ASSUME SessionInvariant, BeginInsert PROVE Holds
<1> DEFINE d == TakeSignal(c)
<1>1. /\ Orderly(c) /\ c.queue # <<>> /\ Head(c.queue) = "insert" /\ ~Waiting(c) /\ ~c.committed
      /\ c.s.phase \in {"inserting", "restoringClipboard"} /\ c.s.completion = "none" /\ ~Ending(c)
  <2>1. Running("insert", "ready")
    BY DEF BeginInsert
  <2> QED BY <2>1, RunningEffect, InsertRuns
<1>2. Same(c, d) /\ Serves(c, d) /\ Orderly(d)
  BY <1>1, TakeSignalSame, SameServes DEF Orderly, Serves
<1>3. \/ /\ UNCHANGED paste
         /\ \E t : /\ \/ t = InsertionCancelled(d.s)
                      \/ \E completion \in {"copied", "indeterminate"} : t = Inserted(d.s, completion)
                   /\ Becomes(Done(Dispatch(d, t)))
      \/ Becomes(At(d, "pasting")) /\ paste' = IF up THEN "sent" ELSE "none"
  BY DEF BeginInsert
<1> HIDE DEF d
<1>4. d.queue = c.queue /\ d.stage = c.stage /\ d.s = c.s /\ d.committed = c.committed /\ ~Waiting(d)
  BY <1>1, <1>2 DEF Same, Waiting
<1>5. CASE /\ UNCHANGED paste
           /\ \E t : /\ \/ t = InsertionCancelled(d.s)
                        \/ \E completion \in {"copied", "indeterminate"} : t = Inserted(d.s, completion)
                     /\ Becomes(Done(Dispatch(d, t)))
  <2>1. PICK t : /\ \/ t = InsertionCancelled(d.s)
                    \/ \E completion \in {"copied", "indeterminate"} : t = Inserted(d.s, completion)
                 /\ Becomes(Done(Dispatch(d, t)))
    BY <1>5
  <2>2. Serves(d, Done(Dispatch(d, t)))
    BY <1>1, <1>2, <1>4, <2>1, InsertEnds
  <2>3. Serves(c, Done(Dispatch(d, t)))
    BY <1>2, <2>2, ServesChain
  <2> QED BY <1>5, <2>1, <2>3, SessionStep DEF BeginInsert
<1>6. CASE Becomes(At(d, "pasting")) /\ paste' = IF up THEN "sent" ELSE "none"
  <2> DEFINE e == At(d, "pasting")
  <2>1. Serves(d, e) /\ e.s = d.s /\ e.queue = d.queue /\ e.stage = "pasting" /\ e.committed = d.committed
    BY <1>1, <1>2, <1>4, AtServes DEF Late
  <2>2. Becomes(e)
    BY <1>6
  <2> HIDE DEF e
  <2>3. /\ Serves(c, c') /\ c'.s = c.s /\ c'.queue = c.queue /\ c'.stage = "pasting" /\ ~c'.committed
    BY <1>1, <1>2, <1>4, <2>1, <2>2, BecomesServes, ServesChain DEF Same, Serves
  <2>4. Held'
    BY <2>3, HeldStep DEF SessionInvariant, Serves, BeginInsert
  <2>5. Pasting'
    <3>1. Waiting(c') /\ ~Proven(c')
      BY <1>1, <2>3 DEF Waiting, Proven
    <3>2. wire' = wire /\ up' = up
      BY DEF BeginInsert
    <3>3. \A i \in DOMAIN wire : wire[i] \notin Notices
      BY <1>1 DEF SessionInvariant, Pasting
    <3> QED BY <1>6, <3>1, <3>2, <3>3 DEF Pasting
  <2>6. Planned'
    BY PlanStep DEF SessionInvariant, Planned, BeginInsert
  <2> QED BY <2>3, <2>4, <2>5, <2>6 DEF Holds, Serves
<1> QED BY <1>3, <1>5, <1>6

\* What the paste's answer makes of the session that waits for it.
LEMMA AnsweredServes ==
  ASSUME SessionInvariant, Running("insert", "pasting"), NEW answer,
         Becomes(PasteAnswered(c, answer))
  PROVE  /\ Orderly(c') /\ Retains(c, c') /\ HearsNot(c, c')
         /\ answer # "submitted" => ProvesNot(c, c')
<1>1. /\ Orderly(c) /\ c.queue # <<>> /\ Head(c.queue) = "insert" /\ Waiting(c)
      /\ c.s.phase \in {"inserting", "restoringClipboard"} /\ c.s.id # 0
  <2>1. Waiting(c)
    BY DEF Running, Waiting
  <2> QED BY <2>1, InsertRuns
<1>2. CASE answer = "submitted" \/ c.committed
  <2> DEFINE d == Dispatch([c EXCEPT !.committed = TRUE], InsertionCommitted(c.s))
             e == At(d, "settling")
  <2>1. Becomes(e)
    BY <1>2 DEF PasteAnswered
  <2>2. Led([c EXCEPT !.committed = TRUE], InsertionCommitted(c.s), d)
    <3>1. IsContext([c EXCEPT !.committed = TRUE]) /\ [c EXCEPT !.committed = TRUE].queue \in Seq(Effects)
      BY <1>1, FieldsOf DEF IsContext, Orderly, InOrder
    <3> QED BY <3>1, DispatchLeads
  <2> HIDE DEF d
  <2>3. Orderly(d) /\ Retains(c, d) /\ HearsNot(c, d) /\ d.committed /\ Waiting(d)
    BY <1>1, <2>2, CommitServes
  <2>4. Orderly(e) /\ Retains(d, e) /\ HearsNot(d, e) /\ ProvesNot(d, e)
    BY <2>3, AtServes DEF Waiting, Late
  <2> HIDE DEF e
  <2>5. Serves(e, c')
    BY <2>1, <2>4, BecomesServes
  <2>6. Orderly(c') /\ Retains(c, c') /\ HearsNot(c, c')
    BY <2>3, <2>4, <2>5, ServesChain DEF Serves, HearsNot
  <2>7. answer # "submitted" => ProvesNot(c, c')
    BY <1>1, <1>2 DEF ProvesNot, Proven
  <2> QED BY <2>6, <2>7
<1>3. CASE ~(answer = "submitted" \/ c.committed)
  <2>1. PICK t : /\ \/ t = InsertionCancelled(c.s)
                    \/ \E completion \in {"copied", "indeterminate"} : t = Inserted(c.s, completion)
                 /\ Becomes(Done(Dispatch(c, t)))
    BY <1>3 DEF PasteAnswered
  <2> DEFINE e == Done(Dispatch(c, t))
  <2>2. Orderly(e) /\ Retains(c, e) /\ HearsNot(c, e) /\ ProvesNot(c, e) /\ Becomes(e)
    BY <1>1, <1>3, <2>1, InsertEnds
  <2> HIDE DEF e
  <2>3. Serves(e, c')
    BY <2>2, BecomesServes
  <2> QED BY <2>2, <2>3, ServesChain DEF Serves, HearsNot, ProvesNot
<1> QED BY <1>2, <1>3

\* The paste is withdrawn, or has died with its helper.
LEMMA RejectedHolds == ASSUME SessionInvariant, PasteRejected PROVE Holds
<1>1. Orderly(c') /\ Retains(c, c') /\ HearsNot(c, c') /\ ProvesNot(c, c')
  BY AnsweredServes DEF PasteRejected
<1>2. Held'
  BY <1>1, HeldStep DEF SessionInvariant, PasteRejected
<1>3. \A i \in DOMAIN wire : wire[i] \notin Notices
  <2>1. CASE ~up
    BY <2>1 DEF SessionInvariant, Invariant, Agree
  <2>2. CASE up /\ paste = "sent"
    BY <2>2 DEF SessionInvariant, Pasting, Told
  <2> QED BY <2>1, <2>2 DEF PasteRejected
<1>4. Pasting'
  BY <1>1, <1>3 DEF SessionInvariant, Pasting, PasteRejected, ProvesNot
<1>5. Planned'
  BY PlanStep DEF SessionInvariant, Planned, PasteRejected
<1> QED BY <1>1, <1>2, <1>4, <1>5 DEF Holds

\* The clipboard is restored, and the session completed.
LEMMA SettlesHolds == ASSUME SessionInvariant, PasteSettles PROVE Holds
<1> DEFINE t == Inserted(c.s, "inserted")
           e == Dispatch(c, t)
<1>1. /\ Orderly(c) /\ c.queue # <<>> /\ Head(c.queue) = "insert" /\ ~Waiting(c) /\ c.committed
      /\ c.s.phase \in {"inserting", "restoringClipboard"} /\ ~Ending(c)
  <2>1. Running("insert", "settling")
    BY DEF PasteSettles
  <2> QED BY <2>1, RunningEffect, InsertRuns
<1>2. Led(c, t, e) /\ t.effects \in Seq(Effects) /\ t = Inserted(c.s, "inserted")
  BY <1>1, DispatchLed, AnswerEffects
<1> HIDE DEF t, e
<1>3. PICK f : /\ Serves(c, f) /\ Led(f, t, Done(e)) /\ f.s = c.s /\ f.committed = c.committed /\ ~Ending(f)
               /\ Elements(f.queue) \subseteq Later("insert") \cap Ahead(c.s.phase)
               /\ f.queue = <<>> <=> Elements(f.queue) = {}
  BY <1>1, <1>2, DoneDispatch
<1>4. f.queue = <<>>
  BY <1>1, <1>3 DEF Later, Ahead
<1>5. Serves(f, Done(e))
  BY <1>1, <1>2, <1>3, <1>4, CompleteServes DEF Serves
<1>6. \E g : Serves(c, g) /\ Becomes(g)
  BY <1>3, <1>5, ServesChain DEF PasteSettles, e, t
<1> QED BY <1>6, SessionStep DEF PasteSettles

-----------------------------------------------------------------------------
(* The user, the timers and the end of the application                     *)

\* A step of the session that is one of its operations, after the session has
\* noted something of its own.
LEMMA NotedStep ==
  ASSUME SessionInvariant, NEW d, Same(c, d), NEW e, Serves(d, e), Becomes(e),
         plan' = plan \/ (\E kind : Fault(kind)),
         UNCHANGED <<native, wire, up, mic, grant, stream, paste>>
  PROVE  Holds
<1>1. Serves(c, d)
  BY SameServes DEF SessionInvariant
<1> QED BY <1>1, ServesChain, SessionStep

\* The session is forgotten when it has been over for a while.
LEMMA ResetHolds == ASSUME SessionInvariant, ResetTimerFires PROVE Holds
<1> DEFINE d == [c EXCEPT !.resetTimer = FALSE]
           idle == Dispatch(d, Stay(IdleSession))
           cleared == [idle EXCEPT !.pendingError = FALSE]
<1>1. Same(c, d) /\ Orderly(d)
  <2>1. Same(c, d)
    BY OtherSame DEF Others, SessionInvariant, Orderly
  <2> HIDE DEF d
  <2> QED BY <2>1, SameServes DEF SessionInvariant, Serves
<1>2. Becomes(IF ~d.rec.off \/ ~d.teardownComplete \/ ~IsTerminal(d.s.phase)
              THEN ScheduleTerminalReset(d) ELSE DispatchReset(d))
  BY DEF ResetTimerFires
<1> HIDE DEF d
<1>3. Serves(d, ScheduleTerminalReset(d))
  BY <1>1, ScheduleSame, SameServes DEF Orderly
<1>4. d.teardownComplete /\ IsTerminal(d.s.phase) => Serves(d, DispatchReset(d))
  <2> SUFFICES ASSUME d.teardownComplete, IsTerminal(d.s.phase) PROVE Serves(d, DispatchReset(d))
    OBVIOUS
  <2>1. Serves(d, idle) /\ Orderly(idle)
    BY <1>1, DispatchLed, IdleServes DEF Serves
  <2>2. DispatchReset(d) = IF idle.pendingError THEN ReportOperationalFailure(cleared) ELSE idle
    BY DEF DispatchReset
  <2> HIDE DEF idle
  <2>3. Same(idle, cleared)
    BY <2>1, OtherSame DEF Others, Orderly
  <2> HIDE DEF cleared
  <2>4. Serves(idle, cleared) /\ Serves(cleared, ReportOperationalFailure(cleared))
    BY <2>1, <2>3, SameServes, ReportServes DEF Serves
  <2>5. Serves(d, ReportOperationalFailure(cleared))
    BY <2>1, <2>4, ServesChain
  <2> QED BY <2>1, <2>2, <2>5
<1>5. \E e : Serves(d, e) /\ Becomes(e)
  BY <1>2, <1>3, <1>4
<1> QED BY <1>1, <1>5, NotedStep DEF ResetTimerFires

\* What the user and the timers do in a session.
LEMMA UserHolds ==
  ASSUME SessionInvariant, Cancel \/ SubmitSession \/ HoldElapses \/ NoFirstAudio \/ ProfileSyncEnds
  PROVE  Holds
<1>1. Orderly(c) /\ Same(c, c)
  BY DEF SessionInvariant, Orderly, Same
<1>2. CASE Cancel
  BY <1>1, <1>2, AbortSessionServes, SessionStep DEF Cancel
<1>3. CASE SubmitSession
  <2>1. Serves(c, Dispatch(c, Submit(c.s)))
    BY <1>1, DispatchLed, CaptureServes
  <2> QED BY <1>3, <2>1, SessionStep DEF SubmitSession
<1>4. CASE HoldElapses
  <2>1. Serves(c, Dispatch(c, Extend(c.s)))
    BY <1>1, DispatchLed, CaptureServes
  <2> QED BY <1>4, <2>1, SessionStep DEF HoldElapses
<1>5. CASE NoFirstAudio
  <2> DEFINE a == AbortOperation(c)
  <2>1. Serves(c, a) /\ a.s = c.s
    BY <1>1, AbortAborts, AbortsServes DEF Orderly, Aborts
  <2>2. Becomes(Dispatch(a, Fail(c.s)))
    BY <1>5 DEF NoFirstAudio
  <2> HIDE DEF a
  <2>3. c.s.phase \notin {"inserting", "restoringClipboard"}
    BY <1>5 DEF NoFirstAudio, IsCapture, IsRecording
  <2>4. Serves(a, Dispatch(a, Fail(c.s)))
    BY <2>1, <2>3, DispatchLed, FailServes DEF Serves
  <2> QED BY <1>5, <2>1, <2>2, <2>4, ServesChain, SessionStep DEF NoFirstAudio
<1>6. CASE ProfileSyncEnds
  <2>1. CASE c' = [c EXCEPT !.pendingError = FALSE] /\ UNCHANGED plan
    <3>1. Same(c, c')
      BY <1>1, <2>1, OtherSame DEF Others, Orderly
    <3> QED BY <1>1, <1>6, <2>1, <3>1, SameServes, ContextStep DEF ProfileSyncEnds
  <2>2. CASE Fault("sync") /\ Becomes(ReportOperationalFailure(c))
    BY <1>1, <1>6, <2>2, ReportServes, SessionStep DEF ProfileSyncEnds
  <2> QED BY <1>6, <2>1, <2>2 DEF ProfileSyncEnds
<1> QED BY <1>2, <1>3, <1>4, <1>5, <1>6

\* A wait that is over.
LEMMA TimesOutHolds == ASSUME SessionInvariant, StopTimesOut PROVE Holds
<1>1. Same(c, c')
  BY OtherSame DEF StopTimesOut, Others, SessionInvariant, Orderly
<1> QED BY <1>1, SameServes, ContextStep DEF StopTimesOut, SessionInvariant

\* The application ends: its session is over or its insertion is all it has
\* left.
LEMMA ShutdownServes ==
  ASSUME NEW d, NEW m, NEW g, Orderly(d), d.shutdown = "no", d.owner # "active",
         IsContext(m), m.s = d.s, m.queue = d.queue, m.stage = d.stage, m.owner = d.owner,
         m.captureId = d.captureId, m.captureOpening = d.captureOpening,
         m.stopCompleted = d.stopCompleted, m.teardownComplete = d.teardownComplete,
         m.written = d.written, m.committed = d.committed,
         m.disposed = TRUE, m.shutdown = "draining",
         Led(m, Abort(d.s, FALSE), g)
  PROVE  Serves(d, g)
<1> DEFINE t == Abort(d.s, FALSE)
           h == [g EXCEPT !.disposed = d.disposed, !.shutdown = d.shutdown]
<1>1. /\ IsContext(h) /\ h.s = g.s /\ h.queue = g.queue /\ h.stage = g.stage /\ h.owner = g.owner
      /\ h.captureId = g.captureId /\ h.captureOpening = g.captureOpening
      /\ h.stopCompleted = g.stopCompleted /\ h.teardownComplete = g.teardownComplete
      /\ h.written = g.written /\ h.committed = g.committed
      /\ h.disposed = d.disposed /\ h.shutdown = d.shutdown
  BY FieldsOf, ZenonT(40) DEF Led, IsContext
<1> HIDE DEF h
<1>2. ~Begins(d, t) /\ ~Begins(m, t)
  BY DEF Begins, Abort, Stay, To, BeginInsertion, Orderly, Shaped, Sessions
<1>3. Led(d, t, h)
  BY <1>1, <1>2, ZenonT(40) DEF Led, RecordOf
<1>4. Serves(d, h)
  BY <1>3, AbortServes
<1>5. /\ g.s = t.state /\ g.owner = d.owner /\ g.disposed = TRUE /\ g.shutdown = "draining" /\ IsContext(g)
  BY <1>2 DEF Led
<1>6. g.s.phase \in {"idle", "inserting", "restoringClipboard"} \/ IsTerminal(g.s.phase)
  BY <1>5 DEF Abort, Stay, To, IsTerminal, Orderly, Shaped, Sessions
<1>7. InOrder(g)
  BY <1>1, <1>4, <1>5 DEF Serves, Orderly, InOrder, Ending
<1>8. Shaped(g)
  BY <1>1, <1>4, <1>5 DEF Serves, Orderly, Shaped, Ending
<1>9. Written(g)
  BY <1>1, <1>4 DEF Serves, Orderly, Written
<1>10. Owned(g)
  BY <1>1, <1>4, <1>5, <1>6 DEF Serves, Orderly, Owned
<1>11. Retains(d, g) /\ WaitsStill(d, g) /\ HearsNot(d, g) /\ ProvesNot(d, g)
  BY <1>1, <1>4 DEF Serves, Retains, WaitsStill, Waiting, HearsNot, ProvesNot, Proven
<1> QED BY <1>5, <1>7, <1>8, <1>9, <1>10, <1>11 DEF Serves, Orderly

\* The end of the application.
LEMMA EndHolds == ASSUME SessionInvariant, BeginSessionShutdown PROVE Holds
<1> DEFINE noted == [c EXCEPT !.disposed = TRUE, !.shutdown = "draining",
                              !.rec = BeginShutdown(@), !.resetTimer = FALSE]
           a == AbortOperation(c)
           m == AbortOperation(noted)
           g == Dispatch(m, Abort(m.s, FALSE))
<1>1. Orderly(c) /\ c.shutdown = "no"
  BY DEF SessionInvariant, BeginSessionShutdown
<1>2. Aborts(c, a) /\ Serves(c, a) /\ Orderly(a)
  BY <1>1, AbortAborts, AbortsServes DEF Orderly, Serves
<1>3. Becomes(g)
  BY DEF BeginSessionShutdown
<1>4. /\ IsContext(noted) /\ noted.s = c.s /\ noted.queue = c.queue /\ noted.stage = c.stage
      /\ noted.owner = c.owner
      /\ noted.captureId = c.captureId /\ noted.captureOpening = c.captureOpening
      /\ noted.stopCompleted = c.stopCompleted /\ noted.teardownComplete = c.teardownComplete
      /\ noted.written = c.written /\ noted.committed = c.committed
      /\ noted.disposed = TRUE /\ noted.shutdown = "draining"
  BY <1>1, FieldsOf DEF Orderly, IsContext
<1> HIDE DEF a, noted
<1>5. Aborts(noted, m)
  BY <1>4, AbortAborts
<1> HIDE DEF m
<1>6. m.s = a.s /\ m.queue \in Seq(Effects) /\ IsContext(m)
  BY <1>1, <1>2, <1>4, <1>5 DEF Aborts, Orderly, InOrder
<1>7. Led(m, Abort(a.s, FALSE), g)
  BY <1>6, DispatchLeads
<1> HIDE DEF g
<1>8. Serves(a, g)
  <2>1. a.shutdown = "no" /\ a.owner # "active"
    BY <1>1, <1>2 DEF Aborts
  <2>2. /\ m.s = a.s /\ m.queue = a.queue /\ m.stage = a.stage /\ m.owner = a.owner
        /\ m.captureId = a.captureId /\ m.captureOpening = a.captureOpening
        /\ m.stopCompleted = a.stopCompleted /\ m.teardownComplete = a.teardownComplete
        /\ m.written = a.written /\ m.committed = a.committed
        /\ m.disposed = TRUE /\ m.shutdown = "draining"
    BY <1>2, <1>4, <1>5 DEF Aborts
  <2> QED BY <1>2, <1>6, <1>7, <2>1, <2>2, ShutdownServes
<1> QED BY <1>2, <1>3, <1>8, ServesChain, SessionStep DEF BeginSessionShutdown

\* The last teardown, and the end.
LEMMA ContinueHolds == ASSUME SessionInvariant, ContinueShutdown PROVE Holds
<1>1. Orderly(c) /\ c.queue = <<>> /\ c.shutdown \in {"draining", "last"}
  BY DEF SessionInvariant, ContinueShutdown
<1>2. /\ IsContext(c') /\ c'.s = c.s /\ c'.stage = c.stage /\ c'.owner = c.owner
      /\ c'.captureId = c.captureId /\ c'.captureOpening = c.captureOpening
      /\ c'.stopCompleted = c.stopCompleted /\ c'.teardownComplete = c.teardownComplete
      /\ c'.written = c.written /\ c'.committed = c.committed /\ c'.disposed = c.disposed
      /\ \/ c.shutdown = "draining" /\ c'.shutdown = "last" /\ c'.queue = <<"teardown">>
         \/ c.shutdown = "last" /\ c'.shutdown = "over" /\ c'.queue = c.queue
  BY <1>1, FieldsOf, ZenonT(40) DEF ContinueShutdown, Orderly, IsContext
<1>3. /\ <<"teardown">> \in Seq(Effects) /\ Rising(<<"teardown">>)
      /\ Elements(<<"teardown">>) = {"teardown"} /\ <<"teardown">> # <<>>
  BY QueueOne DEF Effects
<1>4. Elements(c.queue) = {}
  BY <1>1, QueueEmpty DEF Orderly, InOrder
<1>5. InOrder(c')
  <2>1. Elements(c'.queue) \subseteq {"teardown"} /\ c'.queue \in Seq(Effects) /\ Rising(c'.queue)
    BY <1>1, <1>2, <1>3, <1>4 DEF Orderly, InOrder
  <2>2. c'.stage = "ready"
    BY <1>1, <1>2 DEF Orderly, InOrder
  <2> QED BY <1>1, <1>2, <2>1, <2>2 DEF Orderly, InOrder, Ending
<1>6. Shaped(c')
  BY <1>1, <1>2 DEF Orderly, Shaped, Ending
<1>7. Written(c')
  BY <1>1, <1>2, <1>3, <1>4 DEF Orderly, Written
<1>8. Owned(c')
  BY <1>1, <1>2, <1>3 DEF Orderly, Owned
<1>9. Retains(c, c') /\ WaitsStill(c, c') /\ HearsNot(c, c') /\ ProvesNot(c, c')
  BY <1>1, <1>2 DEF Retains, WaitsStill, Waiting, HearsNot, ProvesNot, Proven
<1> QED
  BY <1>2, <1>5, <1>6, <1>7, <1>8, <1>9, ContextStep DEF Serves, Orderly, ContinueShutdown

-----------------------------------------------------------------------------
(* The microphone, the model and the stream                                *)

\* A step that lets the context and the paste alone.
LEMMA RestStep ==
  ASSUME SessionInvariant, UNCHANGED <<c, native, wire, up, paste>>,
         plan' = plan \/ (\E kind : Fault(kind))
  PROVE  Orderly(c') /\ Pasting' /\ Planned'
<1>1. ProvesNot(c, c') /\ WaitsStill(c, c')
  BY DEF ProvesNot, WaitsStill
<1>2. Pasting'
  BY <1>1, PastingStep DEF SessionInvariant
<1>3. Planned'
  BY PlanStep DEF SessionInvariant, Planned
<1> QED BY <1>2, <1>3 DEF SessionInvariant

\* Whose the microphone is changes, and nothing else of the session.
LEMMA FieldsStep ==
  ASSUME SessionInvariant, Orderly(c'), c'.s = c.s, c'.queue = c.queue, c'.stage = c.stage,
         c'.committed = c.committed, UNCHANGED <<native, wire, up, paste>>,
         plan' = plan \/ (\E kind : Fault(kind))
  PROVE  Pasting' /\ Planned'
<1>1. ProvesNot(c, c') /\ WaitsStill(c, c')
  BY DEF ProvesNot, Proven, WaitsStill, Waiting
<1>2. Pasting'
  BY <1>1, PastingStep DEF SessionInvariant
<1>3. Planned'
  BY PlanStep DEF SessionInvariant, Planned
<1> QED BY <1>2, <1>3

\* The microphone is open, or nobody wants it any more.
LEMMA MicrophoneOpensHolds ==
  ASSUME SessionInvariant, NEW k \in SessionIds, MicrophoneOpens(k) PROVE Holds
<1> DEFINE d == [c EXCEPT !.captureId = TRUE]
           e == [d EXCEPT !.captureOpening = FALSE]
           f == [c EXCEPT !.captureOpening = @ /\ ~Current(k)]
<1>1. Orderly(c) /\ mic[k] = "opening" /\ Held
  BY DEF SessionInvariant, MicrophoneOpens
<1>2. /\ Current(k) /\ c.owner # "none" /\ ~c.stopCompleted /\ c.captureOpening
      /\ c.stage \notin Late /\ ~Heard(c.s.phase)
  BY <1>1 DEF Held
<1>3. CASE Current(k) /\ CaptureStillCurrent(c)
  <2>1. c' = e /\ mic' = [mic EXCEPT ![k] = "on"]
    <3>1. c' = [c EXCEPT !.captureId = TRUE, !.captureOpening = FALSE] /\ mic' = [mic EXCEPT ![k] = "on"]
      BY <1>3 DEF MicrophoneOpens
    <3> QED BY <3>1
  <2>2. /\ Orderly(d) /\ d.s = c.s /\ d.queue = c.queue /\ d.stage = c.stage /\ d.owner = c.owner
        /\ d.stopCompleted = c.stopCompleted /\ d.committed = c.committed /\ d.captureId = TRUE
    BY <1>1, CaptureFields
  <2> HIDE DEF d
  <2>3. /\ Orderly(e) /\ e.s = c.s /\ e.queue = c.queue /\ e.stage = c.stage /\ e.owner = c.owner
        /\ e.stopCompleted = c.stopCompleted /\ e.committed = c.committed /\ e.captureId = TRUE
    BY <2>2, CaptureFields
  <2> HIDE DEF e
  <2>4. Held'
    BY <1>1, <1>2, <2>1, <2>3 DEF MicrophoneOpens, Held, Current
  <2>5. Pasting' /\ Planned'
    BY <2>1, <2>3, FieldsStep DEF MicrophoneOpens
  <2> QED BY <2>1, <2>3, <2>4, <2>5 DEF Holds
<1>4. CASE ~(Current(k) /\ CaptureStillCurrent(c))
  <2>1. c' = f /\ mic' = [mic EXCEPT ![k] = "stopping"]
    BY <1>4 DEF MicrophoneOpens
  <2>2. /\ Orderly(f) /\ f.s = c.s /\ f.queue = c.queue /\ f.stage = c.stage /\ f.owner = c.owner
        /\ f.stopCompleted = c.stopCompleted /\ f.committed = c.committed
    BY <1>1, CaptureFields
  <2> HIDE DEF f
  <2>3. Held'
    BY <1>1, <1>2, <2>1, <2>2 DEF MicrophoneOpens, Held, Current
  <2>4. Pasting' /\ Planned'
    BY <2>1, <2>2, FieldsStep DEF MicrophoneOpens
  <2> QED BY <2>1, <2>2, <2>3, <2>4 DEF Holds
<1> QED BY <1>3, <1>4

\* It has not opened.
LEMMA MicrophoneFailsHolds ==
  ASSUME SessionInvariant, NEW k \in SessionIds, MicrophoneFails(k) PROVE Holds
<1> DEFINE f == [c EXCEPT !.captureOpening = @ /\ ~Current(k)]
<1>1. Orderly(c) /\ mic[k] = "opening" /\ Held /\ Current(k)
  BY DEF SessionInvariant, MicrophoneFails, Held
<1>2. c' = f /\ mic' = [mic EXCEPT ![k] = "failed"]
  BY DEF MicrophoneFails
<1>3. /\ Orderly(f) /\ f.s = c.s /\ f.queue = c.queue /\ f.stage = c.stage /\ f.owner = c.owner
      /\ f.stopCompleted = c.stopCompleted /\ f.committed = c.committed
  BY <1>1, CaptureFields
<1> HIDE DEF f
<1>4. Held'
  BY <1>1, <1>2, <1>3 DEF MicrophoneFails, Held, Current
<1>5. Pasting' /\ Planned'
  BY <1>2, <1>3, FieldsStep DEF MicrophoneFails
<1> QED BY <1>2, <1>3, <1>4, <1>5 DEF Holds

\* It has stopped.
LEMMA MicrophoneStopsHolds ==
  ASSUME SessionInvariant, NEW k \in SessionIds, MicrophoneStops(k) PROVE Holds
<1> DEFINE d == [c EXCEPT !.captureOpening = FALSE]
           e == [d EXCEPT !.mwait = IF @ = "waiting" THEN "ok" ELSE @]
<1>1. Orderly(c) /\ mic[k] = "stopping" /\ Held /\ mic' = [mic EXCEPT ![k] = "stopped"]
  BY DEF SessionInvariant, MicrophoneStops
<1>2. CASE ~Current(k)
  <2>1. c' = c
    BY <1>2 DEF MicrophoneStops
  <2>2. Held'
    BY <1>1, <2>1 DEF MicrophoneStops, Held, Current
  <2> QED BY <2>1, <2>2, RestStep DEF MicrophoneStops, Holds
<1>3. CASE Current(k)
  <2>1. c' = e
    <3>1. c' = [c EXCEPT !.captureOpening = FALSE, !.mwait = IF @ = "waiting" THEN "ok" ELSE @]
      BY <1>3 DEF MicrophoneStops
    <3> QED BY <3>1
  <2>2. /\ Orderly(d) /\ d.s = c.s /\ d.queue = c.queue /\ d.stage = c.stage /\ d.owner = c.owner
        /\ d.stopCompleted = c.stopCompleted /\ d.committed = c.committed /\ d.captureId = c.captureId
    BY <1>1, CaptureFields
  <2> HIDE DEF d
  <2>3. Same(d, e)
    BY <2>2, FieldsOf DEF Same, Orderly, IsContext
  <2>4. Orderly(e)
    BY <2>2, <2>3, SameServes DEF Serves
  <2> HIDE DEF e
  <2>5. Held'
    BY <1>1, <1>3, <2>1, <2>2, <2>3 DEF MicrophoneStops, Held, Current, Same
  <2>6. Pasting' /\ Planned'
    BY <2>1, <2>2, <2>3, <2>4, FieldsStep DEF MicrophoneStops, Same
  <2> QED BY <2>1, <2>4, <2>5, <2>6 DEF Holds
<1> QED BY <1>2, <1>3

\* It is lost.
LEMMA MicrophoneLostHolds ==
  ASSUME SessionInvariant, NEW k \in SessionIds, MicrophoneLost(k) PROVE Holds
<1>1. Orderly(c) /\ mic[k] = "on" /\ ~Heard(c.s.phase) /\ mic' = [mic EXCEPT ![k] = "stopped"]
  BY DEF SessionInvariant, MicrophoneLost, Held
<1>2. PICK d : Serves(c, d) /\ Becomes(d)
  <2>1. Serves(c, Dispatch(c, Fail(c.s)))
    BY <1>1, DispatchLed, FailServes DEF Heard
  <2>2. Serves(c, c)
    BY <1>1, ServesChain
  <2> QED BY <2>1, <2>2 DEF MicrophoneLost
<1>3. Serves(c, c')
  BY <1>2, BecomesServes, ServesChain DEF Serves
<1>4. Held'
  BY <1>1, <1>3 DEF SessionInvariant, MicrophoneLost, Held, Serves, Retains, HearsNot, Current
<1>5. Pasting' /\ Planned'
  <2>1. Pasting'
    BY <1>3, PastingStep DEF SessionInvariant, Serves, MicrophoneLost
  <2>2. Planned'
    BY PlanStep DEF SessionInvariant, Planned, MicrophoneLost
  <2> QED BY <2>1, <2>2
<1> QED BY <1>3, <1>4, <1>5 DEF Holds, Serves

\* The first frame of audio, the model and the stream.
LEMMA ResourceHolds ==
  ASSUME SessionInvariant, NEW k \in SessionIds,
         FirstFrame(k) \/ GrantSettles(k) \/ StreamSettles(k) \/ StreamBreaks(k)
  PROVE  Holds
<1>1. Orderly(c) /\ Held
  BY DEF SessionInvariant
<1>2. CASE FirstFrame(k)
  <2>1. Serves(c, Dispatch(c, Ready(c.s, "audioReady")))
    BY <1>1, DispatchLed, CaptureServes
  <2> QED BY <1>2, <2>1, SessionStep DEF FirstFrame
<1>3. CASE GrantSettles(k)
  <2>1. Held'
    BY <1>1, <1>3 DEF GrantSettles, Held, CaptureStillCurrent, IsActive, Current
  <2> QED BY <1>3, <2>1, RestStep DEF GrantSettles, Holds
<1>4. CASE StreamSettles(k)
  <2>1. Held'
    BY <1>1, <1>4 DEF StreamSettles, Held, IsActive, Current
  <2> QED BY <1>4, <2>1, RestStep DEF StreamSettles, Holds
<1>5. CASE StreamBreaks(k)
  <2>1. c.s.phase \notin {"inserting", "restoringClipboard"}
    BY <1>1, <1>5 DEF StreamBreaks, Held, Heard
  <2>2. Serves(c, Dispatch(c, Fail(c.s)))
    BY <1>1, <2>1, DispatchLed, FailServes
  <2> QED BY <1>5, <2>2, SessionStep DEF StreamBreaks
<1> QED BY <1>2, <1>3, <1>4, <1>5

-----------------------------------------------------------------------------
(* The helper                                                              *)

\* The wire is a sequence.
LEMMA WireIsSequence ==
  ASSUME SessionInvariant
  PROVE  wire \in Seq(Answers \cup Activations \cup EchoNotices)
BY DEF SessionInvariant, Invariant, Agree

\* A message that is no notice of the paste.
LEMMA WriteStep ==
  ASSUME SessionInvariant, NEW message, message \notin Notices, wire' = Append(wire, message),
         WaitsStill(c, c'), ProvesNot(c, c'), UNCHANGED <<up, paste>>
  PROVE  Pasting'
<1>1. /\ DOMAIN wire' = DOMAIN wire \cup {Len(wire) + 1}
      /\ \A i \in DOMAIN wire : wire'[i] = wire[i]
      /\ wire'[Len(wire) + 1] = message
      /\ DOMAIN wire = 1 .. Len(wire) /\ Len(wire) \in Nat
  BY WireIsSequence
<1>2. \A i \in DOMAIN wire' : wire'[i] \in Notices => i \in DOMAIN wire /\ wire'[i] = wire[i]
  BY <1>1
<1> QED BY <1>2 DEF SessionInvariant, Pasting, WaitsStill, ProvesNot

\* What is left when the first message has been read.
LEMMA WireTail ==
  ASSUME SessionInvariant, wire # <<>>, wire' = Tail(wire)
  PROVE  /\ 1 \in DOMAIN wire /\ Head(wire) = wire[1]
         /\ \A i \in DOMAIN wire' : i + 1 \in DOMAIN wire /\ wire'[i] = wire[i + 1] /\ i \in Nat /\ 1 < i + 1
<1>1. wire \in Seq(Answers \cup Activations \cup EchoNotices)
  BY WireIsSequence
<1> QED BY <1>1

\* A message that is read, and is no notice.
LEMMA ReadStep ==
  ASSUME SessionInvariant, wire # <<>>, wire' = Tail(wire), WaitsStill(c, c'), ProvesNot(c, c'),
         UNCHANGED <<up, paste>>
  PROVE  Pasting'
<1>1. \A i \in DOMAIN wire' : i + 1 \in DOMAIN wire /\ wire'[i] = wire[i + 1] /\ i \in Nat
  BY WireTail
<1>2. \A i \in DOMAIN wire' : wire'[i] \in Notices => Waiting(c') /\ paste' \in Told(wire'[i])
  BY <1>1 DEF SessionInvariant, Pasting, WaitsStill
<1>3. \A i, j \in DOMAIN wire' :
        i < j /\ wire'[i] \in Notices /\ wire'[j] \in Notices
        => wire'[i] = "committed" /\ wire'[j] = "submitted"
  <2> SUFFICES ASSUME NEW i \in DOMAIN wire', NEW j \in DOMAIN wire', i < j,
                      wire'[i] \in Notices, wire'[j] \in Notices
               PROVE  wire'[i] = "committed" /\ wire'[j] = "submitted"
    OBVIOUS
  <2>1. i + 1 < j + 1
    BY <1>1
  <2> QED BY <1>1, <2>1 DEF SessionInvariant, Pasting
<1>4. Proven(c') => paste' \in {"pasted", "answered"}
  BY DEF SessionInvariant, Pasting, ProvesNot
<1>5. paste' \in {"sent", "pasted"} => up' /\ Waiting(c')
  BY DEF SessionInvariant, Pasting, WaitsStill
<1> QED BY <1>2, <1>3, <1>4, <1>5 DEF Pasting

\* A press of the shortcut, and its release.
LEMMA PressHolds == ASSUME SessionInvariant, Press \/ ReleaseShortcut PROVE Holds
<1>1. WaitsStill(c, c') /\ ProvesNot(c, c') /\ Orderly(c') /\ UNCHANGED <<c, mic, grant, stream, up, paste>>
  BY DEF Press, ReleaseShortcut, WaitsStill, ProvesNot, SessionInvariant
<1>2. Pasting'
  BY <1>1, WriteStep DEF Press, ReleaseShortcut, Notices
<1>3. Held'
  BY <1>1 DEF SessionInvariant, Held, Current
<1>4. Planned'
  <2>1. plan \in [happens : SUBSET Happenings, sessions : 0 .. MaxSessions, presses : Nat, faults : Nat]
        /\ native \in Modes
    BY DEF SessionInvariant, Planned
  <2>2. native' \in Modes
    BY <2>1 DEF Press, ReleaseShortcut, Modes
  <2>3. CASE Press
    BY <2>1, <2>2, <2>3 DEF Press, Planned
  <2>4. CASE ReleaseShortcut
    BY <2>1, <2>2, <2>4 DEF ReleaseShortcut, Planned
  <2> QED BY <2>3, <2>4
<1> QED BY <1>1, <1>2, <1>3, <1>4 DEF Holds

\* The helper serves a call.
LEMMA ServeHolds == ASSUME SessionInvariant, Serve PROVE Holds
<1>1. Same(c, c')
  BY FieldsOf DEF Serve, SessionInvariant, Orderly, IsContext, Same
<1>2. Serves(c, c')
  BY <1>1, SameServes DEF SessionInvariant
<1>3. Held'
  BY <1>2, HeldStep DEF SessionInvariant, Serves, Serve
<1>4. Pasting'
  BY <1>2, WriteStep DEF Serve, Serves, Notices
<1>5. Planned'
  <2>1. c.rec.call.mode \in Modes
    BY DEF Serve, Setting, SessionInvariant, Invariant, Agree, Sound, Reconcilers, Calls
  <2>2. native' \in Modes
    BY <2>1 DEF Serve, SessionInvariant, Planned
  <2>3. plan' = plan \/ (\E kind : Fault(kind))
    BY DEF Serve
  <2> QED BY <2>2, <2>3, PlanStep DEF SessionInvariant
<1> QED BY <1>2, <1>3, <1>4, <1>5 DEF Holds, Serves

\* The helper pastes, or does not, and tells.
LEMMA PasteHolds == ASSUME SessionInvariant, Paste PROVE Holds
<1>1. /\ UNCHANGED <<c, native, up, mic, grant, stream, plan>> /\ Orderly(c') /\ up /\ Waiting(c)
      /\ paste \in {"sent", "pasted"}
  BY DEF Paste, SessionInvariant, Pasting
<1>2. Held' /\ Planned'
  BY <1>1 DEF SessionInvariant, Held, Planned, Current
<1>3. PICK notice \in Notices :
        /\ wire' = Append(wire, notice)
        /\ paste' \in Told(notice)
        /\ \/ paste = "sent" /\ paste' \in {"pasted", "refused", "unsure"}
           \/ paste = "pasted" /\ paste' = "answered" /\ notice = "submitted"
  BY DEF Paste, Notices, Told
<1>4. /\ DOMAIN wire' = DOMAIN wire \cup {Len(wire) + 1}
      /\ \A i \in DOMAIN wire : wire'[i] = wire[i] /\ i < Len(wire) + 1
      /\ wire'[Len(wire) + 1] = notice
      /\ DOMAIN wire = 1 .. Len(wire) /\ Len(wire) \in Nat
  BY <1>3, WireIsSequence
<1>5. \A i \in DOMAIN wire : wire[i] \in Notices => /\ paste = "pasted" /\ wire[i] = "committed"
                                                    /\ notice = "submitted"
  BY <1>1, <1>3 DEF SessionInvariant, Pasting, Told, Notices
<1>6. \A i \in DOMAIN wire' : wire'[i] \in Notices => Waiting(c') /\ paste' \in Told(wire'[i])
  BY <1>1, <1>3, <1>4, <1>5 DEF Told
<1>7. \A i, j \in DOMAIN wire' :
        i < j /\ wire'[i] \in Notices /\ wire'[j] \in Notices
        => wire'[i] = "committed" /\ wire'[j] = "submitted"
  <2> SUFFICES ASSUME NEW i \in DOMAIN wire', NEW j \in DOMAIN wire', i < j,
                      wire'[i] \in Notices, wire'[j] \in Notices
               PROVE  wire'[i] = "committed" /\ wire'[j] = "submitted"
    OBVIOUS
  <2>1. i \in DOMAIN wire /\ wire[i] = "committed" /\ notice = "submitted"
    BY <1>4, <1>5
  <2>2. j \notin DOMAIN wire
    BY <1>4, <1>5, <2>1 DEF SessionInvariant, Pasting
  <2> QED BY <1>4, <2>1, <2>2
<1>8. Proven(c') => paste' \in {"pasted", "answered"}
  BY <1>1, <1>3 DEF SessionInvariant, Pasting
<1>9. Pasting'
  BY <1>1, <1>6, <1>7, <1>8 DEF Pasting
<1> QED BY <1>1, <1>2, <1>9 DEF Holds

\* The order of the numbers, as the relation the library's theorems speak of.
LEMMA LessIsOrder == \A m, n \in Nat : m < n => <<m, n>> \in OpToRel(<, Nat)
BY DEF OpToRel

\* The least of the sessions there have not been is one.
LEMMA LeastUnused ==
  ASSUME NEW n \in 0 .. MaxSessions, NEW unused \in SUBSET (1 .. n), unused # {}
  PROVE  Min(unused) \in unused /\ unused \subseteq 1 .. MaxSessions
<1>1. unused \subseteq Nat /\ unused \subseteq 1 .. MaxSessions
  BY MaxSessionsAssumption
<1>2. IsWellFoundedOn(OpToRel(<, Nat), Nat)
  BY NatLessThanWellFounded
<1>3. PICK x \in unused : \A y \in unused : ~(<<y, x>> \in OpToRel(<, Nat))
  BY <1>1, <1>2, WFMin
<1>4. \A y \in unused : x <= y
  <2>1. \A y \in unused : ~(y < x)
    BY <1>1, <1>3, LessIsOrder
  <2> QED BY <1>1, <2>1
<1> QED BY <1>1, <1>4 DEF Min

\* What an activation makes of a session that is there or cannot begin.
LEMMA JoinsServes ==
  ASSUME Orderly(c), NEW kind,
         \/ JoinsSession(kind)
         \/ Becomes(Ask([c EXCEPT !.rec = MarkNativeCaptureArmed(@)], "off"))
         \/ Becomes(ReportOperationalFailure(Ask([c EXCEPT !.rec = MarkNativeCaptureArmed(@)], "off")))
  PROVE  Serves(c, c')
<1> DEFINE armed == [c EXCEPT !.rec = MarkNativeCaptureArmed(@)]
           held0 == [armed EXCEPT !.active = (kind = "down")]
<1>1. \/ Becomes(Dispatch(held0, Submit(c.s)))
      \/ \E mode : Becomes(Ask(armed, mode)) \/ Becomes(ReportOperationalFailure(Ask(armed, mode)))
  BY DEF JoinsSession
<1>2. Same(c, armed)
  BY OtherSame DEF Others, Orderly
<1> HIDE DEF armed
<1>3. Same(armed, held0) /\ Same(c, held0)
  <2>1. Same(armed, held0)
    BY <1>2, FieldsOf DEF Same, IsContext
  <2> HIDE DEF held0
  <2> QED BY <1>2, <2>1, SameChain
<1> HIDE DEF held0
<1>4. Serves(c, held0) /\ held0.s = c.s /\ Serves(c, armed)
  BY <1>2, <1>3, SameServes DEF Same
<1>5. Serves(held0, Dispatch(held0, Submit(c.s)))
  BY <1>4, DispatchLed, CaptureServes DEF Serves
<1>6. \A mode : /\ Serves(armed, Ask(armed, mode))
                /\ Serves(Ask(armed, mode), ReportOperationalFailure(Ask(armed, mode)))
  <2> TAKE mode
  <2>1. Serves(armed, Ask(armed, mode))
    BY <1>4, AskSame, SameServes DEF Serves, Orderly
  <2> QED BY <2>1, ReportServes DEF Serves
<1>7. \E e : Serves(c, e) /\ Becomes(e)
  BY <1>1, <1>4, <1>5, <1>6, ServesChain
<1> QED BY <1>7, BecomesServes, ServesChain DEF Serves

\* A press that begins a session, which may end at once as a short one.
LEMMA BeginsServes ==
  ASSUME Orderly(c), c.s.phase = "idle", ~c.disposed, NEW id \in 1 .. MaxSessions,
         NEW smart \in BOOLEAN, NEW target \in BOOLEAN, NEW long \in BOOLEAN, NEW d, Same(c, d),
         NEW down, Led(d, ShortcutDown(d.s, id, smart, target), down)
  PROVE  \A e \in {down, Dispatch(down, ShortcutUp(down.s, long))} :
           Serves(c, e) /\ e.s.id = id /\ e.owner # "none"
<1> DEFINE up2 == Dispatch(down, ShortcutUp(down.s, long))
<1>1. Serves(c, d) /\ d.s = c.s /\ d.disposed = c.disposed
  BY SameServes DEF Same
<1>2. Serves(d, down) /\ down.s.id = id /\ down.owner = "active"
  <2>1. Orderly(d) /\ d.s.phase = "idle" /\ ~d.disposed
    BY <1>1 DEF Serves
  <2> QED BY <2>1, BeginServes
<1>3. Serves(down, up2)
  BY <1>2, DispatchLed, CaptureServes DEF Serves
<1> HIDE DEF up2
<1>4. up2.s.id = id /\ up2.owner # "none"
  BY <1>2, <1>3 DEF Serves, Retains
<1>5. Serves(c, down) /\ Serves(c, up2)
  BY <1>1, <1>2, <1>3, ServesChain
<1> QED BY <1>2, <1>4, <1>5 DEF up2

\* A message that the session reads, or an answer that it has without one.
LEMMA AnswerServes ==
  ASSUME Orderly(c), NEW answer, ReadAnswer(answer)
  PROVE  Serves(c, c') /\ UNCHANGED <<grant, paste>>
<1> DEFINE settled == [c EXCEPT !.rec = Settled(@, answer)]
<1>1. Becomes(IF settled.rec.off THEN ScheduleTerminalReset(settled) ELSE settled)
      /\ UNCHANGED <<grant, paste>>
  BY DEF ReadAnswer
<1>2. Same(c, settled)
  BY OtherSame DEF Others, Orderly
<1> HIDE DEF settled
<1>3. Same(settled, ScheduleTerminalReset(settled))
  BY <1>2, ScheduleSame DEF Same
<1>4. Serves(c, settled) /\ Serves(c, ScheduleTerminalReset(settled))
  BY <1>2, <1>3, SameChain, SameServes
<1>5. \E e : Serves(c, e) /\ Becomes(e)
  BY <1>1, <1>4
<1> QED BY <1>1, <1>5, BecomesServes, ServesChain DEF Serves

\* The session reads a press that begins one.
LEMMA StartsHolds ==
  ASSUME SessionInvariant, Read, ~c.disposed, NEW kind, StartsSession(kind)
  PROVE  Holds
<1> DEFINE armed == [c EXCEPT !.rec = MarkNativeCaptureArmed(@)]
           unused == {k \in 1 .. plan.sessions : grant[k] = "none"}
           id == Min(unused)
<1>1. /\ Orderly(c) /\ c.s.phase = "idle" /\ wire # <<>> /\ wire' = Tail(wire)
      /\ UNCHANGED <<native, up, held, mic, stream, plan>>
  BY DEF SessionInvariant, StartsSession, Read
<1>2. Planned'
  BY <1>1, PlanStep DEF SessionInvariant, Planned
<1>3. CASE /\ UNCHANGED <<grant, paste>>
           /\ \/ Becomes(Ask(armed, "off"))
              \/ Becomes(ReportOperationalFailure(Ask(armed, "off")))
  <2>1. Serves(c, c')
    BY <1>1, <1>3, JoinsServes
  <2>2. Held'
    BY <1>1, <1>3, <2>1, HeldStep DEF SessionInvariant, Serves
  <2>3. Pasting'
    BY <1>1, <1>3, <2>1, ReadStep DEF Serves
  <2> QED BY <1>2, <2>1, <2>2, <2>3 DEF Holds, Serves
<1>4. CASE /\ unused # {}
           /\ \E smart, target, long \in BOOLEAN :
                Becomes(LET down == Dispatch([armed EXCEPT !.active = (kind = "down")],
                                             ShortcutDown(armed.s, id, smart, target))
                        IN  IF kind = "complete" THEN Dispatch(down, ShortcutUp(down.s, long)) ELSE down)
           /\ grant' = [grant EXCEPT ![id] = IF May("model") THEN "opening" ELSE "held"]
           /\ paste' = "none"
  <2>1. id \in unused /\ id \in 1 .. MaxSessions /\ id \in SessionIds
    <3>1. plan.sessions \in 0 .. MaxSessions
      BY DEF SessionInvariant, Planned
    <3>2. unused \in SUBSET (1 .. plan.sessions)
      OBVIOUS
    <3> HIDE DEF unused
    <3> QED BY <1>4, <3>1, <3>2, LeastUnused DEF SessionIds
  <2> HIDE DEF unused, id
  <2>2. PICK e : Serves(c, e) /\ e.s.id = id /\ e.owner # "none" /\ Becomes(e)
    <3>1. PICK smart \in BOOLEAN, target \in BOOLEAN, long \in BOOLEAN :
            Becomes(LET down == Dispatch([armed EXCEPT !.active = (kind = "down")],
                                         ShortcutDown(armed.s, id, smart, target))
                    IN  IF kind = "complete" THEN Dispatch(down, ShortcutUp(down.s, long)) ELSE down)
      BY <1>4
    <3> DEFINE d == [armed EXCEPT !.active = (kind = "down")]
               down == Dispatch(d, ShortcutDown(armed.s, id, smart, target))
    <3>2. \E e \in {down, Dispatch(down, ShortcutUp(down.s, long))} : Becomes(e)
      BY <3>1
    <3>3. Same(c, armed) /\ armed.s = c.s
      <4>1. Same(c, armed)
        BY <1>1, OtherSame DEF Others, Orderly
      <4> HIDE DEF armed
      <4> QED BY <4>1 DEF Same
    <3> HIDE DEF armed
    <3>4. Same(c, d)
      <4>1. Same(armed, d)
        BY <3>3, FieldsOf DEF Same, IsContext
      <4> HIDE DEF d
      <4> QED BY <3>3, <4>1, SameChain
    <3> HIDE DEF d
    <3>5. Led(d, ShortcutDown(d.s, id, smart, target), down)
      <4>1. Orderly(d) /\ d.s = armed.s
        BY <1>1, <3>3, <3>4, SameServes DEF Serves, Same
      <4> QED BY <4>1, DispatchLed
    <3> HIDE DEF down
    <3>6. \A e \in {down, Dispatch(down, ShortcutUp(down.s, long))} :
            Serves(c, e) /\ e.s.id = id /\ e.owner # "none"
      BY <1>1, <2>1, <3>4, <3>5, BeginsServes
    <3> QED BY <3>2, <3>6
  <2>3. /\ Serves(c, c') /\ c'.s.id = id /\ c'.owner # "none"
    BY <2>2, BecomesServes, ServesChain DEF Serves, Same
  <2>4. c.owner = "none" /\ ~Waiting(c) /\ ~Heard(c.s.phase) /\ ~Proven(c)
    BY <1>1 DEF Orderly, InOrder, Shaped, Owned, IdleSession, Waiting, Heard, Proven, Ending
  <2>5. Held'
    <3>1. \A k \in SessionIds :
            mic[k] \notin {"opening", "on"} /\ grant[k] # "held" /\ stream[k] # "open"
      BY <2>4 DEF SessionInvariant, Held
    <3>2. ~Heard(c'.s.phase)
      BY <2>3, <2>4 DEF Serves, HearsNot
    <3> QED BY <1>1, <1>4, <2>1, <2>3, <3>1, <3>2 DEF SessionInvariant, Held, Current
  <2>6. Pasting'
    <3>1. \A i \in DOMAIN wire : wire[i] \notin Notices
      BY <2>4 DEF SessionInvariant, Pasting
    <3>2. \A i \in DOMAIN wire' : wire'[i] \notin Notices
      BY <1>1, <3>1, WireTail
    <3> QED BY <1>4, <2>3, <2>4, <3>2 DEF Pasting, Serves, ProvesNot
  <2> QED BY <1>2, <2>3, <2>5, <2>6 DEF Holds, Serves
<1> QED BY <1>3, <1>4 DEF StartsSession

\* The session reads a notice of its paste.
LEMMA NoticeHolds ==
  ASSUME SessionInvariant, Read, Head(wire) \in Notices, ReadPaste(Head(wire))
  PROVE  Holds
<1>1. /\ wire # <<>> /\ wire' = Tail(wire) /\ UNCHANGED <<native, up, held, mic, stream, plan, grant, paste>>
  BY DEF Read, ReadPaste
<1>2. /\ 1 \in DOMAIN wire /\ Head(wire) = wire[1]
      /\ \A i \in DOMAIN wire' : i + 1 \in DOMAIN wire /\ wire'[i] = wire[i + 1] /\ i \in Nat /\ 1 < i + 1
  BY <1>1, WireTail
<1>3. Waiting(c) /\ paste \in Told(Head(wire))
  BY <1>2 DEF SessionInvariant, Pasting
<1>4. Running("insert", "pasting") /\ Orderly(c) /\ c.s.id # 0
  <2>1. Running("insert", "pasting")
    BY <1>3 DEF Waiting, Running
  <2> QED BY <2>1, InsertRuns
<1>5. Planned'
  BY <1>1, PlanStep DEF SessionInvariant, Planned
<1>6. paste \notin {"sent"} /\ (paste \in {"sent", "pasted"} => up)
  BY <1>3 DEF SessionInvariant, Pasting, Told
<1>7. CASE Head(wire) = "committed"
  <2> DEFINE d == Dispatch([c EXCEPT !.committed = TRUE], InsertionCommitted(c.s))
  <2>1. Becomes(d)
    BY <1>4, <1>7 DEF ReadPaste
  <2>2. Led([c EXCEPT !.committed = TRUE], InsertionCommitted(c.s), d)
    <3>1. IsContext([c EXCEPT !.committed = TRUE]) /\ [c EXCEPT !.committed = TRUE].queue \in Seq(Effects)
      BY <1>4, FieldsOf DEF IsContext, Orderly, InOrder
    <3> QED BY <3>1, DispatchLeads
  <2> HIDE DEF d
  <2>3. Orderly(d) /\ Retains(c, d) /\ HearsNot(c, d) /\ d.committed /\ Waiting(d)
    BY <1>3, <1>4, <2>2, CommitServes
  <2>4. Serves(d, c')
    BY <2>1, <2>3, BecomesServes
  <2>5. Orderly(c') /\ Retains(c, c') /\ HearsNot(c, c') /\ Waiting(c')
    BY <2>3, <2>4, ServesChain DEF Serves, HearsNot, WaitsStill
  <2>6. Held'
    BY <1>1, <2>5, HeldStep DEF SessionInvariant
  <2>7. paste \in {"pasted", "answered"}
    BY <1>3, <1>7 DEF Told
  <2>8. WaitsStill(c, c')
    BY <2>5 DEF WaitsStill
  <2>9. Pasting'
    <3>1. \A i \in DOMAIN wire' : wire'[i] \in Notices => Waiting(c') /\ paste' \in Told(wire'[i])
      BY <1>1, <1>2, <2>5 DEF SessionInvariant, Pasting
    <3>2. \A i, j \in DOMAIN wire' :
            i < j /\ wire'[i] \in Notices /\ wire'[j] \in Notices
            => wire'[i] = "committed" /\ wire'[j] = "submitted"
      <4> SUFFICES ASSUME NEW i \in DOMAIN wire', NEW j \in DOMAIN wire', i < j,
                          wire'[i] \in Notices, wire'[j] \in Notices
                   PROVE  wire'[i] = "committed" /\ wire'[j] = "submitted"
        OBVIOUS
      <4>1. i + 1 < j + 1
        BY <1>2
      <4> QED BY <1>2, <4>1 DEF SessionInvariant, Pasting
    <3> QED BY <1>1, <1>6, <2>5, <2>7, <3>1, <3>2 DEF Pasting
  <2> QED BY <1>5, <2>5, <2>6, <2>9 DEF Holds
<1>8. CASE Head(wire) # "committed"
  <2>1. Becomes(PasteAnswered(c, Head(wire)))
    BY <1>4, <1>8 DEF ReadPaste
  <2>2. /\ Orderly(c') /\ Retains(c, c') /\ HearsNot(c, c')
        /\ Head(wire) # "submitted" => ProvesNot(c, c')
    BY <1>4, <2>1, AnsweredServes
  <2>3. Held'
    BY <1>1, <2>2, HeldStep DEF SessionInvariant
  <2>4. \A i \in DOMAIN wire' : wire'[i] \notin Notices
    BY <1>2, <1>8 DEF SessionInvariant, Pasting
  <2>5. paste \notin {"sent", "pasted"}
    BY <1>3, <1>8 DEF Told, Notices
  <2>6. Proven(c') => paste \in {"pasted", "answered"}
    <3>1. CASE Head(wire) = "submitted"
      BY <1>3, <3>1 DEF Told
    <3>2. CASE Head(wire) # "submitted"
      BY <2>2, <3>2 DEF SessionInvariant, Pasting, ProvesNot
    <3> QED BY <3>1, <3>2
  <2>7. Pasting'
    BY <1>1, <2>4, <2>5, <2>6 DEF Pasting
  <2> QED BY <1>5, <2>2, <2>3, <2>7 DEF Holds
<1> QED BY <1>7, <1>8

\* The session reads a message.
LEMMA ReadHolds == ASSUME SessionInvariant, Read PROVE Holds
<1>1. Orderly(c) /\ wire # <<>> /\ wire' = Tail(wire) /\ UNCHANGED <<native, up, held, mic, stream, plan>>
  BY DEF SessionInvariant, Read
<1>2. ASSUME Serves(c, c'), UNCHANGED <<grant, paste>> PROVE Holds
  <2>1. Held'
    BY <1>1, <1>2, HeldStep DEF SessionInvariant, Serves
  <2>2. Pasting'
    BY <1>1, <1>2, ReadStep DEF Serves
  <2>3. Planned'
    BY <1>1, PlanStep DEF SessionInvariant, Planned
  <2> QED BY <1>2, <2>1, <2>2, <2>3 DEF Holds, Serves
<1>3. Serves(c, c)
  BY <1>1, ServesChain
<1>4. CASE \E kind : ReadActivation(kind)
  <2>1. PICK kind : ReadActivation(kind)
    BY <1>4
  <2>2. CASE c.disposed
    <3>1. c' = c /\ UNCHANGED <<grant, paste>>
      BY <2>1, <2>2 DEF ReadActivation
    <3> QED BY <1>2, <1>3, <3>1
  <2>3. CASE ~c.disposed /\ JoinsSession(kind)
    <3>1. Serves(c, c')
      BY <1>1, <2>3, JoinsServes
    <3> QED BY <1>2, <2>3, <3>1 DEF JoinsSession
  <2>4. CASE ~c.disposed /\ StartsSession(kind)
    BY <2>4, StartsHolds
  <2> QED BY <2>1, <2>2, <2>3, <2>4 DEF ReadActivation
<1>5. CASE ReadUp
  <2>1. Serves(c, c')
    <3>1. CASE c' = c
      BY <1>3, <3>1
    <3>2. CASE \E long \in BOOLEAN : Becomes(Dispatch([c EXCEPT !.active = FALSE], ShortcutUp(c.s, long)))
      <4> DEFINE d == [c EXCEPT !.active = FALSE]
      <4>1. PICK long \in BOOLEAN : Becomes(Dispatch(d, ShortcutUp(c.s, long)))
        BY <3>2
      <4>2. Same(c, d)
        BY <1>1, OtherSame DEF Others, Orderly
      <4> HIDE DEF d
      <4>3. Serves(c, d) /\ d.s = c.s
        BY <1>1, <4>2, SameServes DEF Same
      <4>4. Serves(d, Dispatch(d, ShortcutUp(c.s, long)))
        BY <4>3, DispatchLed, CaptureServes DEF Serves
      <4> QED BY <4>1, <4>3, <4>4, BecomesServes, ServesChain DEF Serves
    <3> QED BY <1>5, <3>1, <3>2 DEF ReadUp
  <2> QED BY <1>2, <1>5, <2>1 DEF ReadUp
<1>6. CASE \E answer : ReadAnswer(answer)
  BY <1>1, <1>2, <1>6, AnswerServes
<1>7. CASE Head(wire) \in Notices /\ ReadPaste(Head(wire))
  BY <1>7, NoticeHolds
<1> QED BY <1>4, <1>5, <1>6, <1>7 DEF Read, Notices

\* A call comes to its end without a message.
LEMMA CallHolds == ASSUME SessionInvariant, CallSettles PROVE Holds
<1> DEFINE retried == [c EXCEPT !.rec = Retried(@, up)]
<1>1. Orderly(c) /\ UNCHANGED <<native, wire, up, held, mic, stream>>
  BY DEF SessionInvariant, CallSettles
<1>2. CASE \E answer : ReadAnswer(answer) /\ (plan' = plan \/ (\E kind : Fault(kind)))
  <2>1. Serves(c, c') /\ UNCHANGED <<grant, paste>> /\ (plan' = plan \/ (\E kind : Fault(kind)))
    BY <1>1, <1>2, AnswerServes
  <2> QED BY <1>1, <2>1, ContextStep
<1>3. CASE /\ UNCHANGED <<plan, grant, paste>>
           /\ Becomes(IF retried.rec.off THEN ScheduleTerminalReset(retried) ELSE retried)
  <2>1. Same(c, retried)
    BY <1>1, OtherSame DEF Others, Orderly
  <2> HIDE DEF retried
  <2>2. Serves(retried, retried) /\ Serves(retried, ScheduleTerminalReset(retried))
    <3>1. Orderly(retried)
      BY <1>1, <2>1, SameServes DEF Serves
    <3> QED BY <3>1, ServesChain, ScheduleSame, SameServes DEF Orderly
  <2>3. \E e : Serves(retried, e) /\ Becomes(e)
    BY <1>3, <2>2
  <2> QED BY <1>1, <1>3, <2>1, <2>3, NotedStep
<1> QED BY <1>2, <1>3 DEF CallSettles

\* The helper is gone.
LEMMA GoesHolds ==
  ASSUME SessionInvariant, NEW survives, NEW message, HelperGoes(survives, message),
         plan' = plan \/ (\E kind : Fault(kind))
  PROVE  Holds
<1> DEFINE left == IF Resetting THEN [c EXCEPT !.rec.call.served = TRUE] ELSE c
<1>1. Same(c, left)
  BY FieldsOf DEF SessionInvariant, Orderly, Same, IsContext
<1>2. Becomes(KeyboardLost(left, survives, message))
  BY DEF HelperGoes
<1> HIDE DEF left
<1>3. Serves(c, left) /\ Serves(left, KeyboardLost(left, survives, message))
  BY <1>1, SameServes, KeyboardLostServes DEF SessionInvariant, Serves
<1>4. Serves(c, c')
  BY <1>2, <1>3, BecomesServes, ServesChain DEF Serves
<1>5. Held'
  BY <1>4, HeldStep DEF SessionInvariant, Serves, HelperGoes
<1>6. Pasting'
  <2>1. /\ wire' = <<>> /\ paste' \notin {"sent", "pasted"}
        /\ (paste \in {"pasted", "answered"} => paste' = "answered")
    BY DEF HelperGoes
  <2>2. Proven(c') => paste' = "answered"
    BY <1>4, <2>1 DEF SessionInvariant, Pasting, Serves, ProvesNot
  <2> QED BY <2>1, <2>2 DEF Pasting
<1>7. Planned'
  BY PlanStep DEF SessionInvariant, Planned, HelperGoes
<1> QED BY <1>4, <1>5, <1>6, <1>7 DEF Holds, Serves

\* The helper is back.
LEMMA ReadyHolds == ASSUME SessionInvariant, HelperReady PROVE Holds
<1>1. Orderly(c)
  BY DEF SessionInvariant
<1>2. PICK e : Serves(c, e) /\ Becomes(e)
  <2>1. Serves(c, c) /\ Serves(c, Ask(c, CaptureModeFor(c.s.phase)))
    BY <1>1, ServesChain, AskSame, SameServes DEF Orderly
  <2> QED BY <2>1 DEF HelperReady
<1>3. Serves(c, c')
  BY <1>2, BecomesServes, ServesChain DEF Serves
<1>4. Held'
  BY <1>3, HeldStep DEF SessionInvariant, Serves, HelperReady
<1>5. Pasting'
  <2>1. paste \notin {"sent", "pasted"} /\ UNCHANGED <<wire, paste>>
    BY DEF HelperReady, SessionInvariant, Pasting
  <2> QED BY <1>3, <2>1 DEF SessionInvariant, Pasting, Serves, ProvesNot, WaitsStill
<1>6. Planned'
  BY PlanStep DEF SessionInvariant, Planned, HelperReady, Modes
<1> QED BY <1>3, <1>4, <1>5, <1>6 DEF Holds, Serves

-----------------------------------------------------------------------------
(* The theorems                                                            *)

\* At first there is no session, and nothing is held.
LEMMA SessionInit == Init => SessionInvariant
<1> SUFFICES ASSUME Init PROVE SessionInvariant
  OBVIOUS
<1>1. Invariant
  BY InvariantInit
<1>2. c = NewContext /\ wire = <<>> /\ paste = "none" /\ plan \in Plans /\ native = "off"
      /\ mic = [k \in SessionIds |-> "none"] /\ grant = [k \in SessionIds |-> "none"]
      /\ stream = [k \in SessionIds |-> "none"]
  BY DEF Init
<1>3. /\ c.s = IdleSession /\ c.queue = <<>> /\ c.stage = "ready" /\ c.owner = "none"
      /\ ~c.captureId /\ ~c.captureOpening /\ ~c.stopCompleted /\ c.teardownComplete
      /\ c.written = <<>> /\ ~c.committed /\ ~c.disposed /\ c.shutdown = "no" /\ IsContext(c)
  BY <1>1, <1>2 DEF NewContext, Invariant
<1>4. InOrder(c)
  BY <1>3, IdleType DEF InOrder, Ending, Rising, Elements, IsCapture, IsRecording
<1>5. Shaped(c) /\ Written(c) /\ Owned(c)
  BY <1>3, IdleType DEF Shaped, Written, Owned, Heard
<1>6. Held
  BY <1>2 DEF Held
<1>7. Pasting
  BY <1>2, <1>3, IdleType DEF Pasting, Proven
<1>8. Planned
  BY <1>2, PlansAssumption DEF Planned, Modes
<1> QED BY <1>1, <1>3, <1>4, <1>5, <1>6, <1>7, <1>8 DEF SessionInvariant, Orderly

\* Every step keeps the session in order, and what it holds its own.
LEMMA SessionNext == SessionInvariant /\ [Next]_vars => SessionInvariant'
<1> SUFFICES ASSUME SessionInvariant, [Next]_vars PROVE SessionInvariant'
  OBVIOUS
<1>1. Invariant'
  BY StepAllowed DEF SessionInvariant
<1> SUFFICES Holds
  BY <1>1 DEF Holds, SessionInvariant
<1>2. CASE EffectStep
  BY <1>2, StartHolds, OpenHolds, ThrownHolds, OpenedHolds, ExtendedHolds, TranscribeHolds, StoppedHolds,
     InferredHolds, SmartHolds, ProcessedHolds, InsertHolds, RejectedHolds, SettlesHolds, TeardownHolds,
     TeardownStoppedHolds, ReleaseHolds
  DEF EffectStep
<1>3. CASE EventStep
  BY <1>3, ResetHolds, UserHolds, TimesOutHolds, EndHolds, ContinueHolds DEF EventStep
<1>4. CASE ResourceStep
  BY <1>4, MicrophoneOpensHolds, MicrophoneFailsHolds, MicrophoneStopsHolds, MicrophoneLostHolds, ResourceHolds
  DEF ResourceStep
<1>5. CASE HelperStep
  <2>1. CASE HelperResets \/ HelperLost
    BY <2>1, GoesHolds DEF HelperResets, HelperLost
  <2> QED BY <1>5, <2>1, PressHolds, ServeHolds, PasteHolds, ReadHolds, CallHolds, ReadyHolds DEF HelperStep
<1>6. CASE UNCHANGED vars
  BY <1>6 DEF vars, SessionInvariant, Held, Pasting, Planned, Current, Holds
<1> QED BY <1>2, <1>3, <1>4, <1>5, <1>6 DEF Next

\* The inductive invariant holds in every state of every behaviour.
LEMMA SessionAlways == Spec => []SessionInvariant
BY SessionInit, SessionNext, PTL DEF Spec

\* A session that is over, by its reset or by the end of the application, has
\* left neither the microphone open nor the model or a stream held: its
\* teardown has run after every effect that could have opened one.
THEOREM SessionIdleHoldsNothing == Spec => []IdleHoldsNothing
<1>1. SessionInvariant => IdleHoldsNothing
  <2> SUFFICES ASSUME SessionInvariant, c.s.phase = "idle" \/ c.shutdown = "over" PROVE IdleHoldsNothing
    BY DEF IdleHoldsNothing
  <2>1. c.owner = "none"
    BY DEF SessionInvariant, Orderly, Shaped, Owned, IdleSession
  <2> QED BY <2>1 DEF SessionInvariant, Held, IdleHoldsNothing
<1> QED BY <1>1, SessionAlways, PTL

\* However the paste, its cancellation, the loss of the helper and the end of
\* the application race, what the user is shown is what the helper did, a
\* commitment decides it, and the history has one record of it.
THEOREM SessionHistory == Spec => []HistoryIsTrue
<1>1. SessionInvariant => HistoryIsTrue
  <2> SUFFICES ASSUME SessionInvariant PROVE HistoryIsTrue
    OBVIOUS
  <2>1. Orderly(c)
    BY DEF SessionInvariant
  <2>2. IsInjective(c.queue)
    <3> SUFFICES ASSUME NEW i \in DOMAIN c.queue, NEW j \in DOMAIN c.queue, c.queue[i] = c.queue[j]
                 PROVE  i = j
      BY DEF IsInjective
    <3>1. c.queue \in Seq(Effects) /\ Rising(c.queue) /\ i \in Nat /\ j \in Nat
      BY <2>1 DEF Orderly, InOrder
    <3>2. c.queue[i] \notin Later(c.queue[i])
      BY DEF Later
    <3> QED BY <3>1, <3>2 DEF Rising
  <2>3. EchoTypeOK
    BY <2>1, <2>2
    DEF EchoTypeOK, SessionInvariant, Orderly, InOrder, Shaped, Invariant, Agree, Sound, Planned
  <2>4. OutcomeIsTrue
    BY <2>1 DEF OutcomeIsTrue, SessionInvariant, Orderly, Written, Pasting, Proven
  <2>5. OneRecord
    <3>1. c.s.phase \in {"completed", "cancelled"} => c.s.id # 0
      BY <2>1 DEF Orderly, Shaped
    <3>2. Len(c.written) <= 1
      <4>1. Len(<<>>) <= 1 /\ Len(<<"done">>) <= 1 /\ Len(<<"error">>) <= 1
        OBVIOUS
      <4>2. c.written \in {<<>>, <<"done">>, <<"error">>}
        BY <2>1 DEF Orderly, Written
      <4> QED BY <4>1, <4>2
    <3> QED BY <2>1, <3>1, <3>2 DEF OneRecord, Orderly, Written
  <2> QED BY <2>3, <2>4, <2>5 DEF HistoryIsTrue
<1> QED BY <1>1, SessionAlways, PTL
=============================================================================
