--------------------------- MODULE EchoProperties ---------------------------
(***************************************************************************)
(* What a dictation session promises.                                      *)
(***************************************************************************)
EXTENDS EchoSession

\* The session, the reconciler and the effects to come have their types, and no
\* effect waits twice.
EchoTypeOK ==
  /\ c.s \in Sessions(MaxSessions)
  /\ c.rec \in Reconcilers
  /\ native \in Modes
  /\ c.queue \in Seq(Effects) /\ IsInjective(c.queue)

\* A session that is over holds nothing: the microphone has been asked to
\* stop, the model's lease and the stream are released.
IdleHoldsNothing ==
  c.s.phase = "idle" \/ c.shutdown = "over" =>
    \A k \in SessionIds :
      /\ mic[k] \notin {"opening", "on"}
      /\ grant[k] # "held"
      /\ stream[k] # "open"

\* The outcome shown is that of the paste, and a commitment decides it.
OutcomeIsTrue ==
  /\ c.s.completion = "inserted" => paste \in {"pasted", "answered"}
  /\ c.s.id # 0 /\ c.committed =>
       /\ c.s.phase \in {"restoringClipboard", "completed"}
       /\ c.s.phase = "completed" => c.s.completion = "inserted"
       /\ c.written = <<"done">>

\* The history of a session is one record, that of its outcome.
OneRecord ==
  /\ Len(c.written) <= 1
  /\ c.s.phase = "completed" => c.written = <<"done">>
  /\ c.s.phase = "cancelled" => c.written = <<>>

\* However the paste and its cancellation race, what the user is shown and what
\* the history keeps are what happened.  (And the state has its type.)
HistoryIsTrue == EchoTypeOK /\ OutcomeIsTrue /\ OneRecord

\* The session's part in CaptureHelper.
CaptureImplementation == INSTANCE CaptureHelper WITH
  rec <- c.rec, Notices <- {"up", "committed", "submitted", "rejected", "indeterminate"}

\* captureOffGuaranteed is the truth, which the terminal reset relies on.
CaptureOffIsTrue == CaptureImplementation!CaptureOffIsTrue

\* The session asks, answers and forgets only as the reconciler and the helper
\* of CaptureHelper do.
CaptureImplemented == CaptureImplementation!Spec
=============================================================================
