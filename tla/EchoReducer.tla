---------------------------- MODULE EchoReducer ----------------------------
(***************************************************************************)
(* The reducer of a dictation session: the state and the effects that      *)
(* every event leads to (app/src/main/echo/session-reducer.ts).            *)
(*                                                                         *)
(* A text is there or not; of the target token, whether it is known.  The  *)
(* levels, the elapsed time and the wording are left out, and so are the   *)
(* dictation mode, which no transition reads, and a reason for an abort    *)
(* other than the provider's, which start the fallback to the raw text.    *)
(***************************************************************************)
EXTENDS Naturals, Sequences

Phases ==
  {"idle", "arming", "recordingQuick", "recordingExtended", "transcribing",
   "processingSmart", "inserting", "restoringClipboard", "completed", "cancelled", "error"}

IsRecording(phase) == phase \in {"recordingQuick", "recordingExtended"}
IsCapture(phase) == phase = "arming" \/ IsRecording(phase)
IsTerminal(phase) == phase \in {"completed", "cancelled", "error"}

CaptureModeFor(phase) ==
  IF IsCapture(phase) THEN "recording"
  ELSE IF phase \in {"transcribing", "processingSmart", "inserting"} THEN "cancel-only"
  ELSE "off"

Effects == {"start-capture", "begin-extended", "transcribe", "process-smart", "insert", "teardown"}

IdleSession ==
  [id |-> 0, phase |-> "idle", smart |-> FALSE, captureReady |-> FALSE, audioReady |-> FALSE,
   submitPending |-> FALSE, target |-> FALSE, transcript |-> FALSE, final |-> FALSE,
   fallback |-> FALSE, insertion |-> "none", completion |-> "none"]

Sessions(n) ==
  [id : 0 .. n, phase : Phases, smart : BOOLEAN, captureReady : BOOLEAN, audioReady : BOOLEAN,
   submitPending : BOOLEAN, target : BOOLEAN, transcript : BOOLEAN, final : BOOLEAN,
   fallback : BOOLEAN, insertion : {"none", "pending", "cancel-requested", "committed"},
   completion : {"none", "inserted", "copied", "indeterminate"}]

-----------------------------------------------------------------------------
\* A transition: the state it leads to, with the effects it starts.
To(s, effects) == [state |-> s, effects |-> effects]
Stay(s) == To(s, <<>>)

ToError(s) == To([s EXCEPT !.phase = "error"], <<"teardown">>)

BeginInsertion(s) == To([s EXCEPT !.phase = "inserting", !.insertion = "pending"], <<"insert">>)

ShortcutDown(s, id, smart, target) ==
  To([IdleSession EXCEPT !.id = id, !.phase = "arming", !.smart = smart, !.target = target],
     <<"start-capture">>)

OperationalFailure(s) ==
  IF s.phase = "idle" THEN Stay([IdleSession EXCEPT !.phase = "error"]) ELSE Stay(s)

Transcribe(s) ==
  To([s EXCEPT !.phase = "transcribing", !.submitPending = FALSE], <<"transcribe">>)

Submit(s) ==
  IF ~IsCapture(s.phase) THEN Stay(s)
  ELSE IF s.captureReady /\ s.audioReady THEN Transcribe(s)
  ELSE Stay([s EXCEPT !.submitPending = TRUE])

\* Mutant of Ready: a submission that waits for the capture is not looked at.
ReadyOnly(s, field) == IF IsCapture(s.phase) THEN Stay([s EXCEPT ![field] = TRUE]) ELSE Stay(s)

\* capture-started and audio-started.
Ready(s, field) ==
  LET ready == [s EXCEPT ![field] = TRUE]
  IN  IF ~IsCapture(s.phase) THEN Stay(s)
      ELSE IF ready.submitPending /\ ready.captureReady /\ ready.audioReady
      THEN Transcribe(ready)
      ELSE Stay(ready)

KeyboardDisconnected(s) ==
  IF s.id = 0 THEN Stay(s) ELSE Submit([s EXCEPT !.target = FALSE])

\* hold-elapsed, and a shortcut-up after as long a time.
Extend(s) ==
  IF s.phase # "arming" \/ s.submitPending THEN Stay(s)
  ELSE To([s EXCEPT !.phase = "recordingExtended"], <<"begin-extended">>)

ShortcutUp(s, long) ==
  IF s.phase # "arming" \/ s.submitPending THEN Stay(s)
  ELSE IF long THEN Extend(s)
  ELSE Stay([s EXCEPT !.phase = "recordingQuick"])

Transcribed(s, speech) ==
  IF s.phase # "transcribing" THEN Stay(s)
  ELSE IF ~speech THEN ToError(s)
  ELSE IF s.smart
  THEN To([s EXCEPT !.phase = "processingSmart", !.transcript = TRUE], <<"process-smart">>)
  ELSE BeginInsertion([s EXCEPT !.transcript = TRUE, !.final = TRUE])

VoiceCommandMatched(s) ==
  IF s.phase \notin {"transcribing", "processingSmart"} THEN Stay(s)
  ELSE BeginInsertion([s EXCEPT !.transcript = TRUE])

SmartCompleted(s, text) ==
  IF s.phase # "processingSmart" THEN Stay(s)
  ELSE IF ~text THEN ToError(s)
  ELSE BeginInsertion([s EXCEPT !.final = TRUE])

\* provider: the reason is provider-error or timeout.
Abort(s, provider) ==
  IF s.phase \in {"idle", "restoringClipboard"} \/ IsTerminal(s.phase) THEN Stay(s)
  ELSE IF s.phase = "inserting" THEN Stay([s EXCEPT !.insertion = "cancel-requested"])
  ELSE IF provider /\ s.phase = "processingSmart" /\ s.transcript
  THEN BeginInsertion([s EXCEPT !.fallback = TRUE, !.final = TRUE])
  ELSE To([s EXCEPT !.phase = "cancelled"], <<"teardown">>)

InsertionCommitted(s) ==
  IF s.phase # "inserting" \/ s.insertion = "committed" THEN Stay(s)
  ELSE Stay([s EXCEPT !.phase = "restoringClipboard", !.insertion = "committed"])

InsertionCancelled(s) ==
  IF s.phase # "inserting" \/ s.insertion # "cancel-requested" THEN Stay(s)
  ELSE To([s EXCEPT !.phase = "cancelled"], <<"teardown">>)

Inserted(s, completion) ==
  IF s.phase \notin {"inserting", "restoringClipboard"} THEN Stay(s)
  ELSE To([s EXCEPT !.phase = "completed", !.completion = completion,
                    !.insertion = IF completion = "inserted" THEN "committed" ELSE "none"],
          <<"teardown">>)

Fail(s) == IF s.phase = "idle" \/ IsTerminal(s.phase) THEN Stay(s) ELSE ToError(s)

=============================================================================
