--------------------------- MODULE WhisperSession ---------------------------
(***************************************************************************)
(* The callers of the transcription worker's client: transcriptions,       *)
(* verifications and mutations of the model (whisper-worker-client.ts,     *)
(* model-manager*.ts, app/model-runtime-coordinator.ts) and one streaming  *)
(* session (whisper-streaming-session.ts), each under its lease on the     *)
(* model's files.  With WhisperClient this is the whole system.            *)
(***************************************************************************)
EXTENDS WhisperClient

Users == Transcribers \cup {Session}

Captured(s) == IF s.process THEN s.gen ELSE 0

IsCurrent(s, g) == s.gen = g /\ s.process

IsOperational(s, g) == IsCurrent(s, g) /\ s.term.gen = 0 /\ ~Closing(s)

Go(s, caller, pc) == [s EXCEPT !.pc[caller] = pc, !.expected[caller] = 0]

Queued(s, caller) == \E i \in DOMAIN s.lock.queue : s.lock.queue[i].who = caller

-----------------------------------------------------------------------------
(* transcribe and warmup                                                   *)

\* A holder stands for one call.
StartUse(user) ==
  /\ w.pc[user] = "idle"
  /\ w' = [Go(w, user, "waiting") EXCEPT !.expected[user] = Captured(w),
                                         !.lock = Acquire(@, user, "use")]

AbandonWait(caller) ==
  /\ w.pc[caller] = "waiting"
  /\ Queued(w, caller)
  /\ w' = [Go(w, caller, "over") EXCEPT !.lock = Abandon(@, caller)]

\* acquireReadyModel: the model's status decides under the lease.
UseGranted(user) ==
  /\ w.pc[user] = "waiting"
  /\ user \in w.lock.readers
  /\ \/ w' = [Go(w, user, "over") EXCEPT !.lock = ReleaseUses(@, {user})]
     \/ w' = IF user = Session
             THEN BeginRequest(Go(w, user, "opening"), "push", "open", w.expected[user])
             ELSE BeginRequest(Go(w, user, "working"), user, "transcribe", w.expected[user])

FinishUse(user) ==
  /\ w.pc[user] = "working"
  /\ w.req[user].phase = "done"
  /\ w' = ReleaseUseWhenSafe([Go(w, user, "over") EXCEPT !.req[user] = NoRequest],
                             w.req[user].captured, user)

-----------------------------------------------------------------------------
(* Verification under a shared lease, mutation under an exclusive one      *)

StartVerification(v) ==
  /\ w.pc[v] = "idle"
  /\ w' = [Go(w, v, "waiting") EXCEPT !.lock = Acquire(@, v, "use")]

\* The files are inspected, and the worker is asked when they are whole.
VerificationGranted(v) ==
  /\ w.pc[v] = "waiting"
  /\ v \in w.lock.readers
  /\ \/ w' = [Go(w, v, "over") EXCEPT !.lock = ReleaseUses(@, {v})]
     \/ w' = BeginRequest(Go(w, v, "checking"), v, "check", 0)

FinishVerification(v) ==
  /\ w.pc[v] = "checking"
  /\ w.req[v].phase = "done"
  /\ w' = [Go(w, v, "over") EXCEPT !.req[v] = NoRequest, !.lock = ReleaseUses(@, {v})]

StartMutation(m) ==
  /\ w.pc[m] = "idle"
  /\ w' = [Go(w, m, "waiting") EXCEPT !.lock = Acquire(@, m, "mutation")]

\* deleteIfIdle: only when nobody holds or awaits the lease.
TryMutation(m) ==
  /\ w.pc[m] = "idle"
  /\ CanTryMutation(w.lock)
  /\ w' = [Go(w, m, "waiting") EXCEPT !.lock = TryAcquireMutation(@, m)]

\* beforeMutation: unload waits for a termination in progress first.
MutationGranted(m) ==
  /\ w.pc[m] = "waiting"
  /\ w.lock.writer = m
  /\ w' = [Go(w, m, "unload") EXCEPT !.expected[m] = w.term.gen]

Unload(m) ==
  /\ w.pc[m] = "unload"
  /\ w.lastExited >= w.expected[m]
  /\ w' = IF w.process THEN BeginRequest(Go(w, m, "unloading"), m, "unload", 0)
          ELSE Go(w, m, "files")

Unloaded(m) ==
  /\ w.pc[m] = "unloading"
  /\ w.req[m].phase = "done"
  /\ LET over == [w EXCEPT !.req[m] = NoRequest] IN
     w' = IF w.req[m].result = "ok" THEN Go(over, m, "files")
          ELSE [Go(over, m, "over") EXCEPT !.lock = ReleaseMutation(@)]

\* The files were changed, or could not be; an installation is checked by the worker.
FilesChanged(m) ==
  /\ w.pc[m] = "files"
  /\ \/ w' = [Go(w, m, "over") EXCEPT !.lock = ReleaseMutation(@)]
     \/ w' = BeginRequest(Go(w, m, "checking"), m, "check", 0)

FinishMutation(m) ==
  /\ w.pc[m] = "checking"
  /\ w.req[m].phase = "done"
  /\ w' = [Go(w, m, "over") EXCEPT !.req[m] = NoRequest, !.lock = ReleaseMutation(@)]

-----------------------------------------------------------------------------
(* The streaming session: open, push, finish, cancel                       *)

SessionOpen(s) == s.pc[Session] = "open"

ReleaseSession(s) == ReleaseUseWhenSafe([s EXCEPT !.sess.release = "none"], s.sess.gen, Session)

CloseSession(s) ==
  IF s.sess.closed THEN s
  ELSE [s EXCEPT !.sess.closed = TRUE, !.leases[s.sess.gen] = @ \ {Session}]

\* ensureWorkerSessionCancelled, sent once; then the lease is released.
DropThenRelease(s) ==
  IF s.sess.drop = "done" THEN ReleaseSession(s)
  ELSE IF s.sess.drop # "none" THEN [s EXCEPT !.sess.release = "drop"]
  ELSE IF ~IsCurrent(s, s.sess.gen) THEN ReleaseSession([s EXCEPT !.sess.drop = "done"])
  ELSE BeginRequest([s EXCEPT !.sess.drop = "asked", !.sess.release = "drop"],
                    "drop", "drop", s.sess.gen)

\* sessionController.abort(): queued pushes leave, the request in progress aborts.
AbortSession(s, killed) ==
  LET aborted == [s EXCEPT !.sess.aborted = TRUE, !.sess.queued = 0]
  IN  IF Active(s, "push") THEN Abort(aborted, "push", killed)
      ELSE IF Active(s, "finish") THEN Abort(aborted, "finish", killed)
      ELSE aborted

\* A session whose push is with the worker ends with the worker.
TerminateSession(s, killed) ==
  LET ending == BeginTermination(s, s.sess.gen, "cancel", FALSE, {"push"}, killed)
  IN  IF ending.term.gen = s.sess.gen /\ IsCurrent(ending, s.sess.gen)
      THEN [ending EXCEPT !.sess.release = "exit"] ELSE ReleaseSession(ending)

SessionOpened ==
  /\ w.pc[Session] = "opening"
  /\ w.req["push"].phase = "done"
  /\ LET g    == w.req["push"].captured
         over == [w EXCEPT !.req["push"] = NoRequest] IN
     w' = IF w.req["push"].result = "ok" /\ IsOperational(w, g)
          THEN [Go(over, Session, "open") EXCEPT !.sess.gen = g, !.leases[g] = @ \cup {Session}]
          ELSE ReleaseUseWhenSafe(Go(over, Session, "over"), g, Session)

Pending(s) == s.sess.queued + (IF s.sess.pushing THEN 1 ELSE 0)

Push ==
  /\ "push" \in w.cast
  /\ SessionOpen(w) /\ ~w.sess.failed /\ ~w.sess.closed
  /\ IF ~IsCurrent(w, w.sess.gen) THEN w' = ReleaseSession(CloseSession(w))
     ELSE /\ Pending(w) < MaxPushes
          /\ w' = [w EXCEPT !.sess.queued = @ + 1]

\* The turn of the push in front; after a failed push it only fails.
PushTurn ==
  /\ w.sess.queued > 0 /\ ~w.sess.pushing
  /\ w' = IF w.sess.failed THEN [w EXCEPT !.sess.queued = @ - 1]
          ELSE BeginRequest([w EXCEPT !.sess.queued = @ - 1, !.sess.pushing = TRUE],
                            "push", "push", w.sess.gen)

\* latchPushFailure: the first failure closes the session and drops it in the worker.
PushSettled ==
  /\ w.sess.pushing
  /\ w.req["push"].phase = "done"
  /\ LET over == [w EXCEPT !.req["push"] = NoRequest, !.sess.pushing = FALSE] IN
     w' = IF w.req["push"].result = "ok" \/ w.sess.failed THEN over
          ELSE DropThenRelease(CloseSession([over EXCEPT !.sess.failed = TRUE]))

DropSettled ==
  /\ w.sess.drop = "asked"
  /\ w.req["drop"].phase = "done"
  /\ LET over == [w EXCEPT !.req["drop"] = NoRequest] IN
     \/ /\ w.req["drop"].result = "ok" \/ ~IsCurrent(w, w.sess.gen)
        /\ w' = ReleaseSession([over EXCEPT !.sess.drop = "done"])
     \/ /\ w.req["drop"].result # "ok" /\ IsCurrent(w, w.sess.gen)
        /\ \E killed \in BOOLEAN :
             w' = BeginTermination([over EXCEPT !.sess.drop = "ending", !.sess.release = "exit"],
                                   w.sess.gen, "cancel", FALSE, {}, killed)

\* The termination a release waited for has settled.
TerminationSettled ==
  /\ w.sess.release = "exit"
  /\ ~IsCurrent(w, w.sess.gen)
  /\ w' = ReleaseSession([w EXCEPT !.sess.drop = IF @ = "ending" THEN "done" ELSE @])

Finish ==
  /\ SessionOpen(w) /\ ~w.sess.failed /\ ~w.sess.closed
  /\ w' = [CloseSession(w) EXCEPT !.sess.finish = "tail"]

\* The end of a finish that failed.
Unwind(s, killed) ==
  LET over == [s EXCEPT !.sess.finish = "over", !.req["finish"] = NoRequest]
  IN  IF s.sess.aborted /\ s.req["push"].phase = "sent" THEN TerminateSession(over, killed)
      ELSE IF ~s.sess.aborted /\ s.sess.failed THEN over
      ELSE DropThenRelease(over)

\* Every push has settled: session-finish, unless a push failed or the worker changed.
FinishProceeds ==
  /\ w.sess.finish = "tail"
  /\ Pending(w) = 0
  /\ w' = IF w.sess.failed \/ ~IsCurrent(w, w.sess.gen) THEN Unwind(w, FALSE)
          ELSE BeginRequest([w EXCEPT !.sess.finish = "asked"], "finish", "finish", w.sess.gen)

FinishSettled ==
  /\ w.sess.finish = "asked"
  /\ w.req["finish"].phase = "done"
  /\ w' = IF w.req["finish"].result = "ok"
          THEN ReleaseSession([w EXCEPT !.sess.finish = "over", !.req["finish"] = NoRequest])
          ELSE Unwind(w, FALSE)

\* finish's own signal, or cancel() during a finish: while it waits for the
\* pushes the finish unwinds at once, and its request fails otherwise.
AbortFinish(s, killed) ==
  LET aborted == AbortSession(s, killed)
  IN  IF s.sess.finish = "tail" THEN Unwind(aborted, killed) ELSE aborted

FinishAborted ==
  /\ w.sess.finish \in {"tail", "asked"}
  /\ ~w.sess.aborted
  /\ \E killed \in BOOLEAN : w' = AbortFinish(w, killed)

\* cancel(), once.
Cancel ==
  /\ SessionOpen(w) /\ w.sess.cancel = "none"
  /\ \E killed \in BOOLEAN :
       LET asked == [w EXCEPT !.sess.cancel = "over"] IN
       IF w.sess.failed THEN w' = asked
       ELSE IF w.sess.closed
       THEN w' = IF w.sess.finish \in {"tail", "asked"} /\ ~w.sess.aborted
                 THEN AbortFinish(asked, killed) ELSE asked
       ELSE LET aborted == AbortSession(CloseSession(asked), killed) IN
            w' = IF aborted.req["push"].phase = "sent" THEN TerminateSession(aborted, killed)
                 ELSE [aborted EXCEPT !.sess.cancel = "tail"]

CancelProceeds ==
  /\ w.sess.cancel = "tail"
  /\ Pending(w) = 0
  /\ LET over == [w EXCEPT !.sess.cancel = "over"] IN
     w' = IF w.sess.failed THEN over ELSE DropThenRelease(over)

-----------------------------------------------------------------------------

Callers ==
  \/ \E user \in Users : StartUse(user) \/ UseGranted(user)
  \/ \E user \in Transcribers : FinishUse(user)
  \/ \E v \in Verifiers : StartVerification(v) \/ VerificationGranted(v) \/ FinishVerification(v)
  \/ \E m \in Mutators :
       \/ StartMutation(m) \/ TryMutation(m) \/ MutationGranted(m)
       \/ Unload(m) \/ Unloaded(m) \/ FilesChanged(m) \/ FinishMutation(m)
  \/ \E caller \in Holders : AbandonWait(caller)

Streaming ==
  \/ SessionOpened \/ Push \/ PushTurn \/ PushSettled \/ DropSettled \/ TerminationSettled
  \/ Finish \/ FinishProceeds \/ FinishSettled \/ FinishAborted \/ Cancel \/ CancelProceeds

Requests == \E slot \in Slots : Enter(slot) \/ Dispatch(slot) \/ CallerAborts(slot) \/ TimesOut(slot)

Worker ==
  \/ \E g \in Generations : WorkerAnswers(g) \/ WorkerDies(g) \/ ExitReported(g)
  \/ HealthConfirmed \/ StabilityReset \/ HealthTimesOut \/ RestartFires
  \/ ForceKill \/ RetryKill \/ Deadline
  \/ CloseAsked \/ CloseGrace \/ CloseEnds

Next == Callers \/ Streaming \/ Requests \/ Worker

Spec == Init /\ [][Next]_w
=============================================================================
