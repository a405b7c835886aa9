--------------------------- MODULE WhisperClient ---------------------------
(***************************************************************************)
(* The client of the local transcription worker, app/src/main/transcription *)
(* (whisper-worker-*.ts, whisper-streaming-session.ts), composed with the  *)
(* lease on the model's files (ModelAccess) and with the worker process.   *)
(*                                                                         *)
(* The client is single-threaded: between two awaits its code runs alone,  *)
(* so an action is the code from one await to the next.  The worker, its   *)
(* timers and its callers move in between.  The state is one record and a  *)
(* method that others call is an operator from the state it finds to the   *)
(* one it leaves.                                                          *)
(***************************************************************************)
EXTENDS ModelAccess, FiniteSets

CONSTANTS
  Transcribers,    \* calls of transcribe (one of warmup is the same)
  Verifiers,       \* verifications of the installed model
  Mutators,        \* deletions and installations of the model
  Session,         \* the streaming session, as a caller
  Casts,           \* what happens: callers that call, "push", "close", a slow "health"
  MaxPushes,       \* MAX_PENDING_PUSHES
  MaxRestarts,     \* MAX_AUTOMATIC_RESTARTS
  MaxGeneration    \* bound: worker generations

ASSUME CallersAssumption ==
  /\ Holders = Transcribers \cup Verifiers \cup Mutators \cup {Session}
  /\ Casts \subseteq SUBSET (Holders \cup {"push", "close", "health"})

\* One caller makes calls of one sort, and no caller is named like a slot.
ASSUME DistinctAssumption ==
  /\ Transcribers \cap Verifiers = {} /\ Transcribers \cap Mutators = {}
  /\ Verifiers \cap Mutators = {}
  /\ Session \notin Transcribers \cup Verifiers \cup Mutators
  /\ Holders \cap {"push", "finish", "drop", "shutdown", "none"} = {}

ASSUME BoundsAssumption ==
  MaxPushes \in Nat /\ MaxRestarts \in Nat /\ MaxGeneration \in Nat

VARIABLE w

Generations == 1..MaxGeneration

\* A caller has one request at a time, but for the session, which may cancel
\* (drop) beside a push, and close, whose request is "shutdown".
Slots == Transcribers \cup Verifiers \cup Mutators \cup {"push", "finish", "drop", "shutdown"}

NoSlot == "none"

OwnerOf(slot) == IF slot \in {"push", "finish", "drop"} THEN Session ELSE slot

NoTermination == [gen |-> 0, kind |-> "none", restart |-> FALSE, cancelled |-> {},
                  confirmed |-> FALSE, timer |-> "none"]

NoRequest == [phase |-> "none", kind |-> "none", waits |-> 0, expected |-> 0, gen |-> 0,
              captured |-> 0, result |-> "none", asked |-> FALSE]

\* drop is the cancellation sent to the worker, which is sent once; release says
\* what the lease still waits for.
NoSession == [gen |-> 0, closed |-> FALSE, failed |-> FALSE, aborted |-> FALSE,
              queued |-> 0, pushing |-> FALSE, drop |-> "none", release |-> "none",
              finish |-> "none", cancel |-> "none"]

StartWith(cast) ==
  [cast |-> cast, lock |-> FreeLock, pc |-> [c \in Holders |-> IF c \in cast THEN "idle" ELSE "over"],
   expected |-> [c \in Holders |-> 0], sess |-> NoSession, req |-> [s \in Slots |-> NoRequest], chain |-> <<>>,
   gen |-> 0, process |-> FALSE, lastExited |-> 0, health |-> "none",
   restarts |-> 0, restartDue |-> FALSE, term |-> NoTermination, retired |-> {},
   leases |-> [g \in Generations |-> {}], closing |-> "no",
   alive |-> [g \in Generations |-> FALSE], job |-> [g \in Generations |-> NoSlot]]

Init == \E cast \in Casts : w = StartWith(cast)

\* Mutant of Closing: set only when close() is done.
ClosingWhenDone(s) == s.closing = "closed"

Closing(s) == s.closing # "no"

Sent(s) == {slot \in Slots : s.req[slot].phase = "sent"}

-----------------------------------------------------------------------------
(* Leases and termination: whisper-worker-termination.ts                   *)

ReleaseGenerationLeases(s, g) ==
  [s EXCEPT !.leases[g] = {}, !.lock = ReleaseUses(@, s.leases[g])]

\* Mutant of ReleaseUseWhenSafe: a quarantined generation is forgotten.
ReleaseUseUnlessTerminating(s, g, holder) ==
  IF g > 0 /\ s.term.gen = g /\ s.process
  THEN [s EXCEPT !.leases[g] = @ \cup {holder}]
  ELSE [s EXCEPT !.lock = ReleaseUses(@, {holder})]

ReleaseUseWhenSafe(s, g, holder) ==
  IF g > 0 /\ ((s.term.gen = g /\ s.process) \/ g \in s.retired)
  THEN [s EXCEPT !.leases[g] = @ \cup {holder}]
  ELSE [s EXCEPT !.lock = ReleaseUses(@, {holder})]

\* kill() of a live process that succeeds ends its work.
Killed(s, g) == [s EXCEPT !.alive[g] = FALSE, !.job[g] = NoSlot]

\* retryRetiredProcessCleanup: kill() succeeds for the generations in cleaned.
CleanRetired(s, cleaned) ==
  LET holders == UNION {s.leases[g] : g \in cleaned}
  IN  [s EXCEPT !.retired = @ \ cleaned,
                !.alive = [g \in Generations |-> s.alive[g] /\ g \notin cleaned],
                !.job = [g \in Generations |-> IF g \in cleaned THEN NoSlot ELSE s.job[g]],
                !.leases = [g \in Generations |-> IF g \in cleaned THEN {} ELSE s.leases[g]],
                !.lock = ReleaseUses(@, holders)]

BeginTermination(s, g, kind, restart, cancelled, killed) ==
  IF g # s.gen \/ ~s.process THEN s
  ELSE IF s.term.gen = g
  THEN IF kind = "close"
       THEN [s EXCEPT !.term.kind = "close", !.term.restart = FALSE]
       ELSE s
  ELSE LET begun == [s EXCEPT !.term = [gen |-> g, kind |-> kind, restart |-> restart,
                                        cancelled |-> cancelled, confirmed |-> killed,
                                        timer |-> "force"]]
       IN  IF killed THEN Killed(begun, g) ELSE begun

-----------------------------------------------------------------------------
(* Process generations: whisper-worker-process.ts                          *)

ScheduleRestart(s) ==
  IF s.restartDue \/ Closing(s) \/ s.restarts >= MaxRestarts THEN s
  ELSE [s EXCEPT !.restartDue = TRUE, !.restarts = @ + 1]

Settle(request, result) ==
  [request EXCEPT !.phase = "done", !.result = result, !.waits = 0, !.expected = 0, !.gen = 0]

ErrorOf(term, slot) ==
  CASE term.kind = "cancel" -> IF slot \in term.cancelled THEN "cancelled" ELSE "crashed"
    [] term.kind = "close" -> "cancelled"
    [] OTHER -> "crashed"

\* Mutant of RejectGeneration: whoever shares the worker is told CANCELLED.
RejectAllCancelled(s, g, term) ==
  LET error == IF term.kind \in {"cancel", "close"} \/ Closing(s) THEN "cancelled" ELSE "crashed"
  IN  [s EXCEPT !.req = [slot \in Slots |->
         IF s.req[slot].phase = "sent" /\ s.req[slot].gen = g
         THEN Settle(s.req[slot], error) ELSE s.req[slot]]]

\* The request that is with the worker is the first of the chain.
RejectGeneration(s, g, term) ==
  LET error(slot) == IF term.gen = g THEN ErrorOf(term, slot)
                     ELSE IF Closing(s) THEN "cancelled" ELSE "crashed"
      lost == {slot \in Sent(s) : s.req[slot].gen = g}
  IN  [s EXCEPT !.req = [slot \in Slots |->
                           IF slot \in lost THEN Settle(s.req[slot], error(slot)) ELSE s.req[slot]],
                !.chain = IF @ # <<>> /\ Head(@) \in lost THEN Tail(@) ELSE @]

\* Mutant of HandleExit: the exit of a quarantined process is not recognised.
HandleExitOfCurrent(s, g, confirmed) ==
  IF g # s.gen \/ s.lastExited = g THEN s
  ELSE LET gone     == [s EXCEPT !.lastExited = g, !.process = FALSE, !.health = "none",
                                 !.term = NoTermination]
           rejected == RejectGeneration(gone, g, s.term)
       IN  IF s.term.gen # g \/ s.term.restart THEN ScheduleRestart(rejected) ELSE rejected

HandleExit(s, g, confirmed) ==
  IF confirmed /\ g \in s.retired
  THEN ReleaseGenerationLeases([s EXCEPT !.retired = @ \ {g}], g)
  ELSE IF g # s.gen \/ s.lastExited = g THEN s
  ELSE LET gone     == [s EXCEPT !.lastExited = g, !.process = FALSE, !.health = "none",
                                 !.term = NoTermination]
           rejected == RejectGeneration(gone, g, s.term)
           released == IF confirmed THEN ReleaseGenerationLeases(rejected, g) ELSE rejected
       IN  IF s.term.gen # g \/ s.term.restart THEN ScheduleRestart(released) ELSE released

\* ensureProcess, for a state without termination; spawn() may throw, after the
\* generation was counted (up to the bound).
EnsureProcess(s, cleaned, spawned) ==
  LET clean == CleanRetired(s, cleaned)
      next  == IF s.gen < MaxGeneration THEN s.gen + 1 ELSE s.gen
  IN  IF s.process THEN clean
      ELSE IF spawned
      THEN [clean EXCEPT !.gen = next, !.process = TRUE, !.alive[next] = TRUE,
                         !.health = IF "health" \in s.cast THEN "awaited" ELSE "confirmed"]
      ELSE [clean EXCEPT !.gen = next]

-----------------------------------------------------------------------------
(* One request: whisper-worker-requests.ts                                 *)

BeginRequest(s, slot, kind, expected) ==
  [s EXCEPT !.req[slot] = [NoRequest EXCEPT !.phase = "term", !.kind = kind,
                                            !.waits = s.term.gen, !.expected = expected]]

Active(s, slot) == s.req[slot].phase \in {"term", "turn", "sent"}

Waiting(s, slot) == s.req[slot].phase \in {"term", "turn"}

\* A request that leaves the chain before its turn; the next one no longer waits for it.
Fail(s, slot, result) ==
  LET places == {i \in DOMAIN s.chain : s.chain[i] = slot}
  IN  [s EXCEPT !.req[slot] = Settle(@, result),
                !.chain = IF places = {} THEN @ ELSE RemoveAt(@, CHOOSE i \in places : TRUE)]

Refused(s, request) ==
  IF Closing(s) /\ request.kind # "shutdown" THEN "cancelled"
  ELSE IF s.term.gen # 0 THEN "crashed"
  ELSE IF request.expected > 0 /\ (s.gen # request.expected \/ ~s.process) THEN "crashed"
  ELSE IF Closing(s) /\ ~s.process THEN "cancelled"
  ELSE "no"

\* After the wait for a termination: the checks, the process, a place in the chain.
Enter(slot) ==
  /\ w.req[slot].phase = "term"
  /\ w.req[slot].waits = 0 \/ w.lastExited >= w.req[slot].waits
  /\ LET refused == Refused(w, w.req[slot]) IN
     IF refused # "no" THEN w' = Fail(w, slot, refused)
     ELSE \E cleaned \in SUBSET w.retired, spawned \in BOOLEAN :
       /\ w.process => spawned
       /\ ~w.process /\ spawned => w.gen < MaxGeneration
       /\ LET ensured == EnsureProcess(w, cleaned, spawned) IN
          IF spawned
          THEN w' = [ensured EXCEPT !.req[slot].phase = "turn", !.req[slot].gen = ensured.gen,
                                    !.req[slot].waits = 0, !.req[slot].expected = 0,
                                    !.chain = Append(@, slot)]
          ELSE w' = Fail(ScheduleRestart(ensured), slot, "crashed")

\* The request's turn: the checks again, then postMessage, which may throw when
\* the process is gone.
Dispatch(slot) ==
  /\ w.req[slot].phase = "turn"
  /\ Head(w.chain) = slot
  /\ LET g == w.req[slot].gen IN
     IF Closing(w) /\ w.req[slot].kind # "shutdown" THEN w' = Fail(w, slot, "cancelled")
     ELSE IF ~w.process \/ w.gen # g \/ w.term.gen # 0 THEN w' = Fail(w, slot, "crashed")
     ELSE LET sent == [w EXCEPT !.req[slot].phase = "sent", !.req[slot].captured = g] IN
       \/ w' = [sent EXCEPT !.job[g] = IF w.alive[g] THEN slot ELSE NoSlot]
       \/ /\ ~w.alive[g]
          /\ \E killed \in BOOLEAN :
               w' = BeginTermination(sent, g, "unavailable", TRUE, {}, killed)

\* The caller's signal aborts.
Abort(s, slot, killed) ==
  LET asked == [s EXCEPT !.req[slot].asked = TRUE]
  IN  IF Waiting(s, slot) THEN Fail(asked, slot, "cancelled")
      ELSE IF s.req[slot].phase = "sent"
      THEN BeginTermination(asked, s.req[slot].gen, "cancel", FALSE, {slot}, killed)
      ELSE s

\* Kinds whose callers pass no signal.
Uncancellable == {"unload", "drop", "shutdown"}

CallerAborts(slot) ==
  /\ Active(w, slot)
  /\ w.req[slot].kind \notin Uncancellable
  /\ ~w.req[slot].asked
  /\ \E killed \in BOOLEAN : w' = Abort(w, slot, killed)

\* The request's own deadline.
TimesOut(slot) ==
  \/ /\ Waiting(w, slot)
     /\ w' = Fail(w, slot, "crashed")
  \/ /\ w.req[slot].phase = "sent"
     /\ \E killed \in BOOLEAN :
          w' = BeginTermination(w, w.req[slot].gen, "health", TRUE, {slot}, killed)

-----------------------------------------------------------------------------
(* The worker process and its messages: handleMessage                      *)

Heard(s, g) == g = s.gen /\ s.lastExited # g /\ s.term.gen # g

Answers == {"ok", "error", "crashed", "wrong"}

WorkerAnswers(g) ==
  /\ w.alive[g]
  /\ w.job[g] # NoSlot
  /\ LET slot == w.job[g]
         idle == [w EXCEPT !.job[g] = NoSlot] IN
     IF ~Heard(w, g) THEN w' = idle
     ELSE \E answer \in Answers :
       CASE answer = "crashed" -> \E killed \in BOOLEAN :
              w' = BeginTermination(idle, g, "unavailable", TRUE, {}, killed)
         [] answer = "wrong" -> \E killed \in BOOLEAN :
              w' = BeginTermination(idle, g, "protocol", TRUE, {}, killed)
         [] OTHER ->
              w' = IF w.req[slot].phase = "sent" /\ w.req[slot].gen = g
                   THEN Fail(idle, slot, answer) ELSE idle

\* The process ends by itself; its exit is reported later, or never.
WorkerDies(g) ==
  /\ w.alive[g]
  /\ w' = Killed(w, g)

ExitReported(g) ==
  /\ ~w.alive[g]
  /\ g \in w.retired \/ (g = w.gen /\ w.process)
  /\ w' = HandleExit(w, g, TRUE)

HealthConfirmed ==
  /\ w.health = "awaited"
  /\ w.alive[w.gen]
  /\ Heard(w, w.gen)
  /\ w' = [w EXCEPT !.health = "confirmed"]

StabilityReset ==
  /\ w.health = "confirmed"
  /\ w.restarts > 0
  /\ w' = [w EXCEPT !.restarts = 0]

HealthTimesOut ==
  /\ w.health = "awaited"
  /\ w.process
  /\ \E killed \in BOOLEAN :
       w' = BeginTermination([w EXCEPT !.health = "none"], w.gen, "health", TRUE, {}, killed)

RestartFires ==
  /\ w.restartDue
  /\ LET fired == [w EXCEPT !.restartDue = FALSE] IN
     IF Closing(w) \/ w.process \/ w.term.gen # 0 THEN w' = fired
     ELSE \E cleaned \in SUBSET w.retired, spawned \in BOOLEAN :
       /\ spawned => w.gen < MaxGeneration
       /\ LET ensured == EnsureProcess(fired, cleaned, spawned)
          IN  w' = IF spawned THEN ensured ELSE ScheduleRestart(ensured)

-----------------------------------------------------------------------------
(* The timers of a termination                                             *)

\* SIGKILL by pid, which confirms nothing; kill() when that throws.
ForceKill ==
  /\ w.term.timer = "force"
  /\ LET armed == [w EXCEPT !.term.timer = "retry"] IN
     \/ w' = armed
     \/ w' = Killed(armed, w.term.gen)
     \/ w' = Killed([armed EXCEPT !.term.confirmed = TRUE], w.term.gen)

RetryKill ==
  /\ w.term.timer = "retry"
  /\ LET armed == [w EXCEPT !.term.timer = "deadline"] IN
     \/ w' = armed
     \/ w' = Killed([armed EXCEPT !.term.confirmed = TRUE], w.term.gen)

\* The exit was never reported: an unconfirmed generation is quarantined.
Deadline ==
  /\ w.term.timer = "deadline"
  /\ LET g == w.term.gen IN
     w' = HandleExit(IF w.term.confirmed THEN w ELSE [w EXCEPT !.retired = @ \cup {g}],
                     g, w.term.confirmed)

-----------------------------------------------------------------------------
(* close(): whisper-worker-supervisor.ts                                   *)

CloseAsked ==
  /\ "close" \in w.cast
  /\ w.closing = "no"
  /\ \E cleaned \in SUBSET w.retired :
       LET closing == CleanRetired([w EXCEPT !.closing = "grace", !.restartDue = FALSE,
                                             !.health = "none"], cleaned) IN
       IF ~w.process THEN w' = [closing EXCEPT !.closing = "closed"]
       ELSE IF w.term.gen # 0
       THEN w' = [BeginTermination(closing, w.gen, "close", FALSE, {}, FALSE)
                    EXCEPT !.closing = "ending"]
       ELSE w' = BeginRequest(closing, "shutdown", "shutdown", w.gen)

\* The shutdown was answered and its grace passed, or only the grace passed.
CloseGrace ==
  /\ w.closing = "grace"
  /\ IF ~w.process THEN w' = [w EXCEPT !.closing = "closed"]
     ELSE \E killed \in BOOLEAN :
       w' = [BeginTermination(w, w.gen, "close", FALSE, {}, killed) EXCEPT !.closing = "ending"]

CloseEnds ==
  /\ w.closing = "ending"
  /\ ~w.process
  /\ w' = [w EXCEPT !.closing = "closed"]
=============================================================================
