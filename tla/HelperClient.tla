---------------------------- MODULE HelperClient ----------------------------
(***************************************************************************)
(* The supervision of the native helper (app/src/main/helper): launching   *)
(* it, watching its health, terminating and restarting it when it fails,   *)
(* resetting it for the application, and stopping it with the application. *)
(* The helper, its keyboard owner and the clock are the other side.        *)
(*                                                                         *)
(* A reason is kept as what the supervision does about it: Classes.  Times *)
(* are left out: a timer that is armed may fire, and of the failures in    *)
(* the window any that are oldest may have left it.                        *)
(***************************************************************************)
EXTENDS HelperActivation

CONSTANTS FailureLimit,  \* FAILURE_LIMIT
          Printed        \* what the helper may print of its failure: Classes

\* A failure that is retried, one that is not, and an owner that hands over.
Classes == {"transient", "stable", "transition"}

ASSUME FailureLimitAssumption == FailureLimit \in Nat \ {0}
ASSUME PrintedAssumption == Printed \subseteq Classes

\* A resetter is none of the chains that have a name of their own.
ASSUME ResettersAssumption ==
  /\ IsFiniteSet(Resetters)
  /\ Resetters \cap (Shutdowns \cup Operations \cup
       {"launch", "fault", "health", "configure", "reconciler", "stopper", "none"}) = {}

\* What a snapshot of the health says, in the terms of the readiness.  A fault
\* is one of the hook, with the permissions granted.
Snapshots == {"ready", "permission", "fault", "owner"}

Readiness ==
  Snapshots \cup Classes \cup {"stopped", "starting", "shutdown", "crash-loop", "stuck"}

\* native is whether the helper has the shortcuts enabled, and owner whether
\* its keyboard owner is the one the client knows.
VARIABLES h, native, owner

vars == <<h, native, owner>>

NewClient ==
  [desired |-> FALSE, started |-> FALSE, child |-> FALSE, channel |-> "closed", queue |-> <<>>,
   sent |-> "none", dispatched |-> {}, jobs |-> <<>>, launching |-> "none", waits |-> <<>>,
   said |-> "nothing", seen |-> "owner", health |-> "none", missing |-> FALSE,
   authoritative |-> FALSE, terminating |-> FALSE, planned |-> "none", termination |-> "none",
   stop |-> "none", stopFault |-> FALSE, shutDown |-> FALSE, unclean |-> FALSE,
   reset |-> [r \in Resetters |-> "none"], timer |-> "none", failures |-> 0,
   crashLoop |-> FALSE, probe |-> FALSE, readiness |-> "stopped",
   want |-> FALSE, previous |-> FALSE, blocked |-> TRUE, applied |-> FALSE,
   effective |-> "none", moved |-> FALSE, asked |-> FALSE, running |-> "none", operations |-> <<>>]

Publish(c, readiness) == [c EXCEPT !.readiness = readiness]

IsActiveChild(c) == c.desired /\ c.child
HealthSessionIsActive(c) == IsActiveChild(c) /\ c.stop = "none" /\ c.channel # "closed"
OrdinaryRequestsAvailable(c) ==
  c.authoritative /\ ~c.terminating /\ c.desired /\ c.stop = "none"

ResettersIn(c, stage) == SetToSeq({r \in Resetters : c.reset[r] = stage})

-----------------------------------------------------------------------------
(* Failures and restarts                                                   *)

OpenCrashLoop(c) ==
  [Publish(c, "crash-loop") EXCEPT !.failures = 0, !.crashLoop = TRUE, !.probe = FALSE, !.timer = "window"]

CloseCircuit(c) == [c EXCEPT !.failures = 0, !.crashLoop = FALSE, !.probe = FALSE]

\* Mutant of RecordFailure: a probe that fails counts as one failure.
RecordFailureOfProbe(c, why, kept) ==
  IF why = "transition" THEN [Publish(CloseCircuit(c), why) EXCEPT !.timer = "delay"]
  ELSE IF why # "transient" THEN [Publish(CloseCircuit(c), why) EXCEPT !.timer = "none"]
  ELSE IF kept + 1 >= FailureLimit THEN OpenCrashLoop(c)
  ELSE [Publish(c, why) EXCEPT !.failures = kept + 1, !.timer = "delay"]

\* Mutant of RecordFailure: an owner that hands over is not waited for.
RecordFailureOfHandover(c, why, kept) ==
  IF why # "transient" THEN [Publish(CloseCircuit(c), why) EXCEPT !.timer = "none"]
  ELSE IF c.probe \/ kept + 1 >= FailureLimit THEN OpenCrashLoop(c)
  ELSE [Publish(c, why) EXCEPT !.failures = kept + 1, !.timer = "delay"]

\* kept is how many of the failures before this one are still in the window.
RecordFailure(c, why, kept) ==
  IF why = "transition" THEN [Publish(CloseCircuit(c), why) EXCEPT !.timer = "delay"]
  ELSE IF why # "transient" THEN [Publish(CloseCircuit(c), why) EXCEPT !.timer = "none"]
  ELSE IF c.probe \/ kept + 1 >= FailureLimit THEN OpenCrashLoop(c)
  ELSE [Publish(c, why) EXCEPT !.failures = kept + 1, !.timer = "delay"]

\* What the helper printed before it failed explains the failure.
Explained(c, why) == IF c.said = "nothing" THEN why ELSE c.said

TerminateCurrent(c, why) ==
  IF ~c.child \/ c.terminating THEN c
  ELSE LET marked == [c EXCEPT !.terminating = TRUE, !.planned = IF @ = "none" THEN why ELSE @,
                               !.termination = "asked", !.dispatched = @ \ {"termination"}]
       IN  RequestShutdown(BeginDraining(Publish(Forget(marked), why)), "termination")

\* A launch coordinates the fault with what the helper prints; a stop ignores
\* all of them but the malformed answer.
HandleFault(c, why) ==
  IF ~c.child THEN c
  ELSE IF c.launching # "none" /\ c.stop = "none"
  THEN IF \E i \in DOMAIN c.waits : c.waits[i].who = "fault" THEN c
       ELSE [c EXCEPT !.waits = Append(@, [who |-> "fault", why |-> why])]
  ELSE IF c.stop = "none" THEN TerminateCurrent(c, Explained(c, why))
  ELSE IF why = "stable" THEN BeginDraining(Publish([c EXCEPT !.stopFault = TRUE], why))
  ELSE c

-----------------------------------------------------------------------------
(* Launching                                                               *)

Launch(c) ==
  [Publish(c, "starting") EXCEPT !.launching = "validating", !.probe = @ \/ c.crashLoop,
                                 !.unclean = FALSE]

\* Whoever started the helper, or waits for its start, goes on.
EndLaunch(c) ==
  SettleAll([c EXCEPT !.launching = "none", !.seen = "owner"], ResettersIn(c, "starting"), "launched")

Spawn(c) ==
  LET spawned == [c EXCEPT !.planned = "none", !.terminating = FALSE, !.child = TRUE, !.channel = "open",
                           !.authoritative = FALSE, !.said = "nothing", !.launching = "initialize"]
  IN  Request(Forget(spawned), "launch")

\* An error of an answer has its class; a deadline is transient, and a request
\* that could not be made or answered is taken for a malformed stream.
Classified(how) ==
  IF how \in Classes THEN how ELSE IF how = "timeout" THEN "transient" ELSE "stable"

LaunchFails(c, why) ==
  IF ~c.child THEN EndLaunch(c)
  ELSE [c EXCEPT !.launching = "failed", !.waits = Append(@, [who |-> "launch", why |-> why])]

LaunchAsks(c, step) == Request([c EXCEPT !.launching = step], "launch")

LaunchReconciled(c) ==
  LET settled == IF c.probe THEN CloseCircuit(c) ELSE c
  IN  IF ~IsActiveChild(c) THEN EndLaunch(c) ELSE EndLaunch(Publish(settled, c.seen))

LaunchContinues(c, how) ==
  CASE how = "ok" /\ c.launching = "initialize" ->
         IF IsActiveChild(c) THEN LaunchAsks(SetBlocked(c, TRUE), "snapshot") ELSE EndLaunch(c)
    [] how \in Snapshots -> LaunchAsks([c EXCEPT !.seen = how], "off")
    [] how = "ok" /\ c.launching = "off" ->
         Enqueue([IF c.seen = "ready" THEN SetBlocked(c, FALSE) ELSE c EXCEPT !.launching = "activation"],
                 "fresh")
    [] how = "ok" /\ c.launching = "activation" -> LaunchReconciled(c)
    [] OTHER -> LaunchFails(c, Classified(how))

\* The handler of a fault, or of a launch that failed, has waited for stderr.
StderrDrained(c) ==
  LET first == Head(c.waits)
      over == [c EXCEPT !.waits = Tail(@)]
      ended == TerminateCurrent(over, Explained(c, first.why))
  IN  IF first.who = "fault" THEN ended
      ELSE EndLaunch(IF IsActiveChild(c) THEN ended ELSE over)

-----------------------------------------------------------------------------
(* The health of a helper that runs                                        *)

RefreshHealth(c) == Request([c EXCEPT !.health = "snapshot", !.authoritative = FALSE], "health")

HealthOver(c) == [c EXCEPT !.health = "none", !.seen = "owner"]

\* The heartbeat's handler of a refresh that was rejected.
HealthFails(c, how) ==
  IF ~IsActiveChild(c) \/ c.stop # "none" THEN HealthOver(c)
  ELSE IF how = "transition" THEN Publish(HealthOver(c), how)
  ELSE TerminateCurrent(HealthOver(c), Classified(how))

\* A refresh that fails behind the snapshot recycles the helper.
HealthRecycles(c, how) ==
  IF HealthSessionIsActive(c) THEN HealthFails(TerminateCurrent(c, "transient"), how) ELSE HealthOver(c)

HealthSame(c, seen) ==
  LET known == SetBlocked([c EXCEPT !.missing = FALSE, !.authoritative = TRUE, !.seen = seen], seen # "ready")
  IN  IF seen = "owner" THEN HealthOver(Publish([known EXCEPT !.authoritative = FALSE], seen))
      ELSE Enqueue([known EXCEPT !.health = "activation"], "session")

\* Another owner answers in the same helper: it starts afresh.
AdoptOwner(c, seen) ==
  LET fresh == Forget(Publish([c EXCEPT !.missing = FALSE, !.authoritative = FALSE, !.seen = seen], "starting"))
  IN  Request([SetBlocked(fresh, seen # "ready") EXCEPT !.health = "off"], "health")

\* The owner is gone: once it is waited for, then the helper is replaced.
OwnerMissing(c) ==
  LET lost == Publish(Forget([c EXCEPT !.authoritative = FALSE, !.missing = ~@]), "transient")
  IN  HealthOver(IF c.missing THEN TerminateCurrent(lost, "transient") ELSE lost)

OwnerDenied(c) ==
  HealthOver(TerminateCurrent(Publish(Forget([c EXCEPT !.authoritative = FALSE]), "stable"), "stable"))

OwnerReplaced(c) == HealthOver(TerminateCurrent([c EXCEPT !.missing = FALSE], "transient"))

HealthPublishes(c) ==
  LET published == HealthOver(Publish(c, c.seen))
  IN  IF ~HealthSessionIsActive(c) THEN HealthOver(c)
      ELSE IF c.health = "activation" /\ c.seen = "fault" THEN TerminateCurrent(published, "transient")
      ELSE published

\* changed: the snapshot is of an owner the client does not know.
HealthSnapshot(c, how, changed) ==
  IF ~HealthSessionIsActive(c) THEN HealthOver(c)
  ELSE CASE how = "missing" -> OwnerMissing(c)
         [] how = "denied" -> OwnerDenied(c)
         [] how = "replaced" -> OwnerReplaced(c)
         [] OTHER -> IF changed THEN AdoptOwner(c, how) ELSE HealthSame(c, how)

HealthContinues(c, how, changed) ==
  IF c.health = "snapshot"
  THEN IF how \in Snapshots \cup {"missing", "denied", "replaced"} THEN HealthSnapshot(c, how, changed)
       ELSE HealthFails(c, how)
  ELSE IF how # "ok" THEN HealthRecycles(c, how)
  ELSE IF c.health = "off" THEN Enqueue([c EXCEPT !.health = "fresh"], "fresh")
  ELSE HealthPublishes(c)

-----------------------------------------------------------------------------
(* Stopping                                                                *)

StopCurrentProcess(c) ==
  IF c.stop # "none" THEN c
  ELSE Settle([BeginDraining([c EXCEPT !.stopFault = FALSE]) EXCEPT !.stop = "begun"], "stopper", "begin")

\* The operation has ended, and those who wait for it go on.
EndStop(c, clean) ==
  LET over == [c EXCEPT !.stop = "none", !.stopFault = FALSE, !.shutDown = FALSE, !.dispatched = @ \ {"stop"},
                        !.unclean = @ \/ ~clean]
      told == IF clean /\ ~c.desired THEN Publish(over, "stopped") ELSE over
  IN  SettleAll(told, ResettersIn(c, "stopping"), IF clean THEN "stopped" ELSE "unclean")

PerformStop(c) ==
  LET begun == [c EXCEPT !.timer = "none", !.planned = "shutdown", !.terminating = TRUE, !.shutDown = FALSE,
                         !.dispatched = @ \ {"stop"}]
  IN  IF ~c.child THEN EndStop([c EXCEPT !.timer = "none"], TRUE)
      ELSE IF c.channel = "closed" THEN [begun EXCEPT !.stop = "exit"]
      ELSE RequestShutdown([begun EXCEPT !.stop = "asked"], "stop")

\* Mutant of StopAnswered: a shutdown that is acknowledged is over.
StopAnsweredIsOver(c, how) ==
  IF "stop" \notin c.dispatched THEN c ELSE EndStop(c, how = "ok")

\* The outcome of a stop's request, before or after it was at the helper.
StopAnswered(c, how) ==
  IF "stop" \notin c.dispatched THEN c
  ELSE IF ~c.child THEN EndStop(c, FALSE)
  ELSE [c EXCEPT !.stop = "exit", !.shutDown = how = "ok"]

StopExited(c, how) == EndStop(c, c.shutDown /\ how = "clean" /\ ~c.stopFault)

TerminationAnswered(c) ==
  IF "termination" \notin c.dispatched \/ c.termination = "none" THEN c ELSE [c EXCEPT !.termination = "exit"]

-----------------------------------------------------------------------------
(* Resetting the session capture: the helper is replaced                   *)

ResetAt(c, r, stage) == [c EXCEPT !.reset[r] = stage]

\* A reset that fails when the application no longer wants a helper stops it.
ResetFails(c, r) ==
  LET over == ResetAt(c, r, "none") IN IF c.desired THEN over ELSE StopCurrentProcess(over)

StartForIntent(c) == IF c.launching = "none" /\ c.desired /\ ~c.child THEN Launch(c) ELSE c

ResetStopped(c, r) ==
  IF ~c.desired \/ c.child THEN ResetFails(c, r)
  ELSE LET started == StartForIntent(ResetAt(c, r, "starting"))
       IN  IF started.launching = "none" THEN Settle(started, r, "launched") ELSE started

ResetLaunched(c, r) ==
  IF ~c.desired \/ c.readiness # "ready" \/ ~OrdinaryRequestsAvailable(c) THEN ResetFails(c, r)
  ELSE Request(ResetAt(c, r, "off"), r)

ResetContinues(c, r, how) ==
  CASE c.reset[r] = "stopping" -> IF how = "stopped" THEN ResetStopped(c, r) ELSE ResetFails(c, r)
    [] c.reset[r] = "starting" -> ResetLaunched(c, r)
    [] OTHER -> IF how = "ok" /\ c.desired THEN ResetAt(c, r, "none") ELSE ResetFails(c, r)

-----------------------------------------------------------------------------
(* The continuations                                                       *)

Continue(c, job, changed) ==
  CASE job.who = "launch" -> LaunchContinues(c, job.how)
    [] job.who = "health" -> HealthContinues(c, job.how, changed)
    [] job.who = "configure" -> Configured(c, job.how)
    [] job.who = "reconciler" -> RunNext(c)
    [] job.who = "fresh" ->
         IF c.launching = "activation" THEN LaunchContinues(c, job.how) ELSE HealthContinues(c, job.how, changed)
    [] job.who = "session" -> HealthContinues(c, job.how, changed)
    [] job.who = "intent" -> IF job.how = "ok" THEN [c EXCEPT !.previous = FALSE] ELSE RollBack(c)
    [] job.who = "rollback" -> [c EXCEPT !.previous = FALSE]
    [] job.who = "stopper" -> IF c.stop = "begun" THEN PerformStop(c) ELSE StopExited(c, job.how)
    [] job.who = "stop" -> StopAnswered(c, job.how)
    [] job.who = "termination" -> TerminationAnswered(c)
    [] OTHER -> ResetContinues(c, job.who, job.how)

\* The owner an answer told of is the one the client knows from then on.
Microtask ==
  /\ h.jobs # <<>>
  /\ h' = Continue([h EXCEPT !.jobs = Tail(@)], Head(h.jobs), owner = "changed")
  /\ owner' = IF h'.health = "off" /\ h.health = "snapshot" THEN "known" ELSE owner
  /\ UNCHANGED native

\* Every other action is an event of its own.
Idle == h.jobs = <<>>

Happens(c) == Idle /\ h' = c

-----------------------------------------------------------------------------
(* The application                                                         *)

\* The application starts its helper once.
Start ==
  /\ ~h.started
  /\ Happens(Launch([h EXCEPT !.started = TRUE, !.desired = TRUE, !.timer = "none"]))
  /\ UNCHANGED <<native, owner>>

Stop ==
  /\ h.desired
  /\ Happens(StopCurrentProcess([CloseCircuit(h) EXCEPT !.desired = FALSE]))
  /\ UNCHANGED <<native, owner>>

\* After the system woke, or when the helper refused to turn its capture off.
ResetSessionCapture(r) ==
  /\ h.reset[r] = "none" /\ h.desired
  /\ (h.readiness = "ready" \/ (h.child /\ h.launching = "none"))
  /\ Happens(StopCurrentProcess(ResetAt(h, r, "stopping")))
  /\ UNCHANGED <<native, owner>>

\* The coordinator configures one at a time, where the helper is ready.
ConfigureActivation(enabled) ==
  /\ h.readiness = "ready" /\ ~Configuring(h)
  /\ Happens(Configure(h, enabled))
  /\ UNCHANGED <<native, owner>>

-----------------------------------------------------------------------------
(* Timers                                                                  *)

\* Of the failures, kept are within the window.
Validated(fails, kept) ==
  /\ h.launching = "validating" /\ kept \in 0 .. h.failures
  /\ Happens(IF ~h.desired THEN EndLaunch(h)
             ELSE IF fails = "no" THEN Spawn(h)
             ELSE IF fails = "spawn" \/ h.probe THEN EndLaunch(RecordFailure(h, "transient", kept))
             ELSE EndLaunch(Publish(h, "stable")))
  /\ owner' = IF h'.child THEN "known" ELSE owner
  /\ native' = IF h'.child THEN FALSE ELSE native

Drained == h.waits # <<>> /\ Happens(StderrDrained(h)) /\ UNCHANGED <<native, owner>>

RestartTimerFires ==
  /\ h.timer # "none"
  /\ Happens(StartForIntent([h EXCEPT !.timer = "none"]))
  /\ UNCHANGED <<native, owner>>

Heartbeat ==
  /\ h.child /\ h.launching = "none" /\ ~h.terminating /\ h.stop = "none" /\ h.health = "none"
  /\ Happens(RefreshHealth(h))
  /\ UNCHANGED <<native, owner>>

\* A request expires in the queue or at the helper, which may have heard it or
\* not.  A shutdown's time begins when it is there.
Expire(who) ==
  /\ who = h.sent \/ who \in ToSet(h.queue) \ Shutdowns
  /\ Happens(IF IgnoredWhenLate(h, who) THEN PumpWrites(Expired(h, who))
             ELSE HandleFault(Expired(h, who), "transient"))
  /\ native' \in IF who = "configure" /\ who = h.sent THEN {native, h.asked} ELSE {native}
  /\ UNCHANGED owner

\* The request before the shutdown was not answered in time.
PredecessorTimesOut(who) ==
  /\ h[who] = "asked" /\ who \notin h.dispatched
  /\ Happens(LET withdrawn == Withdraw(h, who)
             IN  IF who = "termination" THEN [Close(withdrawn) EXCEPT !.termination = "killed"]
                 ELSE IF ~h.child THEN EndStop(withdrawn, FALSE)
                 ELSE [Forget(Close(withdrawn)) EXCEPT !.stop = "killed"])
  /\ UNCHANGED <<native, owner>>

\* It has not exited: it is killed, and then given up.
ExitTimesOut(who) ==
  /\ h[who] = "exit"
  /\ Happens([IF who = "stop" THEN Forget(Close(h)) ELSE Close(h) EXCEPT ![who] = "killed"])
  /\ UNCHANGED <<native, owner>>

KillTimesOut(who) ==
  /\ h[who] = "killed"
  /\ Happens(IF who = "stop" THEN EndStop(h, FALSE) ELSE [Publish(h, "stuck") EXCEPT !.termination = "none"])
  /\ UNCHANGED <<native, owner>>

-----------------------------------------------------------------------------
(* The helper                                                              *)

\* What it may answer to the request that is there.
Answers ==
  IF h.sent \in {"launch", "health"} /\ "snapshot" \in {h.launching, h.health}
  THEN IF owner = "known" THEN Snapshots \cup Classes
       ELSE IF h.sent = "launch" THEN Classes
       ELSE Snapshots \cup {"missing", "denied", "replaced"} \cup Classes
  ELSE {"ok"} \cup Classes

Answer(how) ==
  /\ h.sent # "none" /\ how \in Answers
  /\ Happens(Answered(h, how))
  /\ native' = IF h.sent = "configure" /\ how = "ok" THEN h.asked ELSE native
  /\ UNCHANGED owner

\* A frame that is malformed, or answers nothing that was asked.
Garble(answers) ==
  /\ h.channel # "closed"
  /\ Happens(HandleFault(IF answers THEN Garbled(h) ELSE h, "stable"))
  /\ UNCHANGED <<native, owner>>

TransportFails ==
  /\ h.channel # "closed"
  /\ Happens(HandleFault(h, "transient"))
  /\ UNCHANGED <<native, owner>>

SpawnFails ==
  /\ h.launching = "initialize"
  /\ Happens(TerminateCurrent(h, "transient"))
  /\ UNCHANGED <<native, owner>>

Prints(why) ==
  /\ h.child /\ h.launching # "none" /\ h.said = "nothing"
  /\ Happens([h EXCEPT !.said = why])
  /\ UNCHANGED <<native, owner>>

\* The owner behind the helper is another one, which has nothing enabled.
OwnerRestarts ==
  /\ h.child /\ h.launching # "initialize" /\ owner = "known"
  /\ owner' = "changed" /\ native' = FALSE
  /\ Happens(h)

\* handleClose: the process is gone, and its pipes are closed.
Exit(how, kept) ==
  /\ h.child /\ kept \in 0 .. h.failures
  /\ Happens(
       LET closed == [Forget(Close(h)) EXCEPT !.child = FALSE, !.authoritative = FALSE, !.terminating = FALSE,
                                              !.planned = "none", !.termination = "none", !.waits = <<>>,
                                              !.said = "nothing", !.dispatched = @ \ {"termination"}]
           launch == IF \E i \in DOMAIN h.waits : h.waits[i].who = "launch" THEN EndLaunch(closed) ELSE closed
           gone == IF h.stop \in {"exit", "killed"} THEN Settle(launch, "stopper", how) ELSE launch
           why == Explained(h, IF h.planned = "none" THEN "transient" ELSE h.planned)
       IN  IF ~h.desired \/ h.stop # "none" THEN gone ELSE RecordFailure(gone, why, kept))
  /\ native' = FALSE /\ owner' = "known"

-----------------------------------------------------------------------------
Init == h = NewClient /\ native = FALSE /\ owner = "known"

TimerFires ==
  \/ Validated("no", 0)
  \/ Drained
  \/ RestartTimerFires
  \/ Heartbeat
  \/ \E who \in Requesters : Expire(who)
  \/ \E who \in Shutdowns : PredecessorTimesOut(who) \/ ExitTimesOut(who) \/ KillTimesOut(who)

HelperFails ==
  \/ \E fails \in {"spawn", "binary"}, kept \in 0 .. FailureLimit : Validated(fails, kept)
  \/ \E answers \in BOOLEAN : Garble(answers)
  \/ TransportFails
  \/ SpawnFails
  \/ \E why \in Printed : Prints(why)
  \/ OwnerRestarts
  \/ \E how \in {"clean", "unclean"}, kept \in 0 .. FailureLimit : Exit(how, kept)

Application ==
  \/ Start
  \/ Stop
  \/ \E r \in Resetters : ResetSessionCapture(r)
  \/ \E enabled \in BOOLEAN : ConfigureActivation(enabled)

Next ==
  \/ Microtask
  \/ Application
  \/ TimerFires
  \/ \E how \in {"ok", "missing", "denied", "replaced"} \cup Snapshots \cup Classes : Answer(how)
  \/ HelperFails

Spec == Init /\ [][Next]_vars
=============================================================================
