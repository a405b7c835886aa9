--------------------------- MODULE HelperProperties ---------------------------
(***************************************************************************)
(* What the supervision of the helper promises.                            *)
(***************************************************************************)
EXTENDS HelperClient

\* The client's fields take the values that the code gives them; the failures
\* that are counted stay below the limit that opens the circuit
\* (helper-client-supervision.ts, recordFailure).
HelperTypeOK ==
  /\ {h.desired, h.started, h.child, h.missing, h.authoritative, h.terminating, h.stopFault,
      h.shutDown, h.unclean, h.crashLoop, h.probe, h.want, h.previous, h.blocked, h.applied,
      h.moved, h.asked, native} \subseteq BOOLEAN
  /\ h.channel \in {"open", "draining", "closed"}
  /\ h.sent \in Requesters \cup {"none"} /\ ToSet(h.queue) \subseteq Requesters
  /\ h.dispatched \subseteq Shutdowns
  /\ \A job \in ToSet(h.jobs) : job.who \in Requesters \cup Operations \cup {"reconciler", "stopper"}
  /\ h.launching \in {"none", "validating", "initialize", "snapshot", "off", "activation", "failed"}
  /\ h.health \in {"none", "snapshot", "activation", "off", "fresh"}
  /\ h.termination \in {"none", "asked", "exit", "killed"}
  /\ h.stop \in {"none", "begun", "asked", "exit", "killed"}
  /\ h.reset \in [Resetters -> {"none", "stopping", "starting", "off"}]
  /\ h.timer \in {"none", "delay", "window"} /\ h.failures \in 0 .. FailureLimit - 1
  /\ h.readiness \in Readiness /\ h.seen \in Snapshots
  /\ h.effective \in {"none", "on", "off"}
  /\ h.running \in Operations \cup {"none", "enabling"} /\ ToSet(h.operations) \subseteq Operations
  /\ owner \in {"known", "changed"}

\* Between the operations of the reconciler: a configuration that counts as
\* applied is what the helper has, whatever refresh of the health, answer that
\* came late or change of the intent it was applied among; and a helper that
\* lacks a permission, and is not being ended, has its shortcuts disabled.
NativeFollowsIntent ==
  Idle /\ ~h.terminating /\ h.running = "none" /\ owner = "known" =>
    /\ h.child /\ h.applied => native = (h.want /\ ~h.blocked)
    /\ h.readiness = "permission" => ~native

\* A client that wants a helper has one, is starting or stopping one, or will
\* restart it; it gives up only after a failure that no restart repairs, after
\* the exit of a helper it could not stop, and where the stop of a reset ended
\* uncleanly.  Otherwise what it calls ready runs.
NeverAbandoned ==
  Idle /\ ~h.child /\ h.stop = "none" /\ ~h.unclean =>
    /\ h.desired /\ h.launching = "none" => h.timer # "none" \/ h.readiness \in {"stable", "shutdown"}
    /\ h.readiness # "ready"

\* An open circuit waits out its whole window: neither a failure of the probe
\* nor the loss of its process schedules an ordinary restart; and the failures
\* counted never reach its limit.
CircuitHolds ==
  /\ HelperTypeOK
  /\ h.probe => h.crashLoop
  /\ Idle /\ h.crashLoop /\ ~h.child /\ h.launching = "none" /\ h.stop = "none" /\ ~h.unclean
       => h.timer = "window"

\* A helper that is being ended hears of nothing but its shutdown; and a
\* client that says it has stopped has no process, nor anything that would
\* start one: a launch that was under way spawns nothing.
ShutdownIsLast ==
  /\ h.channel = "draining" => ToSet(h.queue) \subseteq Shutdowns
  /\ h.readiness = "stopped" =>
       ~h.child /\ h.timer = "none" /\ h.launching \in {"none", "validating"} /\ ~h.desired

-----------------------------------------------------------------------------
\* "`ready` means the authenticated transport, owner protocol, hook
\* installation, and message pump are available" (helper-readiness.ts:101).
ReadyMeansRunning == Idle /\ h.readiness = "ready" => h.child \/ h.stop # "none"
=============================================================================
