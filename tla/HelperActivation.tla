-------------------------- MODULE HelperActivation --------------------------
(***************************************************************************)
(* The reconciler of the activation shortcuts                              *)
(* (helper-activation-reconciler.ts): what the application wants, whether  *)
(* its health blocks it, and what the helper has confirmed.  Operations    *)
(* are performed one after the other; each asks again for as long as the   *)
(* revision has moved since it asked.                                      *)
(*                                                                         *)
(* applied: the current session has applied the current revision.  moved:  *)
(* the revision is not the one the operation asked with.  The bindings are *)
(* left out: a configuration is whether they are enabled.                  *)
(***************************************************************************)
EXTENDS HelperChannel

Operations == {"fresh", "session", "intent", "rollback"}

Revise(h) == [h EXCEPT !.applied = FALSE, !.moved = h.running # "none"]

SetBlocked(h, blocked) ==
  IF h.blocked = blocked THEN h ELSE Revise([h EXCEPT !.blocked = blocked])

\* prepareFreshSession, and processUnavailable of the session there is.
Forget(h) == SetBlocked([h EXCEPT !.applied = FALSE, !.effective = "none"], TRUE)

IsSessionCurrent(h) ==
  h.child /\ ~h.terminating /\ h.desired /\ h.stop = "none" /\ h.channel # "closed"
IsSessionAvailable(h) == h.authoritative /\ IsSessionCurrent(h)

Enqueue(h, operation) ==
  LET queued == [h EXCEPT !.operations = Append(@, operation)]
  IN  IF h.operations = <<>> /\ h.running = "none" THEN Settle(queued, "reconciler", "next") ELSE queued

\* Whoever waits for the operation goes on, and then the next one.
Finish(h, how) ==
  LET waiting == IF h.running = "enabling" THEN "fresh" ELSE h.running
      over == Settle([h EXCEPT !.running = "none", !.moved = FALSE, !.asked = FALSE], waiting, how)
  IN  IF h.operations = <<>> THEN over ELSE Settle(over, "reconciler", "next")

Ask(h, enabled) == Request([h EXCEPT !.moved = FALSE, !.asked = enabled], "configure")

Unavailable(h) == [h EXCEPT !.applied = FALSE, !.effective = "none"]
Confirm(h) == [h EXCEPT !.effective = IF h.asked THEN "on" ELSE "off"]
Applied(h) == [h EXCEPT !.applied = TRUE]
Authoritative(h) == [h EXCEPT !.authoritative = h.channel # "closed"]

-----------------------------------------------------------------------------
(* A session that is fresh is disabled before anything else.               *)

Fresh(h, enabled) ==
  IF IsSessionCurrent(h) THEN Ask(h, enabled) ELSE Finish(Unavailable(h), "not-running")

FreshEnable(h) ==
  IF ~IsSessionCurrent(h) THEN Finish(Unavailable(h), "not-running")
  ELSE IF h.blocked \/ ~h.want
  THEN Finish(Authoritative(Applied([h EXCEPT !.effective = "off"])), "ok")
  ELSE Ask(h, TRUE)

FreshDisabled(h) ==
  LET confirmed == Confirm(h)
  IN  IF h.moved THEN Fresh(confirmed, FALSE)
      ELSE IF h.blocked \/ ~h.want THEN Finish(Authoritative(Applied(confirmed)), "ok")
      ELSE FreshEnable([confirmed EXCEPT !.running = "enabling"])

FreshEnabled(h) ==
  LET confirmed == Confirm(h)
  IN  IF h.moved THEN FreshEnable(confirmed) ELSE Finish(Authoritative(Applied(confirmed)), "ok")

-----------------------------------------------------------------------------
(* The other operations, of which the intent puts up with there being no   *)
(* session.                                                                *)

Unreachable(h) ==
  Finish(Unavailable(h), IF h.running \in {"intent", "rollback"} THEN "ok" ELSE "not-running")

\* Mutant of Reconcile: the block that the health imposes is not asked about.
ReconcileUnblocked(h) ==
  IF h.child /\ h.applied THEN Finish(h, "ok")
  ELSE IF ~IsSessionAvailable(h) THEN Unreachable(h)
  ELSE Ask(h, h.want)

Reconcile(h) ==
  IF h.child /\ h.applied THEN Finish(h, "ok")
  ELSE IF ~IsSessionAvailable(h) THEN Unreachable(h)
  ELSE Ask(h, ~h.blocked /\ h.want)

Reconciled(h) ==
  IF ~h.child THEN Unreachable(h)
  ELSE IF h.moved THEN Reconcile(Confirm(h)) ELSE Finish(Applied(Confirm(h)), "ok")

RunNext(h) ==
  LET next == [h EXCEPT !.running = Head(h.operations), !.operations = Tail(@)]
  IN  IF next.running = "fresh" THEN Fresh(next, FALSE) ELSE Reconcile(next)

\* The answer to the request of the operation that is under way.
Configured(h, how) ==
  LET fresh == h.running \in {"fresh", "enabling"}
  IN  IF how = "ok" /\ fresh
      THEN IF ~IsSessionCurrent(h) THEN Finish(Unavailable(h), "not-running")
           ELSE IF h.running = "fresh" THEN FreshDisabled(h) ELSE FreshEnabled(h)
      ELSE IF how = "ok" THEN Reconciled(h)
      ELSE IF how = "not-running" /\ h.running \in {"intent", "rollback"} THEN Unreachable(h)
      ELSE Finish(h, how)

Configuring(h) ==
  {"intent", "rollback"} \cap ({h.running} \cup ToSet(h.operations)) # {}

\* configure, and what it does when it could not be applied.
Configure(h, enabled) ==
  Enqueue(Revise([h EXCEPT !.previous = h.want, !.want = enabled]), "intent")
RollBack(h) == Enqueue(Revise([h EXCEPT !.want = h.previous]), "rollback")
=============================================================================
