--------------------------- MODULE HelperChannel ---------------------------
(***************************************************************************)
(* The application's client of its native helper, seen by the JSON-RPC     *)
(* channel (app/src/main/helper/helper-rpc-*.ts): one request is at the    *)
(* helper at a time, the others are queued, and a channel that drains      *)
(* admits the shutdown only.                                               *)
(*                                                                         *)
(* h is the client: the fields of HelperClientRuntime, HelperRpcRuntime    *)
(* and HelperActivationReconciler that the supervision tells apart.  The   *)
(* client is single-threaded.  jobs is its queue of microtasks: a promise  *)
(* that is settled appends the continuation of whoever awaits it, and no   *)
(* event is handled before the queue is empty.                             *)
(*                                                                         *)
(* A request is named after who awaits it, and none awaits two.  The       *)
(* permissions and the ping that make up a snapshot of the helper's health *)
(* are one request.                                                        *)
(***************************************************************************)
EXTENDS Naturals, SequencesExt

\* Those who may ask for a reset of the session capture.
CONSTANT Resetters

\* The chains that end a process: the client's stop, and the termination of a
\* helper that failed.
Shutdowns == {"stop", "termination"}
Requesters == Shutdowns \cup {"launch", "health", "configure"} \cup Resetters

Settle(h, who, how) == [h EXCEPT !.jobs = Append(@, [who |-> who, how |-> how])]
SettleAll(h, whos, how) ==
  [h EXCEPT !.jobs = @ \o [i \in DOMAIN whos |-> [who |-> whos[i], how |-> how]]]

\* The first request goes to the helper if none is there.
PumpWrites(h) ==
  IF h.channel = "closed" \/ h.sent # "none" \/ h.queue = <<>> THEN h
  ELSE [h EXCEPT !.sent = Head(h.queue), !.queue = Tail(@),
                 !.dispatched = @ \cup (Shutdowns \cap {Head(h.queue)})]

Request(h, who) ==
  IF h.channel = "open" THEN PumpWrites([h EXCEPT !.queue = Append(@, who)])
  ELSE Settle(h, who, "not-running")

\* The shutdown overtakes what is queued, and is admitted while it drains.
RequestShutdown(h, who) ==
  IF h.channel = "closed" THEN Settle(h, who, "not-running")
  ELSE PumpWrites([h EXCEPT !.queue = <<who>> \o @])

BeginDraining(h) ==
  IF h.channel # "open" THEN PumpWrites(h)
  ELSE PumpWrites(SettleAll([h EXCEPT !.channel = "draining", !.queue = <<>>],
                            Reverse(h.queue), "not-running"))

Pending(h) == (IF h.sent = "none" THEN <<>> ELSE <<h.sent>>) \o h.queue

\* Closing the channel rejects everything that is pending.
Close(h) ==
  SettleAll([h EXCEPT !.channel = "closed", !.sent = "none", !.queue = <<>>], Pending(h), "transport")

Answered(h, how) == PumpWrites(Settle([h EXCEPT !.sent = "none"], h.sent, how))

\* A malformed answer releases its request and pumps nothing.
Garbled(h) ==
  IF h.sent = "none" THEN h ELSE Settle([h EXCEPT !.sent = "none"], h.sent, "transport")

\* A request before a channel that drains is forgotten when it expires.
IgnoredWhenLate(h, who) == h.channel = "draining" /\ who = h.sent /\ who \notin Shutdowns

Expired(h, who) ==
  Settle(IF who = h.sent THEN [h EXCEPT !.sent = "none"]
         ELSE [h EXCEPT !.queue = RemoveFirst(@, who)], who, "timeout")

\* A shutdown whose predecessor was not answered in time is taken back.
Withdraw(h, who) == [h EXCEPT !.queue = RemoveFirst(@, who)]
=============================================================================
