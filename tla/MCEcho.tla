------------------------------- MODULE MCEcho -------------------------------
(***************************************************************************)
(* Small instances of the dictation session: what may happen in one is one *)
(* of a few plans.                                                         *)
(***************************************************************************)
EXTENDS EchoLiveness

Plan(happens, sessions, presses, failures) ==
  [happens |-> happens, sessions |-> sessions, presses |-> presses, faults |-> failures]

MCPlans ==
  {\* An answer about an earlier capture in a later session.
   Plan({"complete", "answer"}, 2, 2, 1),
   \* A microphone that opens, or stops, when its session is over.
   Plan({"complete", "stop", "microphone"}, 2, 2, 1),
   \* A helper lost in any phase, beside a second press.
   Plan({"complete", "helper"}, 1, 2, 1),
   Plan({"complete", "capacity"}, 1, 2, 1),
   \* A session held for longer, and what fails in one.
   Plan({"down", "smart"}, 1, 1, 0),
   Plan({"down", "stop", "microphone", "model", "stream"}, 1, 1, 1),
   Plan({"complete", "smart", "shutdown", "widget", "inference", "sync"}, 1, 1, 1)}

LivePlans ==
  {Plan({"complete", "stop", "answer"}, 1, 1, 1), Plan({"complete", "helper"}, 1, 1, 1),
   Plan({"complete", "smart", "shutdown"}, 1, 1, 0), Plan({"complete", "capacity"}, 1, 1, 1)}
=============================================================================
