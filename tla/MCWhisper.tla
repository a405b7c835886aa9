----------------------------- MODULE MCWhisper -----------------------------
(***************************************************************************)
(* A small instance of the worker's client.                                *)
(***************************************************************************)
EXTENDS WhisperProperties

CONSTANTS t1, t2, v1, m1, session

MCCasts ==
  {{t1, m1, "close", "health"}, {session, "push", m1}, {session, "close"}, {session, t1},
   {v1, t1}, {t1, t2}, {v1, m1}}

MCHolders == Transcribers \cup Verifiers \cup Mutators \cup {Session}
=============================================================================
