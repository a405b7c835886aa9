------------------------------- MODULE MCKey -------------------------------
(***************************************************************************)
(* A small keyboard for TLC: two letters, and an alt key on either side of *)
(* which the right one may be AltGr.  The shortcut alt+a is a prefix of    *)
(* alt+a+b, so that an exact match waits for its release, and the second   *)
(* configuration binds alt+b alone, an exact match on the first key.       *)
(***************************************************************************)
EXTENDS KeyProperties

CONSTANTS a, b, leftAlt, rightAlt

MCKindOf == (leftAlt :> "alt") @@ (rightAlt :> "alt")
Shortcut(keys) == [modifiers |-> {"alt"}, keys |-> keys]
MCConfigurations ==
  << [enabled |-> TRUE, bindings |-> {Shortcut(<<a>>), Shortcut(<<a, b>>)}],
     [enabled |-> TRUE, bindings |-> {Shortcut(<<b>>)}] >>
MCLetters == {a, b}
MCSides == {leftAlt, rightAlt}
=============================================================================
