------------------------------ MODULE MCRecord -------------------------------
(***************************************************************************)
(* An instance of Record for TLC.  A signed char is -4 .. 3, so that a     *)
(* string of length 4 has length -4 when read back, and one of length 8    *)
(* has length 0.  A page has room for a node with two numbers, with a      *)
(* short string and an edge, or with a long edge, and not for two strings. *)
(***************************************************************************)
EXTENDS Record

OneName    == {<<2>>}
ShortNames == {<<1>>}
EdgeLabels == {<<1>>, <<1, 1, 1, 1, 1, 1, 1, 1>>}

NumberAndStrings ==
  {[type |-> 1, v |-> <<0>>],
   [type |-> string, v |-> <<2, 1>>], [type |-> string, v |-> <<2, 1, 1, 1>>]}
=============================================================================
