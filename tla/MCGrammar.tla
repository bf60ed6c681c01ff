------------------------------ MODULE MCGrammar ------------------------------
(***************************************************************************)
(* An instance of Grammar for TLC.                                         *)
(***************************************************************************)
EXTENDS Grammar

CONSTANT n1

Number(negative, whole, tenths, exponent) ==
  [kind |-> "number", negative |-> negative, whole |-> whole, tenths |-> tenths,
   exponent |-> exponent]

(* 0, -0.0, 3, -3, 5 (more than an int), -4 (the least int), 2.5e1, 1e1,   *)
(* -2.5, the fractions 3.5 (a float), 2.1, 4.5 (the middle of two floats)  *)
(* and 9.5 (beyond the significand), and others.                           *)
StoredScalars ==
  {Number(FALSE, 0, 0, FALSE), Number(TRUE, 0, 0, TRUE),
   Number(FALSE, 3, 0, FALSE), Number(TRUE, 3, 0, FALSE), Number(FALSE, 5, 0, FALSE),
   Number(TRUE, 4, 0, FALSE),
   Number(TRUE, 2, 5, FALSE), Number(FALSE, 2, 5, TRUE), Number(FALSE, 1, 0, TRUE),
   Number(FALSE, 3, 5, FALSE), Number(FALSE, 2, 1, FALSE), Number(FALSE, 4, 5, FALSE),
   Number(FALSE, 9, 5, FALSE),
   [kind |-> "word", word |-> n1], [kind |-> "truth", truth |-> 1]}

ComparedScalars == {Number(TRUE, 3, 0, FALSE), [kind |-> "word", word |-> n1]}
=============================================================================
