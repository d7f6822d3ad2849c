------------------------------ MODULE MCAddem ------------------------------
(***************************************************************************)
(* Instances of Addem for TLC.                                             *)
(***************************************************************************)
EXTENDS Addem

\* Negative, zero, fewer than the threads, not divisible by their number, one whose
\* sum (21) does not fit in an int of 5 bits (INT_MAX = 15), and the one at which
\* the loop of sumthread cannot pass its end.
SomeValues == {-4, 0, 1, 2, 5, 6, 7, INT_MAX}
=============================================================================
