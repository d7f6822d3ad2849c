--------------------------- MODULE MCProcessInfo ---------------------------
(***************************************************************************)
(* Instances of ProcessInfo for TLC.                                       *)
(***************************************************************************)
EXTENDS ProcessInfo

\* What a list head may read as: one negative time, which is converted to a number
\* larger than the time of every task, and one between the times of two tasks.  A time
\* of 0 takes part in no comparison that succeeds.
SomeHeadTimes == {-3, 5}
=============================================================================
