-------------------------------- MODULE Sums --------------------------------
(* The sum of a function's values over a finite set.                       *)
EXTENDS Integers, FiniteSetsExt

SumOver(f, S) == MapThenSumSet(LAMBDA x : f[x], S)
=============================================================================
