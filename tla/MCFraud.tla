------------------------------ MODULE MCFraud ------------------------------
(* Instances of Fraud for TLC.                                             *)
EXTENDS Fraud, TLC

CONSTANTS t1, t2, c1, c2

TwoThreads == {t1, t2}
OneAccount == {c1}
TwoAccounts == {c1, c2}

\* More than $50,000 between 2 and 4.
OnlyHigh == {40 + 15}

\* Threads are interchangeable.
Symmetry == Permutations({t1, t2})
=============================================================================
