------------------------------ MODULE MCImmune ------------------------------
(* Instances of Immune for TLC.                                            *)
EXTENDS Immune, TLC

CONSTANTS t1, t2, k1, a1, a2

TwoThreads == {t1, t2}

\* One client, from two addresses.
OneKey == {[user |-> None, key |-> k1, address |-> a1], [user |-> None, key |-> k1, address |-> a2]}

Symmetry == Permutations(TwoThreads)
=============================================================================
