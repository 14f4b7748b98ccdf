----------------------------- MODULE MCMinting -----------------------------
(* Instances of Minting for TLC.                                           *)
EXTENDS Minting

CONSTANTS a1, w1, w2, d1, d2

OneAction == {a1}
OneWorker == {w1}
TwoWorkers == {w1, w2}
OneDispatcher == {d1}
TwoDispatchers == {d1, d2}
=============================================================================
