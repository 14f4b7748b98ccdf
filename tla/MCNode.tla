------------------------------- MODULE MCNode -------------------------------
(* Instances of Node for TLC.                                              *)
EXTENDS Node, TLC

CONSTANTS master, worker, single, t1, t2

\* A master with a forked worker, as in the image, and a process of its own.
All == {master, worker, single}
Answering == {worker, single}
Parent == master :> master @@ worker :> master @@ single :> single
TwoThreads == {t1, t2}
=============================================================================
