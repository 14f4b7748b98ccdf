---------------------------- MODULE MintPromise ----------------------------
(***************************************************************************)
(* What the minting pipeline promises to the rest of the system, with the  *)
(* tables, the broker, the workers and the network left out.               *)
(*                                                                         *)
(* A goodwill action is requested at most once.  Chain effects are paid    *)
(* for in advance: a durable attempt is reserved before it can mint, so an *)
(* action mints at most MAX_ATTEMPTS times.  A confirmation is reported    *)
(* only for an action that has minted, and a reported confirmation can be  *)
(* withdrawn only for an action that was attempted more than once.         *)
(***************************************************************************)
EXTENDS Integers

CONSTANTS
  Actions,       \* the goodwill actions
  MAX_ATTEMPTS   \* MintingService.MAX_ATTEMPTS

VARIABLES
  requested,     \* actions for which a mint was durably requested
  reserved,      \* attempts reserved for each action
  minted,        \* the reserved attempts that took effect on the chain
  reported       \* actions reported as confirmed

promiseVars == <<requested, reserved, minted, reported>>

PromiseInit ==
  /\ requested = {}
  /\ reserved = [a \in Actions |-> 0]
  /\ minted = [a \in Actions |-> {}]
  /\ reported = {}

Request(a) ==
  /\ a \notin requested
  /\ requested' = requested \union {a}
  /\ UNCHANGED <<reserved, minted, reported>>

\* The attempt marker is durable before the side effect.
Reserve(a) ==
  /\ a \in requested \ reported
  /\ reserved[a] < MAX_ATTEMPTS
  /\ reserved' = [reserved EXCEPT ![a] = @ + 1]
  /\ UNCHANGED <<requested, minted, reported>>

Mint(a, n) ==
  /\ n \in 1 .. reserved[a]
  /\ n \notin minted[a]
  /\ minted' = [minted EXCEPT ![a] = @ \union {n}]
  /\ UNCHANGED <<requested, reserved, reported>>

Report(a) ==
  /\ a \in requested \ reported
  /\ minted[a] # {}
  /\ reported' = reported \union {a}
  /\ UNCHANGED <<requested, reserved, minted>>

\* A late answer to an earlier attempt may overwrite the outcome.
Withdraw(a) ==
  /\ a \in reported
  /\ reserved[a] > 1
  /\ reported' = reported \ {a}
  /\ UNCHANGED <<requested, reserved, minted>>

PromiseNext ==
  \E a \in Actions :
    \/ Request(a)
    \/ Reserve(a)
    \/ \E n \in 1 .. MAX_ATTEMPTS : Mint(a, n)
    \/ Report(a)
    \/ Withdraw(a)

PromiseSpec == PromiseInit /\ [][PromiseNext]_promiseVars
=============================================================================
