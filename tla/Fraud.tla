------------------------------- MODULE Fraud -------------------------------
(***************************************************************************)
(* Fraud velocity, anomaly score and account freeze:                       *)
(* peoples_coin/banking_plugin/fraud.py, driven by /banking/fraud-score in *)
(* banking_plugin/routes.py.                                               *)
(*                                                                         *)
(* The state is in the security database that every process shares.  A     *)
(* step is one of its transactions: the write lock, or the lock on the     *)
(* account's row, is held from the first read to the commit.  One request  *)
(* is four or five of them, and the time its velocity check works with was *)
(* read before the first began.  How long that transaction may wait for    *)
(* the lock depends on the database: SQLite gives up after 30 seconds,     *)
(* PostgreSQL waits on.                                                    *)
(***************************************************************************)
EXTENDS Sums

CONSTANTS
  Threads,             \* threads serving /banking/fraud-score
  Accounts,
  MAX_TX_PER_MINUTE,   \* FraudEngine.max_tx_per_minute
  WINDOW,              \* the velocity window, 60 seconds
  ANOMALY_THRESHOLD,   \* FraudEngine.anomaly_threshold
  FREQUENT,            \* more recent events than this are "high frequency"
  RiskScores,          \* what the amount and the hour of a request add up to
  Operated,            \* accounts operators may freeze by hand
  MAX_WAIT,            \* how long a velocity check may have waited when it commits
  MaxTime              \* bound on the clock

\* What a request risks by its amount and hour does not alone freeze its account.
ASSUME FraudAssumption ==
  /\ {MAX_TX_PER_MINUTE, WINDOW, ANOMALY_THRESHOLD, FREQUENT, MAX_WAIT, MaxTime} \subseteq Nat
  /\ RiskScores \subseteq 0 .. 70
  /\ \A risk \in RiskScores : risk < ANOMALY_THRESHOLD
  /\ "no account" \notin Accounts

VARIABLES
  clock,
  frozen_reason,       \* banking_fraud_accounts: "none" if not frozen
  events,              \* banking_fraud_events: how many, by account and occurred_at
  pc, account, score,  \* a request being assessed
  since,               \* since when it waits for its first transaction
  admitted             \* history: the events ever recorded

requestVars == <<pc, account, score, since>>
vars == <<clock, frozen_reason, events, requestVars, admitted>>

NoAccount == "no account"

Times == 0 .. MaxTime
Reasons == {"none", "velocity", "anomaly", "operator"}

TypeOK ==
  /\ clock \in Times
  /\ frozen_reason \in [Accounts -> Reasons]
  /\ events \in [Accounts -> [Times -> 0 .. MAX_TX_PER_MINUTE]]
  /\ pc \in [Threads -> {"idle", "velocity", "frequency", "frozen", "freeze", "audit"}]
  /\ account \in [Threads -> Accounts \union {NoAccount}]
  /\ \A t \in Threads : pc[t] # "idle" => account[t] \in Accounts
  /\ since \in [Threads -> Times]
  /\ score \in [Threads -> 0 .. 100]
  /\ admitted \in [Accounts -> [Times -> Nat]]

Init ==
  /\ clock = 0
  /\ frozen_reason = [a \in Accounts |-> "none"]
  /\ events = [a \in Accounts |-> [n \in Times |-> 0]]
  /\ pc = [t \in Threads |-> "idle"]
  /\ account = [t \in Threads |-> NoAccount]
  /\ since = [t \in Threads |-> 0]
  /\ score = [t \in Threads |-> 0]
  /\ admitted = [a \in Accounts |-> [n \in Times |-> 0]]

Tick ==
  /\ clock < MaxTime
  /\ clock' = clock + 1
  /\ UNCHANGED <<frozen_reason, events, requestVars, admitted>>

\* How many of f's events happened after m and not after n, in the window that
\* ends at n, and after a cutoff.
Between(f, m, n) == SumOver(f, {k \in Times : m < k /\ k <= n})
InWindow(f, n) == Between(f, n - WINDOW, n)
After(f, cutoff) == SumOver(f, {k \in Times : k > cutoff})

-----------------------------------------------------------------------------
(* record_activity_and_check_velocity                                      *)

\* A request that passed the route's validation.
Arrive(t, a, risk) ==
  /\ pc[t] = "idle"
  /\ pc' = [pc EXCEPT ![t] = "velocity"]
  /\ account' = [account EXCEPT ![t] = a]
  /\ since' = [since EXCEPT ![t] = clock]
  /\ score' = [score EXCEPT ![t] = risk]
  /\ UNCHANGED <<clock, frozen_reason, events, admitted>>

\* velocity_ok only matters to the answer: a request that fails the check is
\* assessed all the same.
Checked(t) ==
  /\ pc' = [pc EXCEPT ![t] = "frequency"]
  /\ since' = [since EXCEPT ![t] = 0]
  /\ UNCHANGED <<clock, account, score>>

VelocityFrozen(t) ==
  /\ pc[t] = "velocity"
  /\ frozen_reason[account[t]] # "none"
  /\ Checked(t)
  /\ UNCHANGED <<frozen_reason, events, admitted>>

\* Faulty variant: a second too much is deleted.
CleanedTooMuch(now) ==
  [a \in Accounts |-> [n \in Times |-> IF n <= now - WINDOW + 1 THEN 0 ELSE events[a][n]]]

\* The old events of every account are deleted.
Cleaned(now) ==
  [a \in Accounts |-> [n \in Times |-> IF n <= now - WINDOW THEN 0 ELSE events[a][n]]]

\* The times a check that commits now may have read before it waited.
Nows(t) == {now \in since[t] .. clock : clock - now <= MAX_WAIT}

Recent(t, now) == After(Cleaned(now)[account[t]], now - WINDOW)

VelocityExceeded(t, now) ==
  /\ pc[t] = "velocity"
  /\ frozen_reason[account[t]] = "none"
  /\ Recent(t, now) >= MAX_TX_PER_MINUTE
  /\ events' = Cleaned(now)
  /\ frozen_reason' = [frozen_reason EXCEPT ![account[t]] = "velocity"]
  /\ Checked(t)
  /\ UNCHANGED admitted

\* Faulty variant: the limit is compared after the insertion.
VelocityAcceptedLate(t, now) ==
  /\ pc[t] = "velocity"
  /\ frozen_reason[account[t]] = "none"
  /\ Recent(t, now) <= MAX_TX_PER_MINUTE
  /\ events' = [Cleaned(now) EXCEPT ![account[t]][now] = @ + 1]
  /\ admitted' = [admitted EXCEPT ![account[t]][now] = @ + 1]
  /\ Checked(t)
  /\ UNCHANGED frozen_reason

VelocityAccepted(t, now) ==
  /\ pc[t] = "velocity"
  /\ frozen_reason[account[t]] = "none"
  /\ Recent(t, now) < MAX_TX_PER_MINUTE
  /\ events' = [Cleaned(now) EXCEPT ![account[t]][now] = @ + 1]
  /\ admitted' = [admitted EXCEPT ![account[t]][now] = @ + 1]
  /\ Checked(t)
  /\ UNCHANGED frozen_reason

-----------------------------------------------------------------------------
(* calculate_anomaly_score, the audit entry and the answer                 *)

\* Faulty variant: the events are counted from the beginning of time.
ReadFrequencyOfAll(t) ==
  /\ pc[t] = "frequency"
  /\ LET frequent == After(admitted[account[t]], -1) > FREQUENT
     IN  score' = [score EXCEPT ![t] = @ + (IF frequent THEN 30 ELSE 0)]
  /\ pc' = [pc EXCEPT ![t] = "frozen"]
  /\ UNCHANGED <<clock, frozen_reason, events, account, since, admitted>>

\* velocity_count, in a transaction of its own.
ReadFrequency(t) ==
  /\ pc[t] = "frequency"
  /\ LET frequent == After(events[account[t]], clock - WINDOW) > FREQUENT
     IN  score' = [score EXCEPT ![t] = @ + (IF frequent THEN 30 ELSE 0)]
  /\ pc' = [pc EXCEPT ![t] = "frozen"]
  /\ UNCHANGED <<clock, frozen_reason, events, account, since, admitted>>

\* is_frozen, in another; then the recommendation.
ReadFrozen(t) ==
  /\ pc[t] = "frozen"
  /\ LET total == IF frozen_reason[account[t]] # "none" THEN 100 ELSE score[t]
     IN  /\ score' = [score EXCEPT ![t] = total]
         /\ pc' = [pc EXCEPT ![t] = IF total >= ANOMALY_THRESHOLD THEN "freeze" ELSE "audit"]
  /\ UNCHANGED <<clock, frozen_reason, events, account, since, admitted>>

\* BLOCK_AND_FREEZE: the reason is overwritten, whatever it is by now.
Freeze(t) ==
  /\ pc[t] = "freeze"
  /\ frozen_reason' = [frozen_reason EXCEPT ![account[t]] = "anomaly"]
  /\ pc' = [pc EXCEPT ![t] = "audit"]
  /\ UNCHANGED <<clock, events, account, since, score, admitted>>

End(t) ==
  /\ pc' = [pc EXCEPT ![t] = "idle"]
  /\ since' = [since EXCEPT ![t] = 0]
  /\ score' = [score EXCEPT ![t] = 0]
  /\ account' = [account EXCEPT ![t] = NoAccount]
  /\ UNCHANGED <<clock, frozen_reason, events, admitted>>

\* The assessment is appended to the audit log and the client answered.
Respond(t) == pc[t] = "audit" /\ End(t)

\* The store is unavailable or the process stops: what earlier transactions
\* of the request committed stays.
Fails(t) == pc[t] \notin {"idle", "audit"} /\ End(t)

-----------------------------------------------------------------------------
(* What the engine offers to operators.                                    *)

FreezeAccount(a) ==
  /\ a \in Operated
  /\ frozen_reason' = [frozen_reason EXCEPT ![a] = "operator"]
  /\ UNCHANGED <<clock, events, requestVars, admitted>>

UnfreezeAccount(a) ==
  /\ frozen_reason' = [frozen_reason EXCEPT ![a] = "none"]
  /\ UNCHANGED <<clock, events, requestVars, admitted>>

-----------------------------------------------------------------------------
RequestNext(t) ==
  \/ \E a \in Accounts, risk \in RiskScores : Arrive(t, a, risk)
  \/ VelocityFrozen(t)
  \/ \E now \in Nows(t) : VelocityExceeded(t, now) \/ VelocityAccepted(t, now)
  \/ ReadFrequency(t) \/ ReadFrozen(t) \/ Freeze(t) \/ Respond(t) \/ Fails(t)

Next ==
  \/ Tick
  \/ \E t \in Threads : RequestNext(t)
  \/ \E a \in Accounts : FreezeAccount(a) \/ UnfreezeAccount(a)

Spec == Init /\ [][Next]_vars

-----------------------------------------------------------------------------
(* Properties.                                                             *)

\* At every moment at most MAX_TX_PER_MINUTE admitted requests of an account
\* lie in the last minute, although their times are read before the locks are
\* taken and every check deletes old events of all accounts (lines 42-55).
AdmittedAreBounded ==
  \A a \in Accounts : InWindow(admitted[a], clock) <= MAX_TX_PER_MINUTE

\* The check of one account never deletes an event that still counts, for that
\* account or another (line 49).
RecentEventsAreKept ==
  \A a \in Accounts : \A n \in Times :
    n > clock - WINDOW => events[a][n] = admitted[a][n]

\* A check that waited may see more than a minute: it counts from the minute
\* before the time it has read until now.  Either so many requests were
\* admitted that the limit was reached, or the "high frequency" that a high
\* score takes was seen within one minute.
Earned(a) ==
  \/ \E m, n \in Times :
       /\ m <= n /\ n - m <= MAX_WAIT
       /\ Between(admitted[a], m - WINDOW, n) >= MAX_TX_PER_MINUTE
  \/ \E n \in Times : InWindow(admitted[a], n) > FREQUENT

\* No account is frozen automatically that has not earned it, although readings
\* may be old when they are acted on (lines 49-53 and 69-76).
FreezeIsEarned ==
  \A a \in Accounts : frozen_reason[a] # "none" /\ a \notin Operated => Earned(a)
=============================================================================
