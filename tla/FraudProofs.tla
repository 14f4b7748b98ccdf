---------------------------- MODULE FraudProofs ----------------------------
(***************************************************************************)
(* Theorems about Fraud, for every number of threads and accounts, every   *)
(* limit and window, and every time a check may have waited.               *)
(*                                                                         *)
(* The inductive invariant adds to what the runs check that nothing is     *)
(* admitted in the future, that every stored event was admitted, and what  *)
(* a request has read so far says about the freeze it may end in.          *)
(***************************************************************************)
EXTENDS Fraud, SumsProofs

\* No event lies in the future.
NothingToCome == \A a \in Accounts : \A n \in Times : n > clock => admitted[a][n] = 0

\* Every stored event was recorded once.
EventsWereAdmitted == \A a \in Accounts : \A n \in Times : events[a][n] <= admitted[a][n]

\* What a request has read so far.
ReadingsJustify ==
  \A t \in Threads :
    /\ pc[t] \in {"velocity", "frequency"} => score[t] \in RiskScores
    /\ pc[t] = "frozen" /\ score[t] >= ANOMALY_THRESHOLD => Earned(account[t])
    /\ pc[t] = "freeze" => Earned(account[t]) \/ account[t] \in Operated

IInv ==
  /\ TypeOK
  /\ NothingToCome
  /\ EventsWereAdmitted
  /\ RecentEventsAreKept
  /\ AdmittedAreBounded
  /\ ReadingsJustify
  /\ FreezeIsEarned

\* The constants are natural numbers.
LEMMA Numbers ==
  /\ MAX_TX_PER_MINUTE \in Nat /\ WINDOW \in Nat /\ ANOMALY_THRESHOLD \in Nat
  /\ FREQUENT \in Nat /\ MAX_WAIT \in Nat /\ MaxTime \in Nat
  BY FraudAssumption

\* The times are finitely many.
LEMMA TimesAreFinite ==
  ASSUME NEW S, S \subseteq Times
  PROVE  IsFiniteSet(S)
  <1>1. IsFiniteSet(Times)
    BY Numbers, FS_Interval DEF Times
  <1> QED
    BY <1>1, FS_Subset

\* A longer stretch of a function that is nowhere smaller holds no fewer events.
LEMMA StretchesGrow ==
  ASSUME NEW f, NEW g, NEW S, NEW T, S \subseteq T, T \subseteq Times,
         \A k \in T : g[k] \in Nat,
         \A k \in S : f[k] \in Nat /\ f[k] <= g[k]
  PROVE  /\ SumOver(f, S) \in Nat /\ SumOver(g, T) \in Nat
         /\ SumOver(f, S) <= SumOver(g, T)
  <1>1. IsFiniteSet(S) /\ IsFiniteSet(T)
    BY TimesAreFinite
  <1>2. SumOver(f, S) \in Nat /\ SumOver(g, T) \in Nat
    BY <1>1, SumIsNatural
  <1> QED
    BY <1>1, <1>2, SumsGrow

\* Between counts a natural number of events.
LEMMA BetweenIsNatural ==
  ASSUME NEW f \in [Times -> Nat], NEW m \in Int, NEW n \in Int
  PROVE  Between(f, m, n) \in Nat
  <1> DEFINE S == {k \in Times : m < k /\ k <= n}
  <1>1. S \subseteq Times
    OBVIOUS
  <1>2. \A k \in S : f[k] \in Nat
    OBVIOUS
  <1> HIDE DEF S
  <1>3. SumOver(f, S) \in Nat
    BY <1>1, <1>2, TimesAreFinite, SumIsNatural
  <1> QED
    BY <1>3 DEF Between, S

\* A longer stretch of time holds no fewer events.
LEMMA BetweenGrows ==
  ASSUME NEW f \in [Times -> Nat], NEW g \in [Times -> Nat],
         \A k \in Times : f[k] <= g[k], NEW m \in Int, NEW n \in Int
  PROVE  Between(f, m, n) <= Between(g, m, n)
  <1> DEFINE S == {k \in Times : m < k /\ k <= n}
  <1>1. S \subseteq Times
    OBVIOUS
  <1>2. \A k \in S : f[k] \in Nat /\ g[k] \in Nat /\ f[k] <= g[k]
    OBVIOUS
  <1> HIDE DEF S
  <1>3. SumOver(f, S) <= SumOver(g, S)
    BY <1>1, <1>2, StretchesGrow
  <1> QED
    BY <1>3 DEF Between, S

\* A freeze that has been earned stays earned.
LEMMA EarnedStays ==
  ASSUME TypeOK, TypeOK', NEW a \in Accounts,
         \A n \in Times : admitted[a][n] <= admitted'[a][n], Earned(a)
  PROVE  Earned(a)'
  <1>1. \A m, n \in Int : /\ Between(admitted[a], m, n) \in Nat
                          /\ Between(admitted'[a], m, n) \in Nat
                          /\ Between(admitted[a], m, n) <= Between(admitted'[a], m, n)
    BY BetweenGrows, BetweenIsNatural DEF TypeOK
  <1>2. \A m \in Times : m \in Int /\ m - WINDOW \in Int
    BY Numbers DEF Times
  <1>3. CASE \E m, n \in Times : /\ m <= n /\ n - m <= MAX_WAIT
                                 /\ Between(admitted[a], m - WINDOW, n) >= MAX_TX_PER_MINUTE
    <2>1. PICK m \in Times, n \in Times :
                 /\ m <= n /\ n - m <= MAX_WAIT
                 /\ Between(admitted[a], m - WINDOW, n) >= MAX_TX_PER_MINUTE
      BY <1>3
    <2>2. /\ Between(admitted[a], m - WINDOW, n) \in Nat
          /\ Between(admitted'[a], m - WINDOW, n) \in Nat
          /\ Between(admitted[a], m - WINDOW, n) <= Between(admitted'[a], m - WINDOW, n)
      BY <1>1, <1>2
    <2>3. Between(admitted'[a], m - WINDOW, n) >= MAX_TX_PER_MINUTE
      BY <2>1, <2>2, Numbers
    <2> QED
      BY <2>1, <2>3 DEF Earned
  <1>4. CASE \E n \in Times : InWindow(admitted[a], n) > FREQUENT
    <2>1. PICK n \in Times : InWindow(admitted[a], n) > FREQUENT
      BY <1>4
    <2>2. /\ InWindow(admitted[a], n) \in Nat
          /\ InWindow(admitted'[a], n) \in Nat
          /\ InWindow(admitted[a], n) <= InWindow(admitted'[a], n)
      BY <1>1, <1>2 DEF InWindow
    <2>3. InWindow(admitted'[a], n) > FREQUENT
      BY <2>1, <2>2, Numbers
    <2> QED
      BY <2>3 DEF Earned
  <1> QED
    BY <1>3, <1>4 DEF Earned

\* What is left in the table after a check's deletion was admitted since the
\* start of its window, and all of it until now.
LEMMA LeftWereAdmitted ==
  ASSUME TypeOK, NothingToCome, EventsWereAdmitted, NEW a \in Accounts,
         NEW e \in [Times -> Nat], \A n \in Times : e[n] <= events[a][n],
         NEW m \in Int
  PROVE  /\ After(e, m) \in Nat
         /\ After(e, m) <= Between(admitted[a], m, clock)
  <1> DEFINE S == {k \in Times : k > m}
             T == {k \in Times : m < k /\ k <= clock}
  <1>1. T \subseteq S /\ S \subseteq Times
    BY Numbers DEF TypeOK, Times
  <1>2. \A n \in Times : e[n] \in Nat /\ admitted[a][n] \in Nat /\ events[a][n] \in Nat /\ e[n] <= admitted[a][n]
    <2>1. \A n \in Times : events[a][n] \in Nat /\ admitted[a][n] \in Nat
      BY Numbers DEF TypeOK
    <2> QED
      BY <2>1 DEF EventsWereAdmitted
  <1>3. \A n \in S \ T : e[n] = 0
    <2> TAKE n \in S \ T
    <2>1. n \in Times /\ n > clock
      BY Numbers DEF TypeOK, Times
    <2>2. admitted[a][n] = 0
      BY <2>1 DEF NothingToCome
    <2> QED
      BY <1>2, <2>1, <2>2
  <1>4. After(e, m) = SumOver(e, S) /\ Between(admitted[a], m, clock) = SumOver(admitted[a], T)
    BY DEF After, Between
  <1> HIDE DEF S, T
  <1>5. SumOver(e, S) = SumOver(e, T)
    BY <1>1, <1>2, <1>3, TimesAreFinite, SumsIgnoreZeros
  <1>6. SumOver(e, T) \in Nat /\ SumOver(e, T) <= SumOver(admitted[a], T)
    BY <1>1, <1>2, StretchesGrow
  <1> QED
    BY <1>4, <1>5, <1>6

-----------------------------------------------------------------------------
(* The initial states.                                                     *)

\* No event is stored and no request is served initially.
LEMMA InitInvariant == Init => IInv
  <1> SUFFICES ASSUME Init PROVE IInv
    OBVIOUS
  <1>1. TypeOK
    BY Numbers DEF Init, TypeOK, Times, Reasons
  <1>2. NothingToCome /\ EventsWereAdmitted /\ RecentEventsAreKept /\ ReadingsJustify /\ FreezeIsEarned
    BY DEF Init, NothingToCome, EventsWereAdmitted, RecentEventsAreKept, ReadingsJustify, FreezeIsEarned
  <1>3. AdmittedAreBounded
    <2> SUFFICES ASSUME NEW a \in Accounts
                 PROVE  InWindow(admitted[a], clock) <= MAX_TX_PER_MINUTE
      BY DEF AdmittedAreBounded
    <2> DEFINE S == {k \in Times : clock - WINDOW < k /\ k <= clock}
    <2>1. S \subseteq Times /\ \A k \in S : admitted[a][k] = 0
      BY DEF Init
    <2> HIDE DEF S
    <2>2. SumOver(admitted[a], S) = SumOver(admitted[a], {})
      BY <2>1, TimesAreFinite, SumsIgnoreZeros
    <2>3. InWindow(admitted[a], clock) = SumOver(admitted[a], S)
      BY DEF InWindow, Between, S
    <2> QED
      BY <2>2, <2>3, SumOfNone, Numbers
  <1> QED
    BY <1>1, <1>2, <1>3 DEF IInv

-----------------------------------------------------------------------------
(* Steps that leave the events alone.                                      *)

\* A passing second takes events out of the last minute and brings none in.
LEMMA TickKeepsBound ==
  ASSUME TypeOK, NothingToCome, AdmittedAreBounded, Tick
  PROVE  AdmittedAreBounded'
  <1> DEFINE later == clock + 1
  <1> SUFFICES ASSUME NEW a \in Accounts
               PROVE  InWindow(admitted[a], later) <= MAX_TX_PER_MINUTE
    BY DEF AdmittedAreBounded, Tick
  <1> DEFINE S == {k \in Times : later - WINDOW < k /\ k <= later}
             T == {k \in Times : clock - WINDOW < k /\ k <= clock}
  <1>1. S \subseteq Times /\ S \cap T \subseteq Times /\ T \subseteq Times
    OBVIOUS
  <1>2. \A k \in S \ T : admitted[a][k] = 0
    <2> TAKE k \in S \ T
    <2>1. k \in Times /\ k > clock
      BY Numbers DEF TypeOK, Times
    <2> QED
      BY <2>1 DEF NothingToCome
  <1>3. \A k \in Times : admitted[a][k] \in Nat
    BY DEF TypeOK
  <1> HIDE DEF later
  <1>4. InWindow(admitted[a], later) = SumOver(admitted[a], S)
    BY DEF InWindow, Between
  <1>5. InWindow(admitted[a], clock) = SumOver(admitted[a], T)
    BY DEF InWindow, Between
  <1> HIDE DEF S, T
  <1>6. SumOver(admitted[a], S) = SumOver(admitted[a], S \cap T)
    <2>1. S \cap T \in SUBSET S /\ \A k \in S \ (S \cap T) : admitted[a][k] = 0
      BY <1>2
    <2> QED
      BY <1>1, <1>3, <2>1, TimesAreFinite, SumsIgnoreZeros
  <1>7. /\ SumOver(admitted[a], S \cap T) \in Nat /\ SumOver(admitted[a], T) \in Nat
        /\ SumOver(admitted[a], S \cap T) <= SumOver(admitted[a], T)
    <2>1. S \cap T \subseteq T
      OBVIOUS
    <2>2. \A k \in S \cap T : admitted[a][k] \in Nat /\ admitted[a][k] <= admitted[a][k]
      BY <1>1, <1>3
    <2> QED
      BY <1>1, <1>3, <2>1, <2>2, StretchesGrow
  <1>8. SumOver(admitted[a], T) <= MAX_TX_PER_MINUTE
    BY <1>5 DEF AdmittedAreBounded
  <1> QED
    BY <1>4, <1>6, <1>7, <1>8, Numbers

\* The clock moves on: what counted within a minute still counts within the
\* longer stretch.
LEMMA TickStep ==
  ASSUME IInv, Tick
  PROVE  IInv'
  <1>1. TypeOK'
    BY Numbers DEF IInv, TypeOK, Tick, requestVars, Times
  <1>2. NothingToCome'
    BY Numbers DEF IInv, TypeOK, NothingToCome, Tick, Times
  <1>3. EventsWereAdmitted'
    BY DEF IInv, EventsWereAdmitted, Tick
  <1>4. RecentEventsAreKept'
    <2> SUFFICES ASSUME NEW a \in Accounts, NEW n \in Times, n > clock' - WINDOW
                 PROVE  events'[a][n] = admitted'[a][n]
      BY DEF RecentEventsAreKept
    <2>1. n > clock - WINDOW /\ events' = events /\ admitted' = admitted
      BY Numbers DEF IInv, TypeOK, Times, Tick
    <2> QED
      BY <2>1 DEF IInv, RecentEventsAreKept
  <1>5. AdmittedAreBounded'
    BY TickKeepsBound DEF IInv
  <1>6. \A a \in Accounts : Earned(a)' = Earned(a)
    BY DEF Earned, Tick
  <1>7. ReadingsJustify'
    BY <1>6 DEF IInv, TypeOK, ReadingsJustify, Tick, requestVars
  <1>8. FreezeIsEarned'
    BY <1>6 DEF IInv, FreezeIsEarned, Tick
  <1> QED
    BY <1>1, <1>2, <1>3, <1>4, <1>5, <1>7, <1>8 DEF IInv

\* What is said about the events alone survives a step that leaves them and the
\* clock as they are; so does what was earned.
LEMMA EventsAlone ==
  ASSUME IInv, UNCHANGED <<clock, events, admitted>>
  PROVE  /\ NothingToCome' /\ EventsWereAdmitted' /\ RecentEventsAreKept' /\ AdmittedAreBounded'
         /\ \A a \in Accounts : Earned(a)' = Earned(a)
  BY DEF IInv, NothingToCome, EventsWereAdmitted, RecentEventsAreKept, AdmittedAreBounded, Earned

\* A request has read nothing yet that could be out of date.
LEMMA ArriveStep ==
  ASSUME IInv, NEW t \in Threads, NEW a \in Accounts, NEW risk \in RiskScores, Arrive(t, a, risk)
  PROVE  IInv'
  <1>1. TypeOK'
    <2>1. risk \in 0 .. 100
      <3>1. risk \in 0 .. 70
        BY FraudAssumption
      <3> QED
        BY <3>1
    <2> QED
      BY <2>1 DEF IInv, TypeOK, Arrive
  <1>2. UNCHANGED <<clock, events, admitted, frozen_reason>>
    BY DEF Arrive
  <1>3. ReadingsJustify'
    BY <1>2, EventsAlone DEF IInv, TypeOK, ReadingsJustify, Arrive
  <1>4. FreezeIsEarned'
    BY <1>2, EventsAlone DEF IInv, FreezeIsEarned
  <1> QED
    BY <1>1, <1>2, <1>3, <1>4, EventsAlone DEF IInv

\* A check of a frozen account stores nothing.
LEMMA VelocityFrozenStep ==
  ASSUME IInv, NEW t \in Threads, VelocityFrozen(t)
  PROVE  IInv'
  <1>1. TypeOK'
    <2>1. 0 \in Times
      BY Numbers DEF Times
    <2> QED
      BY <2>1 DEF IInv, TypeOK, VelocityFrozen, Checked
  <1>2. UNCHANGED <<clock, events, admitted, frozen_reason>>
    BY DEF VelocityFrozen, Checked
  <1>3. ReadingsJustify'
    BY <1>2, EventsAlone DEF IInv, TypeOK, ReadingsJustify, VelocityFrozen, Checked
  <1>4. FreezeIsEarned'
    BY <1>2, EventsAlone DEF IInv, FreezeIsEarned
  <1> QED
    BY <1>1, <1>2, <1>3, <1>4, EventsAlone DEF IInv

\* The freeze is written on readings that were earned when they were taken.
LEMMA FreezeStep ==
  ASSUME IInv, NEW t \in Threads, Freeze(t)
  PROVE  IInv'
  <1>1. TypeOK'
    BY DEF IInv, TypeOK, Freeze, Reasons
  <1>2. UNCHANGED <<clock, events, admitted>>
    BY DEF Freeze
  <1>3. ReadingsJustify'
    BY <1>2, EventsAlone DEF IInv, TypeOK, ReadingsJustify, Freeze
  <1>4. Earned(account[t]) \/ account[t] \in Operated
    BY DEF IInv, ReadingsJustify, Freeze
  <1>5. \A a \in Accounts : frozen_reason'[a] # "none" => a = account[t] \/ frozen_reason[a] # "none"
    BY DEF IInv, TypeOK, Freeze
  <1>6. FreezeIsEarned'
    BY <1>2, <1>4, <1>5, EventsAlone DEF IInv, FreezeIsEarned
  <1> QED
    BY <1>1, <1>2, <1>3, <1>6, EventsAlone DEF IInv

\* The end of a request leaves the tables alone.
LEMMA EndStep ==
  ASSUME IInv, NEW t \in Threads, End(t)
  PROVE  IInv'
  <1>1. TypeOK'
    <2>1. 0 \in Times /\ 0 \in 0 .. 100
      BY Numbers DEF Times
    <2>2. /\ pc' \in [Threads -> {"idle", "velocity", "frequency", "frozen", "freeze", "audit"}]
          /\ account' \in [Threads -> Accounts \union {NoAccount}]
          /\ \A u \in Threads : pc'[u] # "idle" => account'[u] \in Accounts
      BY DEF IInv, TypeOK, End
    <2>3. since' \in [Threads -> Times] /\ score' \in [Threads -> 0 .. 100]
      BY <2>1 DEF IInv, TypeOK, End
    <2> QED
      BY <2>2, <2>3 DEF IInv, TypeOK, End
  <1>2. UNCHANGED <<clock, events, admitted, frozen_reason>>
    BY DEF End
  <1>3. ReadingsJustify'
    BY <1>2, EventsAlone DEF IInv, TypeOK, ReadingsJustify, End
  <1>4. FreezeIsEarned'
    BY <1>2, EventsAlone DEF IInv, FreezeIsEarned
  <1> QED
    BY <1>1, <1>2, <1>3, <1>4, EventsAlone DEF IInv

\* What an operator freezes or unfreezes is the operator's doing.
LEMMA OperatorStep ==
  ASSUME IInv, NEW a \in Accounts, FreezeAccount(a) \/ UnfreezeAccount(a)
  PROVE  IInv'
  <1>1. TypeOK'
    BY DEF IInv, TypeOK, FreezeAccount, UnfreezeAccount, requestVars, Reasons
  <1>2. UNCHANGED <<clock, events, admitted, pc, account, score>>
    BY DEF FreezeAccount, UnfreezeAccount, requestVars
  <1>3. ReadingsJustify'
    BY <1>2, EventsAlone DEF IInv, TypeOK, ReadingsJustify
  <1>4. \A b \in Accounts : frozen_reason'[b] # "none" => b \in Operated \/ frozen_reason[b] # "none"
    BY DEF IInv, TypeOK, FreezeAccount, UnfreezeAccount
  <1>5. FreezeIsEarned'
    BY <1>2, <1>4, EventsAlone DEF IInv, FreezeIsEarned
  <1> QED
    BY <1>1, <1>2, <1>3, <1>5, EventsAlone DEF IInv

-----------------------------------------------------------------------------
(* The readings that decide a freeze.                                      *)

\* The "high frequency" that adds thirty to a score is earned.
LEMMA ReadFrequencyStep ==
  ASSUME IInv, NEW t \in Threads, ReadFrequency(t)
  PROVE  IInv'
  <1> DEFINE a == account[t]
             count == After(events[a], clock - WINDOW)
  <1>1. a \in Accounts /\ score[t] \in RiskScores
    BY DEF IInv, TypeOK, ReadingsJustify, ReadFrequency
  <1>2. score[t] \in 0 .. 70 /\ score[t] < ANOMALY_THRESHOLD
    BY <1>1, FraudAssumption
  <1>3. UNCHANGED <<clock, events, admitted, frozen_reason, account>>
    BY DEF ReadFrequency
  <1>4. score' = [score EXCEPT ![t] = score[t] + (IF count > FREQUENT THEN 30 ELSE 0)]
    BY DEF ReadFrequency, IInv, TypeOK
  <1>5. pc' = [pc EXCEPT ![t] = "frozen"]
    BY DEF ReadFrequency
  <1>6. TypeOK'
    <2> HIDE DEF count
    <2>1. score[t] + (IF count > FREQUENT THEN 30 ELSE 0) \in 0 .. 100
      BY <1>2
    <2> HIDE DEF a
    <2> QED
      BY <1>3, <1>4, <1>5, <2>1, ReadFrequency(t) DEF IInv, TypeOK, ReadFrequency
  <1>7. count > FREQUENT => Earned(a)
    <2>1. clock - WINDOW \in Int /\ clock \in Times
      BY Numbers DEF IInv, TypeOK, Times
    <2>2. events[a] \in [Times -> Nat] /\ \A n \in Times : events[a][n] <= events[a][n]
      BY <1>1, Numbers DEF IInv, TypeOK
    <2>3. /\ After(events[a], clock - WINDOW) \in Nat
          /\ After(events[a], clock - WINDOW) <= Between(admitted[a], clock - WINDOW, clock)
      BY <1>1, <2>1, <2>2, LeftWereAdmitted DEF IInv
    <2>4. InWindow(admitted[a], clock) \in Nat
      BY <1>1, <2>1, BetweenIsNatural DEF IInv, TypeOK, InWindow, Times
    <2>5. count > FREQUENT => InWindow(admitted[a], clock) > FREQUENT
      <3>1. count \in Nat /\ count <= InWindow(admitted[a], clock)
        BY <2>3 DEF InWindow
      <3> HIDE DEF count
      <3> QED
        BY <2>4, <3>1, Numbers
    <2> QED
      BY <2>1, <2>5 DEF Earned
  <1>8. ReadingsJustify'
    <2> HIDE DEF count
    <2>1. score'[t] >= ANOMALY_THRESHOLD => Earned(a)
      <3>1. score'[t] = score[t] + (IF count > FREQUENT THEN 30 ELSE 0)
        BY <1>4 DEF IInv, TypeOK
      <3> QED
        BY <1>2, <1>7, <3>1, Numbers
    <2>2. \A u \in Threads : u # t => pc'[u] = pc[u] /\ score'[u] = score[u]
      BY <1>4, <1>5 DEF IInv, TypeOK
    <2>3. pc'[t] = "frozen"
      BY <1>5 DEF IInv, TypeOK
    <2> QED
      BY <1>1, <1>3, <2>1, <2>2, <2>3, EventsAlone DEF IInv, TypeOK, ReadingsJustify
  <1>9. FreezeIsEarned'
    BY <1>3, EventsAlone DEF IInv, FreezeIsEarned
  <1> QED
    BY <1>3, <1>6, <1>8, <1>9, EventsAlone DEF IInv

\* An account that is frozen scores a hundred; it has earned that freeze too.
LEMMA ReadFrozenStep ==
  ASSUME IInv, NEW t \in Threads, ReadFrozen(t)
  PROVE  IInv'
  <1> DEFINE a == account[t]
             total == IF frozen_reason[a] # "none" THEN 100 ELSE score[t]
  <1>1. a \in Accounts /\ pc[t] = "frozen"
    BY DEF IInv, TypeOK, ReadFrozen
  <1>2. UNCHANGED <<clock, events, admitted, frozen_reason, account, since>>
    BY DEF ReadFrozen
  <1>3. total \in 0 .. 100
    BY DEF IInv, TypeOK
  <1>4. /\ score' = [score EXCEPT ![t] = total]
        /\ pc' = [pc EXCEPT ![t] = IF total >= ANOMALY_THRESHOLD THEN "freeze" ELSE "audit"]
    BY DEF ReadFrozen
  <1>5. total >= ANOMALY_THRESHOLD => Earned(a) \/ a \in Operated
    BY <1>1 DEF IInv, ReadingsJustify, FreezeIsEarned
  <1> HIDE DEF total
  <1>6. TypeOK'
    BY <1>1, <1>2, <1>3, <1>4 DEF IInv, TypeOK
  <1>7. ReadingsJustify'
    <2>1. \A u \in Threads : u # t => pc'[u] = pc[u] /\ score'[u] = score[u]
      BY <1>4 DEF IInv, TypeOK
    <2>2. \/ pc'[t] = "freeze" /\ (Earned(a) \/ a \in Operated)
          \/ pc'[t] = "audit"
      BY <1>4, <1>5 DEF IInv, TypeOK
    <2> QED
      BY <1>1, <1>2, <2>1, <2>2, EventsAlone DEF IInv, TypeOK, ReadingsJustify
  <1>8. FreezeIsEarned'
    BY <1>2, EventsAlone DEF IInv, FreezeIsEarned
  <1> QED
    BY <1>2, <1>6, <1>7, <1>8, EventsAlone DEF IInv

-----------------------------------------------------------------------------
(* The velocity check.                                                     *)

\* What a thread may take for the current time.
LEMMA NowsArePast ==
  ASSUME TypeOK, NEW t \in Threads, NEW now \in Nows(t)
  PROVE  /\ now \in Times /\ now <= clock /\ clock - now <= MAX_WAIT
         /\ clock \in Times /\ \A n \in Times : n \in Int
  BY Numbers DEF TypeOK, Nows, Times

\* The deletion leaves the types alone, takes only what is a minute old, and
\* adds nothing.
LEMMA CleaningKeeps ==
  ASSUME TypeOK, NEW now \in Times
  PROVE  /\ Cleaned(now) \in [Accounts -> [Times -> 0 .. MAX_TX_PER_MINUTE]]
         /\ \A a \in Accounts : \A n \in Times :
              /\ Cleaned(now)[a][n] \in Nat
              /\ Cleaned(now)[a][n] <= events[a][n]
              /\ n <= now - WINDOW => Cleaned(now)[a][n] = 0
              /\ n > now - WINDOW => Cleaned(now)[a][n] = events[a][n]
  <1>1. \A a \in Accounts : \A n \in Times : events[a][n] \in 0 .. MAX_TX_PER_MINUTE
    BY DEF TypeOK
  <1> QED
    BY <1>1, Numbers DEF Cleaned, Times

\* What a check counts as recent was admitted.
LEMMA RecentWereAdmitted ==
  ASSUME IInv, NEW t \in Threads, pc[t] = "velocity", NEW now \in Nows(t)
  PROVE  /\ Recent(t, now) \in Nat
         /\ Recent(t, now) <= Between(admitted[account[t]], now - WINDOW, clock)
  <1>1. account[t] \in Accounts /\ now \in Times
    BY NowsArePast DEF IInv, TypeOK
  <1>2. /\ Cleaned(now)[account[t]] \in [Times -> Nat]
        /\ \A n \in Times : Cleaned(now)[account[t]][n] <= events[account[t]][n]
    <2>1. Cleaned(now) \in [Accounts -> [Times -> 0 .. MAX_TX_PER_MINUTE]]
      BY <1>1, CleaningKeeps DEF IInv
    <2>2. Cleaned(now)[account[t]] \in [Times -> 0 .. MAX_TX_PER_MINUTE]
      BY <1>1, <2>1
    <2> QED
      BY <1>1, <2>2, CleaningKeeps, Numbers DEF IInv
  <1>3. now - WINDOW \in Int
    BY <1>1, Numbers DEF Times
  <1> QED
    BY <1>1, <1>2, <1>3, LeftWereAdmitted DEF IInv, Recent

\* What the check found justifies the freeze it makes.
LEMMA VelocityExceededStep ==
  ASSUME IInv, NEW t \in Threads, NEW now \in Nows(t), VelocityExceeded(t, now)
  PROVE  IInv'
  <1> DEFINE a == account[t]
  <1>1. a \in Accounts /\ pc[t] = "velocity" /\ now \in Times /\ clock \in Times
    BY NowsArePast DEF IInv, TypeOK, VelocityExceeded
  <1>2. UNCHANGED <<clock, admitted, account, score>>
    BY DEF VelocityExceeded, Checked
  <1>3. /\ events' = Cleaned(now)
        /\ frozen_reason' = [frozen_reason EXCEPT ![a] = "velocity"]
        /\ pc' = [pc EXCEPT ![t] = "frequency"]
        /\ since' = [since EXCEPT ![t] = 0]
    BY DEF VelocityExceeded, Checked
  <1>4. TypeOK'
    <2>1. events' \in [Accounts -> [Times -> 0 .. MAX_TX_PER_MINUTE]]
      BY <1>1, <1>3, CleaningKeeps DEF IInv
    <2>2. 0 \in Times
      BY Numbers DEF Times
    <2> QED
      BY <1>1, <1>2, <1>3, <2>1, <2>2 DEF IInv, TypeOK, Reasons
  <1>5. NothingToCome'
    BY <1>2 DEF IInv, NothingToCome
  <1>6. \A b \in Accounts : \A n \in Times :
          /\ events'[b][n] <= admitted'[b][n]
          /\ n > clock - WINDOW => events'[b][n] = admitted'[b][n]
    <2> TAKE b \in Accounts
    <2> TAKE n \in Times
    <2>1. events[b][n] \in Nat /\ admitted[b][n] \in Nat /\ events[b][n] <= admitted[b][n]
      <3>1. events[b][n] \in 0 .. MAX_TX_PER_MINUTE /\ admitted[b][n] \in Nat
        BY DEF IInv, TypeOK
      <3> QED
        BY <3>1, Numbers DEF IInv, EventsWereAdmitted
    <2>2. n > clock - WINDOW => n > now - WINDOW
      BY NowsArePast, Numbers DEF IInv, Times
    <2> QED
      BY <1>1, <1>2, <1>3, <2>1, <2>2, CleaningKeeps DEF IInv, RecentEventsAreKept
  <1>7. EventsWereAdmitted' /\ RecentEventsAreKept'
    BY <1>2, <1>6 DEF EventsWereAdmitted, RecentEventsAreKept
  <1>8. AdmittedAreBounded'
    BY <1>2 DEF IInv, AdmittedAreBounded
  <1>9. \A b \in Accounts : Earned(b)' = Earned(b)
    BY <1>2 DEF Earned
  <1>10. ReadingsJustify'
    <2>1. \A u \in Threads : u # t => pc'[u] = pc[u]
      BY <1>3 DEF IInv, TypeOK
    <2>2. pc'[t] = "frequency"
      BY <1>3 DEF IInv, TypeOK
    <2> QED
      BY <1>1, <1>2, <1>9, <2>1, <2>2 DEF IInv, TypeOK, ReadingsJustify
  <1>11. Earned(a)
    <2>1. Recent(t, now) >= MAX_TX_PER_MINUTE
      BY DEF VelocityExceeded
    <2>2. /\ Recent(t, now) \in Nat
          /\ Recent(t, now) <= Between(admitted[a], now - WINDOW, clock)
      BY <1>1, RecentWereAdmitted
    <2>3. Between(admitted[a], now - WINDOW, clock) \in Nat
      <3>1. admitted[a] \in [Times -> Nat]
        BY <1>1 DEF IInv, TypeOK
      <3>2. now - WINDOW \in Int /\ clock \in Int
        BY <1>1, Numbers DEF Times
      <3> QED
        BY <3>1, <3>2, BetweenIsNatural
    <2>4. Between(admitted[a], now - WINDOW, clock) >= MAX_TX_PER_MINUTE
      BY <2>1, <2>2, <2>3, Numbers
    <2> QED
      BY <1>1, <2>4, NowsArePast DEF IInv, Earned
  <1>12. FreezeIsEarned'
    <2>1. \A b \in Accounts : b # a => frozen_reason'[b] = frozen_reason[b]
      BY <1>3 DEF IInv, TypeOK
    <2> QED
      BY <1>9, <1>11, <2>1 DEF IInv, FreezeIsEarned
  <1> QED
    BY <1>4, <1>5, <1>7, <1>8, <1>10, <1>12 DEF IInv

\* One more event of the account, at the time the check has read.
LEMMA VelocityAcceptedStep ==
  ASSUME IInv, NEW t \in Threads, NEW now \in Nows(t), VelocityAccepted(t, now)
  PROVE  IInv'
  <1> DEFINE a == account[t]
             kept == Cleaned(now)
  <1>1. a \in Accounts /\ pc[t] = "velocity" /\ now \in Times /\ clock \in Times
    BY NowsArePast DEF IInv, TypeOK, VelocityAccepted
  <1>2. UNCHANGED <<clock, frozen_reason, account, score>>
    BY DEF VelocityAccepted, Checked
  <1>3. /\ events' = [kept EXCEPT ![a][now] = @ + 1]
        /\ admitted' = [admitted EXCEPT ![a][now] = @ + 1]
        /\ pc' = [pc EXCEPT ![t] = "frequency"]
        /\ since' = [since EXCEPT ![t] = 0]
    BY DEF VelocityAccepted, Checked
  <1>4. /\ kept \in [Accounts -> [Times -> 0 .. MAX_TX_PER_MINUTE]]
        /\ admitted \in [Accounts -> [Times -> Nat]]
        /\ \A b \in Accounts : \A n \in Times :
             /\ kept[b][n] \in Nat
             /\ kept[b][n] <= events[b][n]
             /\ n <= now - WINDOW => kept[b][n] = 0
             /\ n > now - WINDOW => kept[b][n] = events[b][n]
    BY <1>1, CleaningKeeps DEF IInv, TypeOK
  <1>5. /\ Recent(t, now) = SumOver(kept[a], {k \in Times : k > now - WINDOW})
        /\ Recent(t, now) < MAX_TX_PER_MINUTE
        /\ Recent(t, now) \in Nat
    BY <1>1, RecentWereAdmitted DEF VelocityAccepted, Recent, After
  <1> HIDE DEF kept, a
  <1>6. kept[a][now] < MAX_TX_PER_MINUTE
    <2>1. CASE now > now - WINDOW
      <3> DEFINE S == {k \in Times : k > now - WINDOW}
      <3>1. now \in S /\ S \subseteq Times
        BY <1>1, <2>1
      <3>2. \A k \in S : kept[a][k] \in Nat
        BY <1>1, <1>4
      <3>3. Recent(t, now) = SumOver(kept[a], S)
        BY <1>5
      <3> HIDE DEF S
      <3>4. SumOver(kept[a], S) = kept[a][now] + SumOver(kept[a], S \ {now})
        BY <3>1, <3>2, TimesAreFinite, SumWithElement
      <3>5. S \ {now} \subseteq Times /\ \A k \in S \ {now} : kept[a][k] \in Nat
        BY <3>1, <3>2
      <3>6. SumOver(kept[a], S \ {now}) \in Nat
        <4> DEFINE R == S \ {now}
        <4> HIDE DEF R
        <4>1. R \subseteq Times /\ \A k \in R : kept[a][k] \in Nat
          BY <3>5 DEF R
        <4>2. SumOver(kept[a], R) \in Nat
          BY <4>1, TimesAreFinite, SumIsNatural
        <4> QED
          BY <4>2 DEF R
      <3> QED
        BY <1>5, <3>1, <3>2, <3>3, <3>4, <3>6, Numbers
    <2>2. CASE ~ (now > now - WINDOW)
      <3>1. kept[a][now] = 0
        BY <1>1, <1>4, <2>2, Numbers DEF Times
      <3> QED
        BY <1>5, <3>1, Numbers
    <2> QED
      BY <2>1, <2>2
  <1>7. /\ events' \in [Accounts -> [Times -> 0 .. MAX_TX_PER_MINUTE]]
        /\ admitted' \in [Accounts -> [Times -> Nat]]
        /\ \A b \in Accounts : \A n \in Times :
             /\ events'[b][n] = IF b = a /\ n = now THEN kept[b][n] + 1 ELSE kept[b][n]
             /\ admitted'[b][n] = IF b = a /\ n = now THEN admitted[b][n] + 1 ELSE admitted[b][n]
    <2>1. kept[a][now] + 1 \in 0 .. MAX_TX_PER_MINUTE /\ admitted[a][now] + 1 \in Nat
      <3>1. kept[a][now] \in Nat /\ admitted[a][now] \in Nat
        BY <1>1, <1>4
      <3> QED
        BY <1>6, <3>1, Numbers
    <2> QED
      BY <1>1, <1>3, <1>4, <2>1
  <1>8. TypeOK'
    <2>1. 0 \in Times
      BY Numbers DEF Times
    <2> QED
      BY <1>1, <1>2, <1>3, <1>7, <2>1 DEF IInv, TypeOK
  <1>9. NothingToCome'
    <2>1. ~ (now > clock)
      BY <1>1, NowsArePast, Numbers DEF IInv, Times
    <2> QED
      BY <1>2, <1>7, <2>1 DEF IInv, NothingToCome
  <1>10. \A b \in Accounts : \A n \in Times :
          /\ events'[b][n] <= admitted'[b][n]
          /\ admitted[b][n] <= admitted'[b][n]
          /\ n > clock - WINDOW => events'[b][n] = admitted'[b][n]
    <2> TAKE b \in Accounts
    <2> TAKE n \in Times
    <2>1. events[b][n] \in Nat /\ admitted[b][n] \in Nat /\ events[b][n] <= admitted[b][n]
      <3>1. events[b][n] \in 0 .. MAX_TX_PER_MINUTE /\ admitted[b][n] \in Nat
        BY DEF IInv, TypeOK
      <3> QED
        BY <3>1, Numbers DEF IInv, EventsWereAdmitted
    <2>2. n > clock - WINDOW => n > now - WINDOW /\ events[b][n] = admitted[b][n]
      BY NowsArePast, Numbers DEF IInv, RecentEventsAreKept, Times
    <2> QED
      BY <1>4, <1>7, <2>1, <2>2
  <1>11. EventsWereAdmitted' /\ RecentEventsAreKept'
    BY <1>2, <1>10 DEF EventsWereAdmitted, RecentEventsAreKept
  <1>12. AdmittedAreBounded'
    <2> SUFFICES ASSUME NEW b \in Accounts
                 PROVE  InWindow(admitted'[b], clock) <= MAX_TX_PER_MINUTE
      BY <1>2 DEF AdmittedAreBounded
    <2> DEFINE T == {k \in Times : clock - WINDOW < k /\ k <= clock}
    <2>1. /\ InWindow(admitted[b], clock) = SumOver(admitted[b], T)
          /\ InWindow(admitted'[b], clock) = SumOver(admitted'[b], T)
      BY DEF InWindow, Between
    <2>2. T \subseteq Times /\ \A k \in T : k > clock - WINDOW
      BY <1>1, Numbers DEF Times
    <2>3. \A k \in T : admitted[b][k] \in Nat /\ admitted'[b][k] \in Nat
      BY <1>4, <1>7, <2>2
    <2>4. SumOver(admitted[b], T) <= MAX_TX_PER_MINUTE
      BY <2>1 DEF IInv, AdmittedAreBounded
    <2>5. CASE b = a /\ now \in T
      <3> DEFINE S == {k \in Times : k > now - WINDOW}
      <3>1. T \subseteq S /\ S \subseteq Times
        BY <1>1, NowsArePast, Numbers DEF IInv, Times
      <3>2. \A k \in T : admitted[a][k] = kept[a][k]
        <4> TAKE k \in T
        <4>1. k \in Times /\ k \in S /\ k > clock - WINDOW
          BY <2>2, <3>1
        <4>2. events[a][k] = admitted[a][k]
          BY <1>1, <2>5, <4>1 DEF IInv, RecentEventsAreKept
        <4> QED
          BY <1>4, <2>5, <4>1, <4>2
      <3>3. \A k \in S : kept[a][k] \in Nat
        BY <1>4, <2>5, <3>1
      <3>4. Recent(t, now) = SumOver(kept[a], S)
        BY <1>5
      <3>5. admitted'[a][now] = admitted[a][now] + 1 /\ \A k \in T \ {now} : admitted'[a][k] = admitted[a][k]
        BY <1>1, <1>7, <2>2, <2>5
      <3> HIDE DEF S, T
      <3>6. SumOver(admitted'[a], T) = SumOver(admitted[a], T) + 1
        BY <2>2, <2>3, <2>5, <3>5, TimesAreFinite, SumWithMore
      <3>7. SumOver(admitted[a], T) \in Nat /\ SumOver(admitted[a], T) <= SumOver(kept[a], S)
        <4>1. \A k \in T : admitted[a][k] \in Nat /\ admitted[a][k] <= kept[a][k]
          BY <2>3, <2>5, <3>2
        <4> QED
          BY <3>1, <3>3, <4>1, StretchesGrow
      <3> QED
        BY <1>5, <2>1, <2>5, <3>4, <3>6, <3>7, Numbers
    <2>6. CASE ~ (b = a /\ now \in T)
      <3>1. \A k \in T : admitted[b][k] \in Nat /\ admitted[b][k] = admitted'[b][k]
        BY <1>7, <2>2, <2>3, <2>6
      <3> HIDE DEF T
      <3>2. SumOver(admitted[b], T) = SumOver(admitted'[b], T)
        BY <2>2, <3>1, TimesAreFinite, SumsAgree
      <3> QED
        BY <2>1, <2>4, <3>2
    <2> QED
      BY <2>5, <2>6
  <1>13. \A b \in Accounts : Earned(b) => Earned(b)'
    BY <1>8, <1>10, EarnedStays DEF IInv
  <1>14. ReadingsJustify'
    <2>1. \A u \in Threads : u # t => pc'[u] = pc[u]
      BY <1>3 DEF IInv, TypeOK
    <2>2. pc'[t] = "frequency"
      BY <1>3 DEF IInv, TypeOK
    <2> QED
      BY <1>1, <1>2, <1>13, <2>1, <2>2 DEF IInv, TypeOK, ReadingsJustify
  <1>15. FreezeIsEarned'
    BY <1>2, <1>13 DEF IInv, FreezeIsEarned
  <1> QED
    BY <1>8, <1>9, <1>11, <1>12, <1>14, <1>15 DEF IInv

-----------------------------------------------------------------------------
(* The theorems.                                                           *)

\* Nothing changes.
LEMMA StutterStep == IInv /\ UNCHANGED vars => IInv'
  <1> SUFFICES ASSUME IInv, UNCHANGED vars PROVE IInv'
    OBVIOUS
  <1>1. UNCHANGED <<clock, frozen_reason, events, pc, account, score, since, admitted>>
    BY DEF vars, requestVars
  <1> QED
    BY <1>1, EventsAlone DEF IInv, TypeOK, ReadingsJustify, FreezeIsEarned

\* The invariant is inductive.
THEOREM InvariantStep == IInv /\ [Next]_vars => IInv'
  <1> SUFFICES ASSUME IInv, [Next]_vars PROVE IInv'
    OBVIOUS
  <1>1. CASE Tick
    BY <1>1, TickStep
  <1>2. ASSUME NEW t \in Threads, RequestNext(t) PROVE IInv'
    BY <1>2, ArriveStep, VelocityFrozenStep, VelocityExceededStep, VelocityAcceptedStep,
       ReadFrequencyStep, ReadFrozenStep, FreezeStep, EndStep
    DEF RequestNext, Respond, Fails
  <1>3. ASSUME NEW a \in Accounts, FreezeAccount(a) \/ UnfreezeAccount(a) PROVE IInv'
    BY <1>3, OperatorStep
  <1>4. CASE UNCHANGED vars
    BY <1>4, StutterStep
  <1> QED
    BY <1>1, <1>2, <1>3, <1>4 DEF Next

\* The inductive invariant holds in every reachable state.
THEOREM FraudInvariance == Spec => []IInv
  BY InitInvariant, InvariantStep, PTL DEF Spec

\* The tables have their types; no account ever has more events stored for one
\* time than the limit admits in a minute.
THEOREM FraudTypeCorrect == Spec => []TypeOK
  BY FraudInvariance, PTL DEF IInv

\* Whatever the threads and however late their checks commit, at most
\* MAX_TX_PER_MINUTE admitted requests of an account lie in the last minute
\* (lines 42-55).
THEOREM VelocityIsBounded == Spec => []AdmittedAreBounded
  BY FraudInvariance, PTL DEF IInv

\* No check deletes an event that still counts, for any account (line 49).
THEOREM NoEventIsLost == Spec => []RecentEventsAreKept
  BY FraudInvariance, PTL DEF IInv

\* Every automatic freeze answers to a burst of the account's own requests
\* (lines 49-53 and 69-76).
THEOREM FreezesAreEarned == Spec => []FreezeIsEarned
  BY FraudInvariance, PTL DEF IInv
=============================================================================
