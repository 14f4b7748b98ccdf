---------------------------- MODULE ImmuneProofs ----------------------------
(***************************************************************************)
(* Theorems about Immune, for every number of threads, every set of        *)
(* clients, every limit, window and ban.                                   *)
(*                                                                         *)
(* A request is counted by the length of a deque from which only the head  *)
(* is ever removed; the limit is about timestamps.  The inductive          *)
(* invariant ties the two: for every time in the window the deque still    *)
(* holds as many entries as requests were let through with it.             *)
(***************************************************************************)
EXTENDS Immune, SumsProofs, SequenceTheorems

Places(q) == 1 .. Len(q)

\* How many entries of a deque have timestamp n.
Entries(q, n) == Cardinality(Fibre(q, Places(q), n))

QueueKeepsAdmitted ==
  \A i \in Ids : \A n \in Times :
    n > clock - WINDOW => admitted[i][n] <= Entries(rate_limits[i], n)

\* The threads that will still append to a client's deque.
Counting(i) == {t \in Threads : client[t] = i /\ pc[t] \in {"checking", "limiting"}}

QueueIsBounded ==
  \A i \in Ids : Len(rate_limits[i]) + Cardinality(Counting(i)) < MaxQueue + Cardinality(Threads)

\* The lock is kept for ever by whoever reaches the threshold.
ThresholdLocks == lock = Nobody => \A i \in Ids : greylist[i].count < MAX_INVALID

BansEnd == \A i \in Ids : blacklist[i] <= clock + DECAY

IInv ==
  /\ TypeOK
  /\ QueueKeepsAdmitted
  /\ QueueIsBounded
  /\ AdmittedAreBounded
  /\ ThresholdLocks
  /\ BansEnd

\* The constants are natural numbers.
LEMMA Numbers ==
  /\ MAX_REQUESTS \in Nat /\ WINDOW \in Nat /\ DECAY \in Nat /\ QUARANTINE \in Nat
  /\ MaxTime \in Nat /\ MAX_INVALID \in Nat \ {0} /\ MaxQueue \in Nat \ {0}
  /\ Cardinality(Threads) \in Nat
  BY ImmuneAssumption, FS_CardinalityType

\* The times are finitely many.
LEMMA TimesAreFinite ==
  ASSUME NEW S, S \subseteq Times
  PROVE  IsFiniteSet(S)
  <1>1. IsFiniteSet(Times)
    BY Numbers, FS_Interval DEF Times
  <1> QED
    BY <1>1, FS_Subset

-----------------------------------------------------------------------------
(* Deques.                                                                 *)

\* A queue has finitely many places.
LEMMA PlacesAreFinite ==
  ASSUME NEW q \in Seq(Times)
  PROVE  /\ IsFiniteSet(Places(q)) /\ Cardinality(Places(q)) = Len(q)
         /\ \A n : IsFiniteSet(Fibre(q, Places(q), n)) /\ Entries(q, n) \in Nat
  <1>1. Len(q) \in Nat
    BY LenProperties
  <1>2. IsFiniteSet(Places(q)) /\ Cardinality(Places(q)) = Len(q)
    <2>1. IsFiniteSet(1 .. Len(q))
      BY ONLY <1>1, FS_Interval
    <2>2. Cardinality(1 .. Len(q)) = (IF 1 > Len(q) THEN 0 ELSE Len(q) - 1 + 1)
      BY <1>1, FS_Interval
    <2> QED
      BY <1>1, <2>1, <2>2 DEF Places
  <1>3. ASSUME NEW n
        PROVE  IsFiniteSet(Fibre(q, Places(q), n)) /\ Entries(q, n) \in Nat
    <2>1. Fibre(q, Places(q), n) \in SUBSET Places(q)
      BY DEF Fibre
    <2> QED
      BY <1>2, <2>1, FS_Subset, FS_CardinalityType DEF Entries
  <1> QED
    BY <1>2, <1>3

\* Only entries up to the cutoff are removed.
LEMMA PopExpiredKeeps ==
  ASSUME NEW q \in Seq(Times), NEW cutoff \in Int
  PROVE  /\ PopExpired(q, cutoff) \in Seq(Times)
         /\ Len(PopExpired(q, cutoff)) <= Len(q)
         /\ \A n \in Times : n > cutoff => Entries(q, n) <= Entries(PopExpired(q, cutoff), n)
  <1> DEFINE p == PopExpired(q, cutoff)
             kept == {k \in 1 .. Len(q) : q[k] > cutoff}
  <1>1. Len(q) \in Nat /\ \A k \in 1 .. Len(q) : q[k] \in Times
    BY LenProperties, ElementOfSeq
  <1>2. CASE kept = {}
    <2>1. p = <<>>
      BY <1>2 DEF PopExpired
    <2>2. p \in Seq(Times) /\ Len(p) = 0
      BY <2>1, EmptySeq
    <2>3. ASSUME NEW n \in Times, n > cutoff
          PROVE  Entries(q, n) <= Entries(p, n)
      <3>1. Fibre(q, Places(q), n) = {}
        BY <1>2, <2>3 DEF Fibre, Places
      <3>2. Entries(q, n) = 0
        BY <3>1, FS_EmptySet DEF Entries
      <3>3. Entries(p, n) \in Nat
        BY <2>2, PlacesAreFinite
      <3> QED
        BY <3>2, <3>3
    <2> QED
      BY <1>1, <2>2, <2>3
  <1>3. CASE kept # {}
    <2> DEFINE m == CHOOSE k \in kept : \A l \in kept : k <= l
    <2>1. \E k \in kept : \A l \in kept : k <= l
      <3>1. kept \subseteq Nat
        OBVIOUS
      <3> HIDE DEF kept
      <3> QED
        BY <1>3, <3>1, LeastNumber
    <2>2. m \in kept /\ \A l \in kept : m <= l
      <3> HIDE DEF kept
      <3> QED
        BY <2>1
    <2>3. p = SubSeq(q, m, Len(q))
      BY <1>3 DEF PopExpired
    <2>4. m \in 1 .. Len(q)
      BY <2>2
    <2> HIDE DEF m, p
    <2>5. /\ p \in Seq(Times)
          /\ Len(p) = Len(q) - m + 1
          /\ \A k \in 1 .. Len(q) - m + 1 : p[k] = q[m + k - 1]
      <3>1. m \in Int /\ Len(q) \in Int /\ m <= Len(q) /\ \A k \in m .. Len(q) : q[k] \in Times
        BY <1>1, <2>4
      <3> QED
        BY <2>3, <3>1, SubSeqProperties
    <2>6. ASSUME NEW n \in Times, n > cutoff
          PROVE  Entries(q, n) <= Entries(p, n)
      <3> DEFINE S == Fibre(q, Places(q), n)
                 T == Fibre(p, Places(p), n)
                 shift == [k \in S |-> k - m + 1]
      <3>1. \A k \in S : k \in m .. Len(q) /\ q[k] = n
        BY <1>1, <2>2, <2>6 DEF Fibre, Places
      <3>2. \A k \in S : k - m + 1 \in T
        <4> TAKE k \in S
        <4>1. k - m + 1 \in 1 .. Len(q) - m + 1 /\ m + (k - m + 1) - 1 = k
          BY <1>1, <2>4, <3>1
        <4>2. p[k - m + 1] = n
          BY <2>5, <3>1, <4>1
        <4> QED
          BY <2>5, <4>1, <4>2 DEF Fibre, Places
      <3>3. \A k \in S : k \in Int
        BY <1>1, <3>1
      <3> HIDE DEF S, T
      <3>4. shift \in Injection(S, T)
        BY <2>4, <3>2, <3>3 DEF Injection, IsInjective
      <3>5. IsFiniteSet(T)
        BY <2>5, PlacesAreFinite DEF T
      <3>6. Cardinality(S) <= Cardinality(T)
        <4> HIDE DEF shift
        <4> QED
          BY <3>4, <3>5, FS_Injection
      <3> QED
        BY <3>6 DEF Entries, S, T
    <2>7. Len(p) <= Len(q)
      BY <1>1, <2>4, <2>5
    <2> QED
      BY <2>5, <2>6, <2>7 DEF p
  <1> QED
    BY <1>2, <1>3

\* One entry more.
LEMMA AppendAddsEntry ==
  ASSUME NEW q \in Seq(Times), NEW now \in Times
  PROVE  /\ Append(q, now) \in Seq(Times) /\ Len(Append(q, now)) = Len(q) + 1
         /\ Entries(Append(q, now), now) = Entries(q, now) + 1
         /\ \A n \in Times : n # now => Entries(Append(q, now), n) = Entries(q, n)
  <1> DEFINE r == Append(q, now)
             last == Len(q) + 1
  <1>1. /\ r \in Seq(Times) /\ Len(r) = last /\ r[last] = now
        /\ \A k \in 1 .. Len(q) : r[k] = q[k]
    BY AppendProperties
  <1>2. Len(q) \in Nat
    BY LenProperties
  <1> HIDE DEF r
  <1>3. Places(r) = Places(q) \union {last} /\ last \notin Places(q)
    BY <1>1, <1>2 DEF Places
  <1>4. \A k \in Places(q) : r[k] = q[k]
    BY <1>1 DEF Places
  <1> HIDE DEF last
  <1>5. Entries(r, now) = Entries(q, now) + 1
    <2> DEFINE S == Fibre(q, Places(q), now)
    <2>1. Fibre(r, Places(r), now) = S \union {last} /\ last \notin S
      BY <1>1, <1>3, <1>4 DEF Fibre
    <2>2. IsFiniteSet(S)
      BY PlacesAreFinite
    <2> HIDE DEF S
    <2>3. Cardinality(S \union {last}) = Cardinality(S) + 1
      BY <2>1, <2>2, FS_AddElement
    <2> QED
      BY <2>1, <2>3 DEF Entries, S
  <1>6. ASSUME NEW n \in Times, n # now
        PROVE  Entries(r, n) = Entries(q, n)
    <2>1. Fibre(r, Places(r), n) = Fibre(q, Places(q), n)
      BY <1>1, <1>3, <1>4, <1>6 DEF Fibre
    <2> QED
      BY <2>1 DEF Entries
  <1> QED
    BY <1>1, <1>5, <1>6 DEF r, last

\* However many times are looked at, the entries are no more than the deque is long.
LEMMA EntriesAddUp ==
  ASSUME NEW q \in Seq(Times), NEW f, NEW S, S \subseteq Times,
         \A n \in S : f[n] \in Nat /\ f[n] <= Entries(q, n)
  PROVE  SumOver(f, S) \in Nat /\ SumOver(f, S) <= Len(q)
  <1> DEFINE size == [n \in S |-> Cardinality(Fibre(q, Places(q), n))]
  <1>1. IsFiniteSet(S) /\ IsFiniteSet(Places(q)) /\ Cardinality(Places(q)) = Len(q) /\ Len(q) \in Nat
    BY TimesAreFinite, PlacesAreFinite, LenProperties
  <1>2. SumOver(size, S) <= Len(q)
    BY <1>1, FibresAddUp
  <1>3. \A n \in S : size[n] \in Nat /\ f[n] <= size[n]
    BY PlacesAreFinite DEF Entries
  <1> HIDE DEF size
  <1>4. SumOver(f, S) \in Nat /\ SumOver(size, S) \in Nat
    BY <1>1, <1>3, SumIsNatural
  <1>5. SumOver(f, S) <= SumOver(size, S)
    BY <1>1, <1>3, SumsGrow
  <1> QED
    BY <1>1, <1>2, <1>4, <1>5

-----------------------------------------------------------------------------
(* The initial states, and steps that leave most of the state alone.       *)

\* No client is queued, suspected or banned initially.
LEMMA InitInvariant == Init => IInv
  <1> SUFFICES ASSUME Init PROVE IInv
    OBVIOUS
  <1>1. \A i \in Ids : Len(rate_limits[i]) = 0 /\ rate_limits[i] \in Seq(Times)
    BY EmptySeq DEF Init
  <1>2. \A i \in Ids : Counting(i) = {}
    BY DEF Init, Counting
  <1>3. QueueIsBounded
    <2> SUFFICES ASSUME NEW i \in Ids
                 PROVE  Len(rate_limits[i]) + Cardinality(Counting(i)) < MaxQueue + Cardinality(Threads)
      BY DEF QueueIsBounded
    <2>1. Len(rate_limits[i]) = 0 /\ Cardinality(Counting(i)) = 0
      BY <1>1, <1>2, FS_EmptySet
    <2> QED
      BY <2>1, Numbers
  <1>4. TypeOK
    <2>1. \A i \in Ids : Len(rate_limits[i]) < MaxQueue + Cardinality(Threads)
      BY <1>1, Numbers
    <2>2. 0 \in Times /\ 0 \in 0 .. MaxTime + DECAY /\ 0 \in 0 .. MAX_INVALID
      BY Numbers DEF Times
    <2> QED
      BY <1>1, <2>1, <2>2 DEF Init, TypeOK, StartCleaner, NoAttempts
  <1>5. QueueKeepsAdmitted
    <2> SUFFICES ASSUME NEW i \in Ids, NEW n \in Times
                 PROVE  admitted[i][n] <= Entries(rate_limits[i], n)
      BY DEF QueueKeepsAdmitted
    <2>1. admitted[i][n] = 0 /\ Entries(rate_limits[i], n) \in Nat
      BY <1>1, PlacesAreFinite DEF Init
    <2> QED
      BY <2>1
  <1>6. AdmittedAreBounded
    <2> SUFFICES ASSUME NEW i \in Ids
                 PROVE  SumOver(admitted[i], {n \in Times : n > clock - WINDOW}) <= MAX_REQUESTS
      BY DEF AdmittedAreBounded
    <2> DEFINE S == {n \in Times : n > clock - WINDOW}
    <2>1. S \subseteq Times /\ \A n \in S : admitted[i][n] = 0
      BY DEF Init
    <2> HIDE DEF S
    <2>2. \A n \in S : admitted[i][n] \in Nat /\ admitted[i][n] <= Entries(rate_limits[i], n)
      BY <1>1, <2>1, PlacesAreFinite
    <2>3. SumOver(admitted[i], S) \in Nat /\ SumOver(admitted[i], S) <= Len(rate_limits[i])
      BY <1>1, <2>1, <2>2, EntriesAddUp
    <2>4. SumOver(admitted[i], S) <= MAX_REQUESTS
      BY <1>1, <2>3, Numbers
    <2> QED
      BY <2>4 DEF S
  <1>7. ThresholdLocks /\ BansEnd
    BY Numbers DEF Init, ThresholdLocks, BansEnd, NoAttempts
  <1> QED
    BY <1>3, <1>4, <1>5, <1>6, <1>7 DEF IInv

\* Steps that leave the deques, their history and the clock alone.
LEMMA QueuesAlone ==
  ASSUME IInv, UNCHANGED <<clock, rate_limits, admitted>>
  PROVE  QueueKeepsAdmitted' /\ AdmittedAreBounded'
  BY DEF IInv, QueueKeepsAdmitted, AdmittedAreBounded

\* Steps after which no other thread is about to count a request.
LEMMA FewerCounting ==
  ASSUME IInv, UNCHANGED rate_limits, \A i \in Ids : Counting(i)' \subseteq Counting(i)
  PROVE  QueueIsBounded'
  <1> SUFFICES ASSUME NEW i \in Ids
               PROVE  Len(rate_limits[i]) + Cardinality(Counting(i)') < MaxQueue + Cardinality(Threads)
    BY DEF QueueIsBounded
  <1>1. Counting(i) \in SUBSET Threads /\ Counting(i)' \in SUBSET Counting(i)
    BY DEF Counting
  <1>2. IsFiniteSet(Counting(i)) /\ IsFiniteSet(Counting(i)')
    BY <1>1, ImmuneAssumption, FS_Subset
  <1>3. /\ Cardinality(Counting(i)) \in Nat /\ Cardinality(Counting(i)') \in Nat
        /\ Cardinality(Counting(i)') <= Cardinality(Counting(i))
    BY <1>1, <1>2, FS_Subset, FS_CardinalityType
  <1>4. Len(rate_limits[i]) \in Nat
    BY LenProperties DEF IInv, TypeOK
  <1>5. Len(rate_limits[i]) + Cardinality(Counting(i)) < MaxQueue + Cardinality(Threads)
    BY DEF IInv, QueueIsBounded
  <1> QED
    BY <1>3, <1>4, <1>5, Numbers

\* The clock moves on: fewer admissions lie in the window.
LEMMA TickStep ==
  ASSUME IInv, Tick
  PROVE  IInv'
  <1> DEFINE later == clock + 1
  <1>1. /\ clock' = later /\ later \in Times /\ clock \in Times
        /\ UNCHANGED <<cleaning, lock, pc, client, since, blacklist, greylist, rate_limits, admitted>>
    BY Numbers DEF IInv, TypeOK, Tick, Times
  <1>2. TypeOK'
    <2>1. /\ ends' = [i \in Ids |-> IF ends[i] > clock + 1 THEN ends[i] ELSE 0]
          /\ waited' = [i \in Ids |-> IF ends[i] > clock + 1 THEN waited[i] ELSE 0]
      BY DEF Tick
    <2>2. 0 \in 0 .. MaxTime + DECAY /\ 0 \in Times
      BY Numbers DEF Times
    <2>3. ends' \in [Ids -> 0 .. MaxTime + DECAY] /\ waited' \in [Ids -> Times]
      BY <2>1, <2>2 DEF IInv, TypeOK
    <2> QED
      BY <1>1, <2>3 DEF IInv, TypeOK
  <1>3. \A n \in Times : n > later - WINDOW => n > clock - WINDOW
    BY <1>1, Numbers DEF Times
  <1> HIDE DEF later
  <1>4. QueueKeepsAdmitted'
    BY <1>1, <1>3 DEF IInv, QueueKeepsAdmitted
  <1>5. QueueIsBounded'
    BY <1>1, FewerCounting DEF Counting
  <1>6. AdmittedAreBounded'
    <2> SUFFICES ASSUME NEW i \in Ids
                 PROVE  SumOver(admitted[i], {n \in Times : n > later - WINDOW}) <= MAX_REQUESTS
      BY <1>1 DEF AdmittedAreBounded
    <2> DEFINE S == {n \in Times : n > later - WINDOW}
               T == {n \in Times : n > clock - WINDOW}
    <2>1. S \subseteq T /\ T \subseteq Times
      BY <1>3
    <2>2. \A n \in T : admitted[i][n] \in Nat /\ admitted[i][n] <= admitted[i][n]
      BY DEF IInv, TypeOK
    <2>3. SumOver(admitted[i], T) <= MAX_REQUESTS
      BY DEF IInv, AdmittedAreBounded
    <2> HIDE DEF S, T
    <2>4. IsFiniteSet(S) /\ IsFiniteSet(T) /\ \A n \in S : admitted[i][n] \in Nat
      BY <2>1, <2>2, TimesAreFinite
    <2>5. SumOver(admitted[i], S) \in Nat /\ SumOver(admitted[i], T) \in Nat
      BY <2>2, <2>4, SumIsNatural
    <2>6. SumOver(admitted[i], S) <= SumOver(admitted[i], T)
      BY <2>1, <2>2, <2>4, SumsGrow
    <2>7. SumOver(admitted[i], S) <= MAX_REQUESTS
      BY <2>3, <2>5, <2>6, Numbers
    <2> QED
      BY <2>7 DEF S
  <1>7. ThresholdLocks'
    BY <1>1 DEF IInv, ThresholdLocks
  <1>8. BansEnd'
    <2> SUFFICES ASSUME NEW i \in Ids PROVE blacklist[i] <= later + DECAY
      BY <1>1 DEF BansEnd
    <2>1. blacklist[i] <= clock + DECAY /\ blacklist[i] \in 0 .. MaxTime + DECAY
      BY DEF IInv, TypeOK, BansEnd
    <2> QED
      BY <1>1, <2>1, Numbers DEF later, Times
  <1> QED
    BY <1>2, <1>4, <1>5, <1>6, <1>7, <1>8 DEF IInv

\* What Goto leaves of the types.
LEMMA GotoTypes ==
  ASSUME TypeOK, NEW t \in Threads, Goto(t, "idle") \/ Goto(t, "limiting") \/ Goto(t, "counting")
           \/ Goto(t, "banning") \/ Goto(t, "checking") \/ Goto(t, "reporting")
  PROVE  /\ pc' \in [Threads -> {"idle", "checking", "reporting", "limiting", "counting", "banning"}]
         /\ since' \in [Threads \union {Cleaner} -> Times]
  <1>1. 0 \in Times
    BY Numbers DEF Times
  <1> QED
    <2> DEFINE labels == {"idle", "checking", "reporting", "limiting", "counting", "banning"}
    <2>1. PICK label \in labels : Goto(t, label)
      OBVIOUS
    <2>2. (IF label = "idle" THEN 0 ELSE clock) \in Times
      BY <1>1 DEF TypeOK
    <2>3. pc \in [Threads -> labels] /\ since \in [Threads \union {Cleaner} -> Times]
      BY DEF TypeOK
    <2> HIDE DEF labels
    <2>4. pc' \in [Threads -> labels] /\ since' \in [Threads \union {Cleaner} -> Times]
      BY <2>1, <2>2, <2>3 DEF Goto
    <2> QED
      BY <2>4 DEF labels

\* The time a critical section works with.
LEMMA NowsArePast ==
  ASSUME TypeOK, NEW t \in Threads \union {Cleaner}, NEW now \in Nows(t)
  PROVE  now \in Times /\ now \in Nat /\ now <= clock /\ clock \in Times /\ clock \in Nat
  BY Numbers DEF TypeOK, Nows, Times

\* A request that starts has touched nothing.
LEMMA StartStep ==
  ASSUME IInv, NEW t \in Threads, NEW r \in Clients,
         NEW label \in {"checking", "reporting", "banning"}, Start(t, r, label)
  PROVE  IInv'
  <1> DEFINE id == Identifier(r)
  <1>1. /\ pc[t] = "idle" /\ client' = [client EXCEPT ![t] = id] /\ Goto(t, label)
        /\ label = "checking" => Len(rate_limits[id]) < MaxQueue
        /\ UNCHANGED <<clock, cleaning, lock, blacklist, greylist, rate_limits, admitted, ends, waited>>
    BY DEF Start
  <1>2. id \in Ids
    BY DEF Ids
  <1> HIDE DEF id
  <1>3. TypeOK'
    BY <1>1, <1>2, GotoTypes DEF IInv, TypeOK
  <1>4. QueueIsBounded'
    <2> SUFFICES ASSUME NEW i \in Ids
                 PROVE  Len(rate_limits[i]) + Cardinality(Counting(i)') < MaxQueue + Cardinality(Threads)
      BY <1>1 DEF QueueIsBounded
    <2>1. Len(rate_limits[i]) \in Nat
      BY LenProperties DEF IInv, TypeOK
    <2>2. CASE label = "checking" /\ i = id
      <3>1. Counting(i)' \in SUBSET Threads
        BY DEF Counting
      <3>2. Cardinality(Counting(i)') \in Nat /\ Cardinality(Counting(i)') <= Cardinality(Threads)
        BY <3>1, ImmuneAssumption, FS_Subset, FS_CardinalityType
      <3> QED
        BY <1>1, <2>1, <2>2, <3>2, Numbers
    <2>3. CASE ~ (label = "checking" /\ i = id)
      <3>1. Counting(i)' \subseteq Counting(i)
        BY <1>1, <2>3 DEF IInv, TypeOK, Goto, Counting
      <3>2. Counting(i) \in SUBSET Threads
        BY DEF Counting
      <3>3. IsFiniteSet(Counting(i))
        BY <3>2, ImmuneAssumption, FS_Subset
      <3>4. /\ Cardinality(Counting(i)) \in Nat /\ Cardinality(Counting(i)') \in Nat
            /\ Cardinality(Counting(i)') <= Cardinality(Counting(i))
        BY <3>1, <3>3, FS_Subset, FS_CardinalityType
      <3>5. Len(rate_limits[i]) + Cardinality(Counting(i)) < MaxQueue + Cardinality(Threads)
        BY DEF IInv, QueueIsBounded
      <3> QED
        BY <2>1, <3>4, <3>5, Numbers
    <2> QED
      BY <2>2, <2>3
  <1>5. QueueKeepsAdmitted' /\ AdmittedAreBounded'
    BY <1>1, QueuesAlone
  <1>6. ThresholdLocks' /\ BansEnd'
    BY <1>1 DEF IInv, ThresholdLocks, BansEnd
  <1> QED
    BY <1>3, <1>4, <1>5, <1>6 DEF IInv

\* A thread leaves is_blacklisted, or sets a ban.
LEMMA ListedStep ==
  ASSUME IInv, NEW t \in Threads, Listed(t)
  PROVE  IInv'
  <1>1. /\ Goto(t, "idle")
        /\ UNCHANGED <<clock, cleaning, lock, client, blacklist, greylist, rate_limits, admitted, ends, waited>>
    BY DEF Listed
  <1>2. TypeOK'
    BY <1>1, GotoTypes DEF IInv, TypeOK
  <1>3. QueueIsBounded'
    <2>1. \A i \in Ids : Counting(i)' \subseteq Counting(i)
      BY <1>1 DEF IInv, TypeOK, Goto, Counting
    <2> QED
      BY <1>1, <2>1, FewerCounting
  <1>4. QueueKeepsAdmitted' /\ AdmittedAreBounded'
    BY <1>1, QueuesAlone
  <1>5. ThresholdLocks' /\ BansEnd'
    BY <1>1 DEF IInv, ThresholdLocks, BansEnd
  <1> QED
    BY <1>2, <1>3, <1>4, <1>5 DEF IInv

\* A check that finds no ban, or an expired one, lifts no ban that is still
\* running.
LEMMA NotListedStep ==
  ASSUME IInv, NEW t \in Threads, NotListed(t)
  PROVE  IInv'
  <1>1. /\ pc[t] \in {"checking", "reporting"}
        /\ Goto(t, IF pc[t] = "checking" THEN "limiting" ELSE "counting")
        /\ blacklist' = [blacklist EXCEPT ![client[t]] = 0]
        /\ UNCHANGED <<clock, cleaning, lock, client, greylist, rate_limits, admitted, ends, waited>>
    BY DEF NotListed
  <1>2. \/ pc[t] = "checking" /\ Goto(t, "limiting")
        \/ pc[t] = "reporting" /\ Goto(t, "counting")
    <2>1. CASE pc[t] = "checking"
      BY <1>1, <2>1 DEF Goto
    <2>2. CASE pc[t] = "reporting"
      BY <1>1, <2>2 DEF Goto
    <2> QED
      BY <1>1, <2>1, <2>2
  <1>3. client[t] \in Ids
    BY DEF IInv, TypeOK
  <1>4. TypeOK'
    <2>1. 0 \in 0 .. MaxTime + DECAY
      BY Numbers
    <2> QED
      BY <1>1, <1>2, <1>3, <2>1, GotoTypes DEF IInv, TypeOK
  <1>5. QueueIsBounded'
    <2>1. \A i \in Ids : Counting(i)' \subseteq Counting(i)
      BY <1>1, <1>2 DEF IInv, TypeOK, Goto, Counting
    <2> QED
      BY <1>1, <2>1, FewerCounting
  <1>6. QueueKeepsAdmitted' /\ AdmittedAreBounded'
    BY <1>1, QueuesAlone
  <1>7. ThresholdLocks'
    BY <1>1 DEF IInv, ThresholdLocks
  <1>8. BansEnd'
    <2>1. clock + DECAY \in Nat
      BY Numbers DEF IInv, TypeOK, Times
    <2>2. 0 <= clock + DECAY
      BY <2>1
    <2>3. \A i \in Ids : blacklist'[i] = 0 \/ blacklist'[i] = blacklist[i]
      BY <1>1 DEF IInv, TypeOK
    <2> QED
      BY <1>1, <2>2, <2>3 DEF IInv, BansEnd
  <1> QED
    BY <1>4, <1>5, <1>6, <1>7, <1>8 DEF IInv

\* What add_to_blacklist writes if it has read time now.
BanSet(t, now) ==
  LET i == client[t]
      latest == Later(ends[i], now + DECAY)
  IN
    /\ blacklist' = [blacklist EXCEPT ![i] = now + DECAY]
    /\ ends' = [ends EXCEPT ![i] = IF latest > clock THEN latest ELSE 0]
    /\ waited' = [waited EXCEPT ![i] = IF latest > clock THEN Later(@, clock - since[t]) ELSE 0]

\* What it records of the ban is a time.
LEMMA BanTypes ==
  ASSUME TypeOK, NEW t \in Threads, NEW now \in Nows(t), BanSet(t, now)
  PROVE  ends' \in [Ids -> 0 .. MaxTime + DECAY] /\ waited' \in [Ids -> Times]
  <1> DEFINE i == client[t]
             latest == Later(ends[i], now + DECAY)
             wait == Later(waited[i], clock - since[t])
  <1>1. now \in Times /\ clock \in Times /\ now <= clock
    BY NowsArePast
  <1>2. /\ i \in Ids /\ ends[i] \in 0 .. MaxTime + DECAY /\ waited[i] \in Times
        /\ since[t] \in Times /\ since[t] <= now
    BY DEF TypeOK, Nows
  <1>3. latest \in 0 .. MaxTime + DECAY /\ 0 \in 0 .. MaxTime + DECAY
    BY <1>1, <1>2, Numbers DEF Later, Times
  <1>4. wait \in Times /\ 0 \in Times
    BY <1>1, <1>2, Numbers DEF Later, Times
  <1>5. /\ ends' = [ends EXCEPT ![i] = IF latest > clock THEN latest ELSE 0]
        /\ waited' = [waited EXCEPT ![i] = IF latest > clock THEN wait ELSE 0]
    BY DEF BanSet
  <1> HIDE DEF latest, wait, i
  <1> QED
    BY <1>2, <1>3, <1>4, <1>5 DEF TypeOK

\* A ban that is set ends after the clock.
LEMMA AddToBlacklistStep ==
  ASSUME IInv, NEW t \in Threads, AddToBlacklist(t)
  PROVE  IInv'
  <1>1. /\ Goto(t, "idle")
        /\ UNCHANGED <<clock, cleaning, lock, client, greylist, rate_limits, admitted>>
    BY DEF AddToBlacklist
  <1>2. PICK now \in Nows(t) : BanSet(t, now)
    BY DEF AddToBlacklist, BanSet
  <1>3. client[t] \in Ids /\ now + DECAY \in 0 .. MaxTime + DECAY /\ now + DECAY <= clock + DECAY
    <2>1. now \in Times /\ now \in Nat /\ now <= clock /\ clock \in Nat
      BY NowsArePast DEF IInv
    <2>2. client[t] \in Ids
      BY DEF IInv, TypeOK
    <2> QED
      BY <2>1, <2>2, Numbers DEF Times
  <1>4. TypeOK'
    <2>1. blacklist' \in [Ids -> 0 .. MaxTime + DECAY]
      BY <1>2, <1>3 DEF BanSet, IInv, TypeOK
    <2>2. ends' \in [Ids -> 0 .. MaxTime + DECAY] /\ waited' \in [Ids -> Times]
      BY <1>2, BanTypes DEF IInv
    <2> QED
      BY <1>1, <2>1, <2>2, GotoTypes DEF IInv, TypeOK
  <1>5. QueueIsBounded'
    <2>1. \A i \in Ids : Counting(i)' \subseteq Counting(i)
      BY <1>1 DEF IInv, TypeOK, Goto, Counting
    <2> QED
      BY <1>1, <2>1, FewerCounting
  <1>6. QueueKeepsAdmitted' /\ AdmittedAreBounded'
    BY <1>1, QueuesAlone
  <1>7. ThresholdLocks' /\ BansEnd'
    BY <1>1, <1>2, <1>3 DEF BanSet, IInv, TypeOK, ThresholdLocks, BansEnd
  <1> QED
    BY <1>4, <1>5, <1>6, <1>7 DEF IInv

\* The attempt that reaches the threshold takes the lock and keeps it.
LEMMA RecordAttemptStep ==
  ASSUME IInv, NEW t \in Threads, RecordAttempt(t)
  PROVE  IInv'
  <1> DEFINE i == client[t]
             reached == greylist[i].count + 1 >= MAX_INVALID
  <1>1. /\ pc[t] = "counting" /\ lock = Nobody
        /\ greylist' = [greylist EXCEPT ![i] = [count |-> greylist[i].count + 1, last_seen |-> clock]]
        /\ lock' = IF reached THEN t ELSE Nobody
        /\ Goto(t, IF reached THEN "banning" ELSE "idle")
        /\ UNCHANGED <<clock, cleaning, client, blacklist, rate_limits, admitted, ends, waited>>
    BY DEF RecordAttempt, IInv, TypeOK
  <1>2. /\ i \in Ids /\ greylist[i].count \in 0 .. MAX_INVALID /\ greylist[i].count < MAX_INVALID
        /\ clock \in Times
    BY <1>1 DEF IInv, TypeOK, ThresholdLocks
  <1>3. greylist[i].count + 1 \in 0 .. MAX_INVALID /\ (~ reached => greylist[i].count + 1 < MAX_INVALID)
    BY <1>2, Numbers
  <1> HIDE DEF reached, i
  <1>4. Goto(t, "banning") \/ Goto(t, "idle")
    BY <1>1
  <1>5. TypeOK'
    BY <1>1, <1>2, <1>3, <1>4, GotoTypes DEF IInv, TypeOK
  <1>6. QueueIsBounded'
    <2>1. \A j \in Ids : Counting(j)' \subseteq Counting(j)
      BY <1>1, <1>4 DEF IInv, TypeOK, Goto, Counting
    <2> QED
      BY <1>1, <2>1, FewerCounting
  <1>7. QueueKeepsAdmitted' /\ AdmittedAreBounded'
    BY <1>1, QueuesAlone
  <1>8. ThresholdLocks'
    <2> SUFFICES ASSUME lock' = Nobody, NEW j \in Ids PROVE greylist'[j].count < MAX_INVALID
      BY DEF ThresholdLocks
    <2>1. ~ reached
      BY <1>1, ImmuneAssumption
    <2> QED
      BY <1>1, <1>2, <1>3, <2>1 DEF IInv, TypeOK, ThresholdLocks
  <1>9. BansEnd'
    BY <1>1 DEF IInv, BansEnd
  <1> QED
    BY <1>5, <1>6, <1>7, <1>8, <1>9 DEF IInv

-----------------------------------------------------------------------------
(* The counting of a request, and the cleaner.                             *)

\* A deque whose head is pruned at a time that has passed keeps what it must.
LEMMA PruningKeeps ==
  ASSUME IInv, NEW t \in Threads \union {Cleaner}, NEW now \in Nows(t), NEW i \in Ids
  PROVE  LET fresh == PopExpired(rate_limits[i], now - WINDOW) IN
           /\ fresh \in Seq(Times)
           /\ Len(fresh) \in Nat /\ Len(fresh) <= Len(rate_limits[i])
           /\ \A n \in Times :
                n > clock - WINDOW => admitted[i][n] <= Entries(fresh, n) /\ Entries(fresh, n) \in Nat
  <1> DEFINE fresh == PopExpired(rate_limits[i], now - WINDOW)
  <1>1. now \in Times /\ now <= clock /\ clock \in Times
    BY NowsArePast DEF IInv
  <1>2. now - WINDOW \in Int /\ \A n \in Times : n > clock - WINDOW => n > now - WINDOW
    BY <1>1, Numbers DEF Times
  <1>3. rate_limits[i] \in Seq(Times)
    BY DEF IInv, TypeOK
  <1>4. /\ fresh \in Seq(Times)
        /\ Len(fresh) <= Len(rate_limits[i])
        /\ \A n \in Times : n > now - WINDOW => Entries(rate_limits[i], n) <= Entries(fresh, n)
    BY <1>2, <1>3, PopExpiredKeeps
  <1> HIDE DEF fresh
  <1>5. Len(fresh) \in Nat
    BY <1>4, LenProperties
  <1>6. ASSUME NEW n \in Times, n > clock - WINDOW
        PROVE  admitted[i][n] <= Entries(fresh, n) /\ Entries(fresh, n) \in Nat
    <2>1. Entries(rate_limits[i], n) \in Nat /\ Entries(fresh, n) \in Nat
      BY <1>3, <1>4, PlacesAreFinite
    <2>2. admitted[i][n] <= Entries(rate_limits[i], n)
      BY <1>6 DEF IInv, QueueKeepsAdmitted
    <2>3. Entries(rate_limits[i], n) <= Entries(fresh, n)
      BY <1>2, <1>4, <1>6
    <2>4. admitted[i][n] \in Nat
      BY DEF IInv, TypeOK
    <2> QED
      BY <2>1, <2>2, <2>3, <2>4
  <1> QED
    BY <1>4, <1>5, <1>6 DEF fresh

\* Requests let through are among the first MAX_REQUESTS entries of a deque.
LEMMA CountRequestStep ==
  ASSUME IInv, NEW t \in Threads, CountRequest(t)
  PROVE  IInv'
  <1> DEFINE i == client[t]
  <1>1. PICK now \in Nows(t) :
          LET queue == Append(PopExpired(rate_limits[i], now - WINDOW), now) IN
            /\ rate_limits' = [rate_limits EXCEPT ![i] = queue]
            /\ admitted' = [admitted EXCEPT ![i][now] = @ + (IF Len(queue) <= MAX_REQUESTS THEN 1 ELSE 0)]
    BY DEF CountRequest
  <1> DEFINE fresh == PopExpired(rate_limits[i], now - WINDOW)
             queue == Append(fresh, now)
             more == IF Len(queue) <= MAX_REQUESTS THEN 1 ELSE 0
  <1>2. /\ pc[t] = "limiting" /\ Goto(t, "idle")
        /\ UNCHANGED <<clock, cleaning, lock, client, blacklist, greylist, ends, waited>>
    BY DEF CountRequest
  <1>3. i \in Ids /\ now \in Times /\ now <= clock /\ clock \in Times /\ t \in Threads \union {Cleaner}
    BY NowsArePast DEF IInv, TypeOK
  <1>4. /\ fresh \in Seq(Times)
        /\ Len(fresh) \in Nat /\ Len(fresh) <= Len(rate_limits[i])
        /\ \A n \in Times :
             n > clock - WINDOW => admitted[i][n] <= Entries(fresh, n) /\ Entries(fresh, n) \in Nat
    BY <1>3, PruningKeeps
  <1>5. /\ rate_limits' = [rate_limits EXCEPT ![i] = queue]
        /\ admitted' = [admitted EXCEPT ![i][now] = @ + more]
    BY <1>1
  <1> HIDE DEF fresh, i
  <1>6. /\ queue \in Seq(Times) /\ Len(queue) = Len(fresh) + 1
        /\ Entries(queue, now) = Entries(fresh, now) + 1
        /\ \A n \in Times : n # now => Entries(queue, n) = Entries(fresh, n)
    BY <1>3, <1>4, AppendAddsEntry
  <1>7. more \in {0, 1} /\ (more = 1 => Len(queue) <= MAX_REQUESTS)
    OBVIOUS
  <1> HIDE DEF queue, more
  <1>8. \A j \in Ids : \A n \in Times :
          admitted'[j][n] = IF j = i /\ n = now THEN admitted[j][n] + more ELSE admitted[j][n]
    BY <1>3, <1>5 DEF IInv, TypeOK
  <1>9. admitted' \in [Ids -> [Times -> Nat]] /\ \A j \in Ids : \A n \in Times : admitted[j][n] \in Nat
    <2>1. admitted[i][now] \in Nat
      BY <1>3 DEF IInv, TypeOK
    <2>2. admitted[i][now] + more \in Nat
      BY <1>7, <2>1
    <2> QED
      BY <1>3, <1>5, <2>2 DEF IInv, TypeOK
  <1>10. rate_limits'[i] = queue /\ \A j \in Ids : j # i => rate_limits'[j] = rate_limits[j]
    BY <1>3, <1>5 DEF IInv, TypeOK
  <1>11. QueueIsBounded'
    <2> SUFFICES ASSUME NEW j \in Ids
                 PROVE  Len(rate_limits'[j]) + Cardinality(Counting(j)') < MaxQueue + Cardinality(Threads)
      BY DEF QueueIsBounded
    <2>1. Len(rate_limits[j]) + Cardinality(Counting(j)) < MaxQueue + Cardinality(Threads)
      BY DEF IInv, QueueIsBounded
    <2>2. Counting(j) \in SUBSET Threads
      BY DEF Counting
    <2>3. IsFiniteSet(Counting(j)) /\ Cardinality(Counting(j)) \in Nat
      BY <2>2, ImmuneAssumption, FS_Subset, FS_CardinalityType
    <2>4. Len(rate_limits[j]) \in Nat
      BY LenProperties DEF IInv, TypeOK
    <2>5. CASE j = i
      <3>1. Counting(j)' = Counting(j) \ {t} /\ t \in Counting(j)
        BY <1>2, <2>5 DEF IInv, TypeOK, Goto, Counting, i
      <3>2. Cardinality(Counting(j)') = Cardinality(Counting(j)) - 1
        BY <2>3, <3>1, FS_RemoveElement
      <3>3. Len(rate_limits'[j]) \in Nat /\ Len(rate_limits'[j]) <= Len(rate_limits[j]) + 1
        BY <1>4, <1>6, <1>10, <2>4, <2>5
      <3> QED
        BY <2>1, <2>3, <2>4, <3>2, <3>3, Numbers
    <2>6. CASE j # i
      <3>1. Counting(j)' = Counting(j)
        BY <1>2, <2>6 DEF IInv, TypeOK, Goto, Counting, i
      <3> QED
        BY <1>10, <2>1, <2>6, <3>1
    <2> QED
      BY <2>5, <2>6
  <1>12. TypeOK'
    <2>1. rate_limits' \in [Ids -> Seq(Times)]
      BY <1>3, <1>5, <1>6 DEF IInv, TypeOK
    <2>2. \A j \in Ids : Len(rate_limits'[j]) < MaxQueue + Cardinality(Threads)
      <3> TAKE j \in Ids
      <3>1. Counting(j)' \in SUBSET Threads
        BY DEF Counting
      <3>2. Cardinality(Counting(j)') \in Nat
        BY <3>1, ImmuneAssumption, FS_Subset, FS_CardinalityType
      <3>3. Len(rate_limits'[j]) \in Nat
        BY <2>1, LenProperties
      <3>4. Len(rate_limits'[j]) + Cardinality(Counting(j)') < MaxQueue + Cardinality(Threads)
        BY <1>11 DEF QueueIsBounded
      <3> QED
        BY <3>2, <3>3, <3>4, Numbers
    <2> QED
      BY <1>2, <1>9, <2>1, <2>2, GotoTypes DEF IInv, TypeOK
  <1>13. \A n \in Times : n > clock - WINDOW => admitted'[i][n] <= Entries(queue, n) /\ Entries(queue, n) \in Nat
    <2> TAKE n \in Times
    <2> SUFFICES ASSUME n > clock - WINDOW
                 PROVE  admitted'[i][n] <= Entries(queue, n) /\ Entries(queue, n) \in Nat
      OBVIOUS
    <2>1. admitted[i][n] <= Entries(fresh, n) /\ Entries(fresh, n) \in Nat /\ admitted[i][n] \in Nat
      BY <1>3, <1>4, <1>9
    <2>2. CASE n = now
      BY <1>3, <1>6, <1>7, <1>8, <2>1, <2>2
    <2>3. CASE n # now
      BY <1>3, <1>6, <1>8, <2>1, <2>3
    <2> QED
      BY <2>2, <2>3
  <1>14. QueueKeepsAdmitted'
    <2> SUFFICES ASSUME NEW j \in Ids, NEW n \in Times, n > clock - WINDOW
                 PROVE  admitted'[j][n] <= Entries(rate_limits'[j], n)
      BY <1>2 DEF QueueKeepsAdmitted
    <2>1. CASE j = i
      BY <1>10, <1>13, <2>1
    <2>2. CASE j # i
      BY <1>8, <1>10, <2>2 DEF IInv, QueueKeepsAdmitted
    <2> QED
      BY <2>1, <2>2
  <1>15. AdmittedAreBounded'
    <2> SUFFICES ASSUME NEW j \in Ids
                 PROVE  SumOver(admitted'[j], {n \in Times : n > clock - WINDOW}) <= MAX_REQUESTS
      BY <1>2 DEF AdmittedAreBounded
    <2> DEFINE S == {n \in Times : n > clock - WINDOW}
    <2>1. S \subseteq Times /\ \A n \in S : n > clock - WINDOW
      OBVIOUS
    <2>2. SumOver(admitted[j], S) <= MAX_REQUESTS
      BY DEF IInv, AdmittedAreBounded
    <2> HIDE DEF S
    <2>3. CASE j = i /\ more = 1
      <3>1. \A n \in S : admitted'[i][n] \in Nat /\ admitted'[i][n] <= Entries(queue, n)
        BY <1>3, <1>9, <1>13, <2>1
      <3>2. SumOver(admitted'[i], S) \in Nat /\ SumOver(admitted'[i], S) <= Len(queue)
        BY <1>6, <2>1, <3>1, EntriesAddUp
      <3>3. SumOver(admitted'[j], S) <= MAX_REQUESTS
        BY <1>4, <1>6, <1>7, <2>3, <3>2, Numbers
      <3> QED
        BY <3>3 DEF S
    <2>4. CASE ~ (j = i /\ more = 1)
      <3>1. \A n \in S : admitted[j][n] \in Nat /\ admitted[j][n] = admitted'[j][n]
        <4> TAKE n \in S
        <4>1. admitted[j][n] \in Nat /\ admitted[j][n] + 0 = admitted[j][n]
          BY <1>9, <2>1
        <4> QED
          BY <1>7, <1>8, <2>1, <2>4, <4>1
      <3>2. SumOver(admitted[j], S) = SumOver(admitted'[j], S)
        BY <2>1, <3>1, TimesAreFinite, SumsAgree
      <3> QED
        BY <2>2, <3>2 DEF S
    <2> QED
      BY <2>3, <2>4
  <1>16. ThresholdLocks' /\ BansEnd'
    BY <1>2 DEF IInv, ThresholdLocks, BansEnd
  <1> QED
    BY <1>11, <1>12, <1>14, <1>15, <1>16 DEF IInv

\* The cleaner removes what is over at the time it has read.
LEMMA CleanStep ==
  ASSUME IInv, Clean
  PROVE  IInv'
  <1>1. PICK now \in Nows(Cleaner) :
          /\ blacklist' = BansAt(now)
          /\ greylist' = SuspectsAt(now)
          /\ rate_limits' = [i \in Ids |-> PopExpired(rate_limits[i], now - WINDOW)]
    BY DEF Clean
  <1>2. /\ since' = [since EXCEPT ![Cleaner] = clock]
        /\ UNCHANGED <<clock, cleaning, lock, pc, client, admitted, ends, waited>>
    BY DEF Clean
  <1>3. now \in Times /\ now \in Nat /\ now <= clock /\ clock \in Times
    BY NowsArePast DEF IInv
  <1>4. \A i \in Ids :
          /\ rate_limits'[i] \in Seq(Times)
          /\ Len(rate_limits'[i]) \in Nat /\ Len(rate_limits'[i]) <= Len(rate_limits[i])
          /\ \A n \in Times : n > clock - WINDOW => admitted[i][n] <= Entries(rate_limits'[i], n)
    <2> TAKE i \in Ids
    <2> DEFINE fresh == PopExpired(rate_limits[i], now - WINDOW)
    <2>1. /\ fresh \in Seq(Times)
          /\ Len(fresh) \in Nat /\ Len(fresh) <= Len(rate_limits[i])
          /\ \A n \in Times : n > clock - WINDOW => admitted[i][n] <= Entries(fresh, n)
      BY PruningKeeps
    <2>2. rate_limits'[i] = fresh
      BY <1>1
    <2> HIDE DEF fresh
    <2> QED
      BY <2>1, <2>2
  <1>5. blacklist' \in [Ids -> 0 .. MaxTime + DECAY] /\ \A i \in Ids : blacklist'[i] <= clock + DECAY
    <2>1. \A i \in Ids : blacklist'[i] = 0 \/ blacklist'[i] = blacklist[i]
      BY <1>1 DEF BansAt
    <2>2. 0 \in 0 .. MaxTime + DECAY /\ 0 <= clock + DECAY
      BY <1>3, Numbers DEF Times
    <2>3. blacklist' = [i \in Ids |-> blacklist'[i]]
      BY <1>1 DEF BansAt
    <2>4. \A i \in Ids : blacklist'[i] \in 0 .. MaxTime + DECAY /\ blacklist'[i] <= clock + DECAY
      BY <2>1, <2>2 DEF IInv, TypeOK, BansEnd
    <2> QED
      BY <2>3, <2>4
  <1>6. /\ greylist' \in [Ids -> [count : 0 .. MAX_INVALID, last_seen : Times]]
        /\ \A i \in Ids : greylist'[i].count = 0 \/ greylist'[i] = greylist[i]
    <2>1. 0 \in 0 .. MAX_INVALID /\ 0 \in Times
      BY Numbers DEF Times
    <2> QED
      BY <1>1, <2>1 DEF IInv, TypeOK, SuspectsAt, NoAttempts
  <1>7. \A i \in Ids : Len(rate_limits[i]) \in Nat
    BY LenProperties DEF IInv, TypeOK
  <1>8. TypeOK'
    <2>1. rate_limits' \in [Ids -> Seq(Times)]
      BY <1>1, <1>4
    <2>2. \A i \in Ids : Len(rate_limits'[i]) < MaxQueue + Cardinality(Threads)
      <3> TAKE i \in Ids
      <3>1. Len(rate_limits[i]) < MaxQueue + Cardinality(Threads)
        BY DEF IInv, TypeOK
      <3> QED
        BY <1>4, <1>7, <3>1, Numbers
    <2> QED
      BY <1>2, <1>3, <1>5, <1>6, <2>1, <2>2 DEF IInv, TypeOK
  <1>9. QueueKeepsAdmitted'
    BY <1>2, <1>4 DEF QueueKeepsAdmitted
  <1>10. QueueIsBounded'
    <2> SUFFICES ASSUME NEW i \in Ids
                 PROVE  Len(rate_limits'[i]) + Cardinality(Counting(i)) < MaxQueue + Cardinality(Threads)
      BY <1>2 DEF QueueIsBounded, Counting
    <2>1. Counting(i) \in SUBSET Threads
      BY DEF Counting
    <2>2. Cardinality(Counting(i)) \in Nat
      BY <2>1, ImmuneAssumption, FS_Subset, FS_CardinalityType
    <2>3. Len(rate_limits[i]) + Cardinality(Counting(i)) < MaxQueue + Cardinality(Threads)
      BY DEF IInv, QueueIsBounded
    <2> QED
      BY <1>4, <1>7, <2>2, <2>3, Numbers
  <1>11. AdmittedAreBounded'
    BY <1>2 DEF IInv, AdmittedAreBounded
  <1>12. ThresholdLocks'
    BY <1>2, <1>6, Numbers DEF IInv, ThresholdLocks
  <1>13. BansEnd'
    BY <1>2, <1>5 DEF BansEnd
  <1> QED
    BY <1>8, <1>9, <1>10, <1>11, <1>12, <1>13 DEF IInv

-----------------------------------------------------------------------------
(* The theorems.                                                           *)

\* Nothing changes.
LEMMA StutterStep == IInv /\ UNCHANGED vars => IInv'
  <1> SUFFICES ASSUME IInv, UNCHANGED vars PROVE IInv'
    OBVIOUS
  <1>1. UNCHANGED <<clock, cleaning, lock, pc, client, since, blacklist, greylist, rate_limits, admitted, ends, waited>>
    BY DEF vars
  <1>2. TypeOK'
    BY <1>1 DEF IInv, TypeOK
  <1>3. QueueIsBounded'
    BY <1>1 DEF IInv, QueueIsBounded, Counting
  <1>4. ThresholdLocks' /\ BansEnd'
    BY <1>1 DEF IInv, ThresholdLocks, BansEnd
  <1> QED
    BY <1>1, <1>2, <1>3, <1>4, QueuesAlone DEF IInv

\* The invariant is inductive.
THEOREM InvariantStep == IInv /\ [Next]_vars => IInv'
  <1> SUFFICES ASSUME IInv, [Next]_vars PROVE IInv'
    OBVIOUS
  <1>1. CASE Tick
    BY <1>1, TickStep
  <1>2. CASE Clean
    BY <1>2, CleanStep
  <1>3. ASSUME NEW t \in Threads, ThreadNext(t) PROVE IInv'
    BY <1>3, StartStep, ListedStep, NotListedStep, CountRequestStep, RecordAttemptStep,
       AddToBlacklistStep
    DEF ThreadNext
  <1>4. CASE UNCHANGED vars
    BY <1>4, StutterStep
  <1> QED
    BY <1>1, <1>2, <1>3, <1>4 DEF Next

\* The inductive invariant holds in every reachable state.
THEOREM ImmuneInvariance == Spec => []IInv
  BY InitInvariant, InvariantStep, PTL DEF Spec

\* The stores have their types: a client has at most MAX_INVALID attempts to
\* its name, and no more requests queued than threads can add to the bound.
THEOREM ImmuneTypeCorrect == Spec => []TypeOK
  BY ImmuneInvariance, PTL DEF IInv

\* In whatever order threads count the requests whose times they have read, and
\* whenever the cleaner prunes, at most MAX_REQUESTS requests of a client are
\* let through in a window (_is_rate_limited, lines 167-179).
THEOREM AdmissionsAreBounded == Spec => []AdmittedAreBounded
  BY ImmuneInvariance, PTL DEF IInv

\* The end a client was given, less the longest wait of its bans, is at most the
\* end it has on the list; and no end is further away than DECAY.
BansHold ==
  \A i \in Ids :
    /\ ends[i] <= clock + DECAY
    /\ clock < ends[i] - waited[i] => blacklist[i] >= ends[i] - waited[i]

\* No step takes more from a ban than its own wait.
LEMMA BanStep == IInv /\ BansHold /\ [Next]_vars => BansHold'
  <1> SUFFICES ASSUME IInv, BansHold, [Next]_vars PROVE BansHold'
    OBVIOUS
  <1>0. /\ clock \in Nat /\ DECAY \in Nat
        /\ \A i \in Ids : ends[i] \in Nat /\ waited[i] \in Nat /\ blacklist[i] \in Nat
    BY Numbers DEF IInv, TypeOK, Times
  <1>1. CASE UNCHANGED <<clock, blacklist, ends, waited>>
    BY <1>1 DEF BansHold
  <1>2. CASE Tick
    <2>1. /\ clock' = clock + 1 /\ blacklist' = blacklist
          /\ \A i \in Ids :
               /\ ends'[i] = IF ends[i] > clock + 1 THEN ends[i] ELSE 0
               /\ waited'[i] = IF ends[i] > clock + 1 THEN waited[i] ELSE 0
      BY <1>2 DEF Tick
    <2> QED
      BY ONLY <1>0, <2>1, BansHold DEF BansHold
  <1>3. CASE Clean
    <2>1. PICK now \in Nows(Cleaner) : blacklist' = BansAt(now)
      BY <1>3 DEF Clean
    <2>2. now \in Nat /\ now <= clock
      BY NowsArePast DEF IInv
    <2>3. \A i \in Ids : blacklist'[i] = IF blacklist[i] <= now THEN 0 ELSE blacklist[i]
      BY <2>1 DEF BansAt
    <2>4. UNCHANGED <<clock, ends, waited>>
      BY <1>3 DEF Clean
    <2> QED
      BY ONLY <1>0, <2>2, <2>3, <2>4, BansHold DEF BansHold
  <1>4. ASSUME NEW t \in Threads, NotListed(t) PROVE BansHold'
    <2>1. PICK now \in Nows(t) : blacklist[client[t]] <= now
      BY <1>4 DEF NotListed
    <2>2. now \in Nat /\ now <= clock
      BY NowsArePast DEF IInv
    <2>3. \A i \in Ids : blacklist'[i] = IF i = client[t] THEN 0 ELSE blacklist[i]
      BY <1>4 DEF NotListed, IInv, TypeOK
    <2>4. UNCHANGED <<clock, ends, waited>>
      BY <1>4 DEF NotListed
    <2> QED
      BY ONLY <1>0, <2>1, <2>2, <2>3, <2>4, BansHold DEF BansHold
  <1>5. ASSUME NEW t \in Threads, AddToBlacklist(t) PROVE BansHold'
    <2>1. PICK now \in Nows(t) : BanSet(t, now)
      BY <1>5 DEF AddToBlacklist, BanSet
    <2>2. clock' = clock
      BY <1>5 DEF AddToBlacklist
    <2>3. now \in Nat /\ now <= clock
      BY NowsArePast DEF IInv
    <2>4. since[t] \in Nat /\ since[t] <= now
      BY <2>3 DEF IInv, TypeOK, Nows, Times
    <2>5. ASSUME NEW i \in Ids, i # client[t]
          PROVE  blacklist'[i] = blacklist[i] /\ ends'[i] = ends[i] /\ waited'[i] = waited[i]
      BY <2>1, <2>5 DEF BanSet, IInv, TypeOK
    <2> DEFINE c == client[t]
               latest == Later(ends[c], now + DECAY)
    <2>6. /\ c \in Ids
          /\ blacklist'[c] = now + DECAY
          /\ ends'[c] = IF latest > clock THEN latest ELSE 0
          /\ waited'[c] = IF latest > clock THEN Later(waited[c], clock - since[t]) ELSE 0
      BY <2>1 DEF BanSet, IInv, TypeOK
    <2>7. ends[c] <= clock + DECAY
      BY <2>6 DEF BansHold
    <2> HIDE DEF c
    <2>8. ends'[c] <= clock + DECAY
      BY <1>0, <2>3, <2>6, <2>7 DEF Later
    <2>9. clock < ends'[c] - waited'[c] => blacklist'[c] >= ends'[c] - waited'[c]
      <3>1. latest \in Nat /\ latest <= clock + DECAY
        BY <1>0, <2>3, <2>6, <2>7 DEF Later
      <3>2. Later(waited[c], clock - since[t]) \in Nat
            /\ Later(waited[c], clock - since[t]) >= clock - since[t]
        BY <1>0, <2>3, <2>4, <2>6 DEF Later
      <3> HIDE DEF latest
      <3> QED
        BY <1>0, <2>3, <2>4, <2>6, <3>1, <3>2
    <2> QED
      BY <2>2, <2>5, <2>8, <2>9 DEF BansHold, c
  <1> QED
    BY <1>1, <1>2, <1>3, <1>4, <1>5
    DEF Next, ThreadNext, vars, Start, Listed, CountRequest, RecordAttempt

\* A ban is served until the latest end it was given, less the longest wait of a
\* ban for the lock: neither a check nor a round of the cleaner takes anything
\* from it, although the time they compare with may be older than the ban.
THEOREM BansAreNotLifted == Spec => []BansAreServed
  <1>1. Init => BansHold
    BY Numbers DEF Init, BansHold
  <1>2. IInv /\ BansHold => BansAreServed
    <2> SUFFICES ASSUME IInv, BansHold, NEW i \in Ids, clock < ends[i] - waited[i]
                 PROVE  blacklist[i] > clock
      BY DEF BansAreServed
    <2>1. clock \in Nat /\ ends[i] \in Nat /\ waited[i] \in Nat /\ blacklist[i] \in Nat
      BY Numbers DEF IInv, TypeOK, Times
    <2>2. blacklist[i] >= ends[i] - waited[i]
      BY DEF BansHold
    <2> QED
      BY ONLY <2>1, <2>2, clock < ends[i] - waited[i]
  <1> QED
    BY <1>1, <1>2, BanStep, ImmuneInvariance, PTL DEF Spec
=============================================================================
