--------------------------- MODULE BankingProofs ---------------------------
(***************************************************************************)
(* Proofs about the audit log, for any number of appenders, readers and    *)
(* events, and about the gate before it, for any number of threads, nonces *)
(* and tokens, any skew, time to live and workload: the gate keeps the     *)
(* promises of the audit log it writes to, and its own about nonces and    *)
(* sessions.                                                               *)
(***************************************************************************)
EXTENDS Banking, SumsProofs

-----------------------------------------------------------------------------
(* Part 1: AuditLog.                                                       *)

(* The inductive strengthening.                                            *)

\* Only the holder of the lock has an open transaction.
LockIsHeld == \A p \in Appenders : pc[p] # "idle" <=> lock = p

\* s is the last committed sequence number, 0 if there is none.
IsLast(s) == s \in DOMAIN log \union {0} /\ \A t \in DOMAIN log : t <= s

\* What an open transaction has read still is the end of the log, and the
\* number it has drawn comes after it.
DraftContinuesLog ==
  \A p \in Appenders :
    /\ pc[p] # "idle" => draft[p].event \in Events
    /\ pc[p] \in {"read", "inserted"} =>
         /\ IsLast(draft[p].index)
         /\ draft[p].previous = HashAt(log, draft[p].index)
    /\ pc[p] = "inserted" =>
         /\ draft[p].sequence = nextSequence - 1
         /\ draft[p].sequence > draft[p].index

DraftRecords ==
  \A p \in Appenders :
    draft[p] = [event |-> draft[p].event, previous |-> draft[p].previous,
                index |-> draft[p].index, sequence |-> draft[p].sequence]

\* Numbers are drawn only while the bound allows it.
NumbersBounded ==
  \A p \in Appenders :
    pc[p] \in {"locked", "read"} => nextSequence <= MaxSequence

IInv ==
  /\ TypeOK
  /\ LockIsHeld
  /\ DraftRecords
  /\ DraftContinuesLog
  /\ NumbersBounded
  /\ ChainIsLinked
  /\ SnapshotIsPrefix

-----------------------------------------------------------------------------
\* The empty log, with no transaction open, satisfies the invariant.
LEMMA InvInit == Init => IInv
  BY AuditLogAssumption
  DEF Init, IInv, TypeOK, LockIsHeld, DraftRecords, DraftContinuesLog,
      NumbersBounded, ChainIsLinked, Linked, LinksTo, SnapshotIsPrefix, NoDraft, NoEvent, Genesis

\* Every statement keeps the types.
LEMMA TypeStep == IInv /\ [Next]_vars => TypeOK'
  <1> SUFFICES ASSUME IInv, [Next]_vars PROVE TypeOK'
    OBVIOUS
  <1> USE AuditLogAssumption DEF IInv, TypeOK, LockIsHeld, DraftRecords, DraftContinuesLog, NumbersBounded, IsLast, NoDraft
  <1>1. ASSUME NEW p \in Appenders, NEW e \in Events, Acquire(p, e) PROVE TypeOK'
    BY <1>1 DEF Acquire
  <1>2. ASSUME NEW p \in Appenders, ReadLast(p) PROVE TypeOK'
    BY <1>2 DEF ReadLast
  <1>3. ASSUME NEW p \in Appenders, Insert(p) PROVE TypeOK'
    BY <1>3 DEF Insert
  <1>4. ASSUME NEW p \in Appenders, Commit(p) PROVE TypeOK'
    BY <1>4 DEF Commit, End, RowOf
  <1>5. ASSUME NEW p \in Appenders, Rollback(p) PROVE TypeOK'
    BY <1>5 DEF Rollback, End
  <1>6. ASSUME NEW r \in Readers, TakeSnapshot(r) PROVE TypeOK'
    BY <1>6 DEF TakeSnapshot
  <1>7. ASSUME NEW r \in Readers, VerifyIntegrity(r) PROVE TypeOK'
    BY <1>7 DEF VerifyIntegrity
  <1>8. CASE UNCHANGED vars
    BY <1>8 DEF vars
  <1> QED
    BY <1>1, <1>2, <1>3, <1>4, <1>5, <1>6, <1>7, <1>8 DEF Next, AppendNext

\* The lock is taken before, and given back after, everything else.
LEMMA LockStep == IInv /\ [Next]_vars => LockIsHeld'
  <1> SUFFICES ASSUME IInv, [Next]_vars PROVE LockIsHeld'
    OBVIOUS
  <1> USE AuditLogAssumption DEF IInv, TypeOK, LockIsHeld
  <1>1. ASSUME NEW p \in Appenders, NEW e \in Events, Acquire(p, e) PROVE LockIsHeld'
    BY <1>1 DEF Acquire
  <1>2. ASSUME NEW p \in Appenders, ReadLast(p) PROVE LockIsHeld'
    BY <1>2 DEF ReadLast
  <1>3. ASSUME NEW p \in Appenders, Insert(p) PROVE LockIsHeld'
    BY <1>3 DEF Insert
  <1>4. ASSUME NEW p \in Appenders, Commit(p) PROVE LockIsHeld'
    BY <1>4 DEF Commit, End, RowOf
  <1>5. ASSUME NEW p \in Appenders, Rollback(p) PROVE LockIsHeld'
    BY <1>5 DEF Rollback, End
  <1>6. ASSUME NEW r \in Readers, TakeSnapshot(r) PROVE LockIsHeld'
    BY <1>6 DEF TakeSnapshot
  <1>7. ASSUME NEW r \in Readers, VerifyIntegrity(r) PROVE LockIsHeld'
    BY <1>7 DEF VerifyIntegrity
  <1>8. CASE UNCHANGED vars
    BY <1>8 DEF vars
  <1> QED
    BY <1>1, <1>2, <1>3, <1>4, <1>5, <1>6, <1>7, <1>8 DEF Next, AppendNext

\* Every statement keeps the drafts records.
LEMMA DraftStep == TypeOK /\ DraftRecords /\ [Next]_vars => DraftRecords'
  <1> SUFFICES ASSUME TypeOK, DraftRecords, [Next]_vars PROVE DraftRecords'
    OBVIOUS
  <1> USE DEF TypeOK, DraftRecords, NoDraft
  <1>1. ASSUME NEW p \in Appenders, NEW e \in Events, Acquire(p, e) PROVE DraftRecords'
    BY <1>1 DEF Acquire
  <1>2. ASSUME NEW p \in Appenders, ReadLast(p) PROVE DraftRecords'
    <2>1. PICK s \in DOMAIN log \union {0} :
            draft' = [draft EXCEPT ![p].previous = HashAt(log, s), ![p].index = s]
      BY <1>2 DEF ReadLast
    <2> QED
      BY <2>1
  <1>3. ASSUME NEW p \in Appenders, Insert(p) PROVE DraftRecords'
    BY <1>3 DEF Insert
  <1>4. ASSUME NEW p \in Appenders, Commit(p) PROVE DraftRecords'
    BY <1>4 DEF Commit, End, RowOf
  <1>5. ASSUME NEW p \in Appenders, Rollback(p) PROVE DraftRecords'
    BY <1>5 DEF Rollback, End
  <1>6. ASSUME NEW r \in Readers, TakeSnapshot(r) PROVE DraftRecords'
    BY <1>6 DEF TakeSnapshot
  <1>7. ASSUME NEW r \in Readers, VerifyIntegrity(r) PROVE DraftRecords'
    BY <1>7 DEF VerifyIntegrity
  <1>8. CASE UNCHANGED vars
    BY <1>8 DEF vars
  <1> QED
    BY <1>1, <1>2, <1>3, <1>4, <1>5, <1>6, <1>7, <1>8 DEF Next, AppendNext

\* Every statement keeps the bound on the numbers drawn.
LEMMA BoundStep == IInv /\ [Next]_vars => NumbersBounded'
  <1> SUFFICES ASSUME IInv, [Next]_vars PROVE NumbersBounded'
    OBVIOUS
  <1> USE AuditLogAssumption DEF IInv, TypeOK, LockIsHeld, NumbersBounded, DraftContinuesLog
  <1>1. ASSUME NEW p \in Appenders, NEW e \in Events, Acquire(p, e) PROVE NumbersBounded'
    BY <1>1 DEF Acquire
  <1>2. ASSUME NEW p \in Appenders, ReadLast(p) PROVE NumbersBounded'
    BY <1>2 DEF ReadLast
  <1>3. ASSUME NEW p \in Appenders, Insert(p) PROVE NumbersBounded'
    BY <1>3 DEF Insert
  <1>4. ASSUME NEW p \in Appenders, Commit(p) PROVE NumbersBounded'
    BY <1>4 DEF Commit, End, RowOf
  <1>5. ASSUME NEW p \in Appenders, Rollback(p) PROVE NumbersBounded'
    BY <1>5 DEF Rollback, End
  <1>6. ASSUME NEW r \in Readers, TakeSnapshot(r) PROVE NumbersBounded'
    BY <1>6 DEF TakeSnapshot
  <1>7. ASSUME NEW r \in Readers, VerifyIntegrity(r) PROVE NumbersBounded'
    BY <1>7 DEF VerifyIntegrity
  <1>8. CASE UNCHANGED vars
    BY <1>8 DEF vars
  <1> QED
    BY <1>1, <1>2, <1>3, <1>4, <1>5, <1>6, <1>7, <1>8 DEF Next, AppendNext

\* Nobody commits behind the back of an open transaction.
LEMMA ContinueStep == IInv /\ [Next]_vars => DraftContinuesLog'
  <1> SUFFICES ASSUME IInv, [Next]_vars PROVE DraftContinuesLog'
    OBVIOUS
  <1> USE AuditLogAssumption DEF IInv, TypeOK, LockIsHeld, DraftRecords, DraftContinuesLog, IsLast, HashAt, NoDraft
  <1>1. ASSUME NEW p \in Appenders, NEW e \in Events, Acquire(p, e) PROVE DraftContinuesLog'
    BY <1>1 DEF Acquire
  <1>2. ASSUME NEW p \in Appenders, ReadLast(p) PROVE DraftContinuesLog'
    BY <1>2 DEF ReadLast
  <1>3. ASSUME NEW p \in Appenders, Insert(p) PROVE DraftContinuesLog'
    <2>1. \A q \in Appenders : q # p => pc[q] = "idle"
      BY <1>3 DEF Insert
    <2>2. /\ log' = log /\ nextSequence' = nextSequence + 1
          /\ draft' = [draft EXCEPT ![p].sequence = nextSequence]
          /\ pc' = [pc EXCEPT ![p] = "inserted"]
      BY <1>3 DEF Insert
    <2>3. /\ draft'[p].event = draft[p].event /\ draft'[p].previous = draft[p].previous
          /\ draft'[p].index = draft[p].index /\ draft'[p].sequence = nextSequence
      BY <2>2
    <2>4. draft[p].index < nextSequence
      BY <1>3 DEF Insert
    <2>5. \A q \in Appenders \ {p} : pc'[q] = "idle"
      BY <2>1, <2>2
    <2>6. /\ pc[p] = "read" /\ pc'[p] = "inserted"
      BY <1>3, <2>2 DEF Insert
    <2>7. /\ draft[p].event \in Events
          /\ IsLast(draft[p].index)
          /\ draft[p].previous = HashAt(log, draft[p].index)
          /\ nextSequence \in Nat
      BY <2>6
    <2> QED
      BY ONLY <2>2, <2>3, <2>4, <2>5, <2>6, <2>7 DEF DraftContinuesLog, IsLast, HashAt
  <1>4. ASSUME NEW p \in Appenders, Commit(p) PROVE DraftContinuesLog'
    BY <1>4 DEF Commit, End, RowOf
  <1>5. ASSUME NEW p \in Appenders, Rollback(p) PROVE DraftContinuesLog'
    BY <1>5 DEF Rollback, End
  <1>6. ASSUME NEW r \in Readers, TakeSnapshot(r) PROVE DraftContinuesLog'
    BY <1>6 DEF TakeSnapshot
  <1>7. ASSUME NEW r \in Readers, VerifyIntegrity(r) PROVE DraftContinuesLog'
    BY <1>7 DEF VerifyIntegrity
  <1>8. CASE UNCHANGED vars
    BY <1>8 DEF vars
  <1> QED
    BY <1>1, <1>2, <1>3, <1>4, <1>5, <1>6, <1>7, <1>8 DEF Next, AppendNext

\* A commit extends the chain at its end.
LEMMA ChainStep == IInv /\ [Next]_vars => ChainIsLinked'
  <1> SUFFICES ASSUME IInv, [Next]_vars PROVE ChainIsLinked'
    OBVIOUS
  <1> USE AuditLogAssumption DEF IInv, TypeOK, DraftRecords, DraftContinuesLog, IsLast, ChainIsLinked, Linked, LinksTo, HashAt
  <1>1. ASSUME NEW p \in Appenders, NEW e \in Events, Acquire(p, e) PROVE ChainIsLinked'
    BY <1>1 DEF Acquire
  <1>2. ASSUME NEW p \in Appenders, ReadLast(p) PROVE ChainIsLinked'
    BY <1>2 DEF ReadLast
  <1>3. ASSUME NEW p \in Appenders, Insert(p) PROVE ChainIsLinked'
    BY <1>3 DEF Insert
  <1>4. ASSUME NEW p \in Appenders, Commit(p) PROVE ChainIsLinked'
    <2> DEFINE new == draft[p].sequence
    <2>1. /\ draft[p].index \in DOMAIN log \union {0}
          /\ \A t \in DOMAIN log : t <= draft[p].index
          /\ draft[p].previous = HashAt(log, draft[p].index)
          /\ draft[p].index \in Nat /\ new \in Nat /\ new > draft[p].index
      BY <1>4 DEF Commit
    <2>2. /\ DOMAIN log' = DOMAIN log \union {new}
          /\ \A s \in DOMAIN log : log'[s] = log[s]
          /\ log'[new] = RowOf(draft[p])
          /\ DOMAIN log \subseteq Nat \ {0}
      BY <1>4, <2>1 DEF Commit
    <2>3. \A s \in DOMAIN log \union {0} : HashAt(log', s) = HashAt(log, s)
      BY <2>2
    <2> SUFFICES ASSUME NEW s \in DOMAIN log'
                 PROVE  \E t \in DOMAIN log' \union {0}, e \in Events :
                          /\ t < s /\ \A u \in DOMAIN log' : u <= t \/ u >= s
                          /\ log'[s].previous = HashAt(log', t)
                          /\ Stored(e) = log'[s].event
                          /\ log'[s].hash = HashEntry(t, e, log'[s].previous)
      BY DEF ChainIsLinked, Linked, LinksTo, HashAt
    <2>4. CASE s = new
      <3>1. /\ log'[s].event = Stored(draft[p].event) /\ log'[s].previous = draft[p].previous
            /\ log'[s].hash = HashEntry(draft[p].index, draft[p].event, draft[p].previous)
        BY <2>2, <2>4 DEF RowOf
      <3>2. draft[p].event \in Events
        BY <1>4 DEF Commit
      <3> QED
        BY <2>1, <2>2, <2>3, <2>4, <3>1, <3>2
    <2>5. CASE s # new
      <3>1. PICK t \in DOMAIN log \union {0}, e \in Events :
              /\ t < s /\ \A u \in DOMAIN log : u <= t \/ u >= s
              /\ log[s].previous = HashAt(log, t)
              /\ Stored(e) = log[s].event
              /\ log[s].hash = HashEntry(t, e, log[s].previous)
        BY <2>2, <2>5 DEF LinksTo
      <3> QED
        BY <2>1, <2>2, <2>3, <2>5, <3>1
    <2> QED
      BY <2>4, <2>5
  <1>5. ASSUME NEW p \in Appenders, Rollback(p) PROVE ChainIsLinked'
    BY <1>5 DEF Rollback, End
  <1>6. ASSUME NEW r \in Readers, TakeSnapshot(r) PROVE ChainIsLinked'
    BY <1>6 DEF TakeSnapshot
  <1>7. ASSUME NEW r \in Readers, VerifyIntegrity(r) PROVE ChainIsLinked'
    BY <1>7 DEF VerifyIntegrity
  <1>8. CASE UNCHANGED vars
    BY <1>8 DEF vars
  <1> QED
    BY <1>1, <1>2, <1>3, <1>4, <1>5, <1>6, <1>7, <1>8 DEF Next, AppendNext

\* A commit leaves every earlier snapshot a prefix.
LEMMA SnapshotStep == IInv /\ [Next]_vars => SnapshotIsPrefix'
  <1> SUFFICES ASSUME IInv, [Next]_vars PROVE SnapshotIsPrefix'
    OBVIOUS
  <1> USE AuditLogAssumption DEF IInv, TypeOK, DraftContinuesLog, IsLast, SnapshotIsPrefix
  <1>1. ASSUME NEW p \in Appenders, NEW e \in Events, Acquire(p, e) PROVE SnapshotIsPrefix'
    BY <1>1 DEF Acquire
  <1>2. ASSUME NEW p \in Appenders, ReadLast(p) PROVE SnapshotIsPrefix'
    BY <1>2 DEF ReadLast
  <1>3. ASSUME NEW p \in Appenders, Insert(p) PROVE SnapshotIsPrefix'
    BY <1>3 DEF Insert
  <1>4. ASSUME NEW p \in Appenders, Commit(p) PROVE SnapshotIsPrefix'
    BY <1>4 DEF Commit, End, RowOf
  <1>5. ASSUME NEW p \in Appenders, Rollback(p) PROVE SnapshotIsPrefix'
    BY <1>5 DEF Rollback, End
  <1>6. ASSUME NEW r \in Readers, TakeSnapshot(r) PROVE SnapshotIsPrefix'
    BY <1>6 DEF TakeSnapshot
  <1>7. ASSUME NEW r \in Readers, VerifyIntegrity(r) PROVE SnapshotIsPrefix'
    BY <1>7 DEF VerifyIntegrity
  <1>8. CASE UNCHANGED vars
    BY <1>8 DEF vars
  <1> QED
    BY <1>1, <1>2, <1>3, <1>4, <1>5, <1>6, <1>7, <1>8 DEF Next, AppendNext


\* The inductive invariant holds in every reachable state.
THEOREM LogInvariance == Spec => []IInv
  <1>1. IInv /\ [Next]_vars => IInv'
    BY TypeStep, LockStep, DraftStep, BoundStep, ContinueStep, ChainStep, SnapshotStep DEF IInv
  <1> QED
    BY <1>1, InvInit, PTL DEF Spec

\* The drawn numbers, the transactions and the readers are well typed.
THEOREM LogTypeCorrect == Spec => []TypeOK
  BY LogInvariance, PTL DEF IInv

\* One hash chain in sequence order, on either database, for any number of
\* concurrent appenders and failed appends (append, lines 33-43).
THEOREM LogIsOneChain == Spec => []ChainIsLinked
  BY LogInvariance, PTL DEF IInv

\* A snapshot stays a prefix of the log for ever (get_snapshot, lines 63-65).
THEOREM SnapshotsStand == Spec => []SnapshotIsPrefix
  BY LogInvariance, PTL DEF IInv

-----------------------------------------------------------------------------
(* On SQLite a failed append gives its number back, so that no number is   *)
(* missing and the untampered log verifies.                                *)

\* On SQLite sequence numbers are consecutive; the last may still be
\* uncommitted.
NoGap ==
  dialect = "sqlite" =>
    \/ /\ DOMAIN log = 1 .. nextSequence - 1
       /\ \A p \in Appenders : pc[p] # "inserted"
    \/ /\ DOMAIN log = 1 .. nextSequence - 2
       /\ nextSequence > 1
       /\ \E p \in Appenders : pc[p] = "inserted"

\* Every statement keeps the numbers consecutive on SQLite.
LEMMA NoGapStep == IInv /\ NoGap /\ [Next]_vars => NoGap'
  <1> SUFFICES ASSUME IInv, NoGap, [Next]_vars PROVE NoGap'
    OBVIOUS
  <1> USE AuditLogAssumption DEF IInv, TypeOK, LockIsHeld, DraftContinuesLog, NoGap
  <1>1. ASSUME NEW p \in Appenders, NEW e \in Events, Acquire(p, e) PROVE NoGap'
    BY <1>1 DEF Acquire
  <1>2. ASSUME NEW p \in Appenders, ReadLast(p) PROVE NoGap'
    BY <1>2 DEF ReadLast
  <1>3. ASSUME NEW p \in Appenders, Insert(p) PROVE NoGap'
    <2>1. \A q \in Appenders : pc[q] # "inserted"
      BY <1>3 DEF Insert
    <2>2. /\ log' = log /\ nextSequence' = nextSequence + 1 /\ dialect' = dialect
          /\ pc'[p] = "inserted" /\ nextSequence \in 1 .. MaxSequence + 1
      BY <1>3 DEF Insert
    <2> QED
      BY ONLY <2>1, <2>2, NoGap, AuditLogAssumption DEF NoGap
  <1>4. ASSUME NEW p \in Appenders, Commit(p) PROVE NoGap'
    BY <1>4 DEF Commit, End, RowOf
  <1>5. ASSUME NEW p \in Appenders, Rollback(p) PROVE NoGap'
    BY <1>5 DEF Rollback, End
  <1>6. ASSUME NEW r \in Readers, TakeSnapshot(r) PROVE NoGap'
    BY <1>6 DEF TakeSnapshot
  <1>7. ASSUME NEW r \in Readers, VerifyIntegrity(r) PROVE NoGap'
    BY <1>7 DEF VerifyIntegrity
  <1>8. CASE UNCHANGED vars
    BY <1>8 DEF vars
  <1> QED
    BY <1>1, <1>2, <1>3, <1>4, <1>5, <1>6, <1>7, <1>8 DEF Next, AppendNext

\* A chain over consecutive numbers is what verify_integrity accepts if every
\* row was hashed as it is stored, and only then.
LEMMA ConsecutiveVerifies ==
  ASSUME IInv, NoGap PROVE UntamperedLogVerifies
  <1> SUFFICES ASSUME dialect = "sqlite"
               PROVE  Verifies(log) <=> \A s \in DOMAIN log : HashedAsStored(log, s)
    BY DEF UntamperedLogVerifies
  <1>1. PICK n \in 0 .. MaxSequence : DOMAIN log = 1 .. n
    BY AuditLogAssumption DEF IInv, TypeOK, NoGap
  <1>2. Cardinality(DOMAIN log) = n
    BY <1>1, AuditLogAssumption, FS_Interval
  <1>3. ASSUME Verifies(log), NEW s \in DOMAIN log PROVE HashedAsStored(log, s)
    <2>1. s - 1 \in 0 .. MaxSequence
      BY <1>1, AuditLogAssumption
    <2>2. log[s].hash = HashEntry(s - 1, log[s].event, log[s].previous)
      BY <1>1, <1>2, <1>3 DEF Verifies
    <2> QED
      BY <2>1, <2>2 DEF HashedAsStored
  <1>4. ASSUME \A s \in DOMAIN log : HashedAsStored(log, s), NEW i \in 1 .. n
        PROVE  /\ log[i].previous = HashAt(log, i - 1)
               /\ log[i].hash = HashEntry(i - 1, log[i].event, log[i].previous)
    <2>1. PICK t \in DOMAIN log \union {0}, e \in Events :
            /\ t < i /\ \A u \in DOMAIN log : u <= t \/ u >= i
            /\ log[i].previous = HashAt(log, t)
            /\ log[i].hash = HashEntry(t, e, log[i].previous)
      BY <1>1 DEF IInv, ChainIsLinked, Linked, LinksTo
    <2>2. e = log[i].event
      BY <1>1, <1>4, <2>1 DEF HashedAsStored, HashEntry
    <2>3. t = i - 1
      <3>1. n \in Nat /\ t \in 0 .. n /\ i \in 1 .. n
        BY <1>1, AuditLogAssumption
      <3>2. i - 1 # 0 => i - 1 \in DOMAIN log
        BY <1>1, <3>1
      <3> QED
        BY <2>1, <3>1, <3>2
    <2> QED
      BY <2>1, <2>2, <2>3
  <1>5. (\A s \in DOMAIN log : HashedAsStored(log, s)) => Verifies(log)
    BY <1>1, <1>2, <1>4 DEF Verifies
  <1> QED
    BY <1>3, <1>5

\* On SQLite an untampered log verifies if and only if no append was given an
\* actor of another type than text, whatever fails and however appenders
\* interleave (verify_integrity, lines 54-61).
THEOREM UntamperedVerifies == Spec => []UntamperedLogVerifies
  <1>1. Init => IInv /\ NoGap
    BY InvInit DEF Init, NoGap
  <1>2. IInv /\ NoGap /\ [Next]_vars => (IInv /\ NoGap)'
    BY TypeStep, LockStep, DraftStep, BoundStep, ContinueStep, ChainStep, SnapshotStep,
       NoGapStep DEF IInv
  <1>3. IInv /\ NoGap => UntamperedLogVerifies
    BY ConsecutiveVerifies
  <1> QED
    BY <1>1, <1>2, <1>3, PTL DEF Spec

-----------------------------------------------------------------------------
(* A verified proof.                                                       *)

\* Numbers of an interval that come before all the others are themselves an
\* interval.
LEMMA PrefixIsInterval ==
  ASSUME NEW n \in Nat, NEW S \in SUBSET (1 .. n), \A s \in S : \A t \in (1 .. n) \ S : s < t
  PROVE  \E m \in 0 .. n : S = 1 .. m
  <1>1. CASE S = 1 .. n
    BY <1>1
  <1>2. CASE S # 1 .. n
    <2>1. (1 .. n) \ S # {} /\ (1 .. n) \ S \subseteq Nat
      <3>1. PICK k \in 1 .. n : k \notin S
        BY <1>2, Zenon
      <3> QED
        BY <3>1
    <2>2. PICK k \in (1 .. n) \ S : \A t \in (1 .. n) \ S : k <= t
      BY <2>1, LeastNumber
    <2>3. \A i \in 1 .. n : i \in S <=> i <= k - 1
      BY <2>2
    <2>4. S = 1 .. k - 1
      <3>1. k \in 1 .. n
        BY <2>2
      <3>2. \A i : i \in 1 .. k - 1 <=> i \in 1 .. n /\ i <= k - 1
        BY <3>1
      <3>3. \A i : i \in S <=> i \in 1 .. n /\ i <= k - 1
        BY <2>3
      <3> QED
        BY <3>2, <3>3, Zenon
    <2> QED
      BY <2>2, <2>4
  <1> QED
    BY <1>1, <1>2

\* A prefix of a log that verifies verifies: an earlier snapshot does if a
\* later reading of the log does.
LEMMA PrefixVerifies ==
  ASSUME NEW L, NEW P, Verifies(L), IsFiniteSet(DOMAIN L), DOMAIN P \subseteq DOMAIN L,
         \A s \in DOMAIN P : P[s] = L[s],
         \A s \in DOMAIN P : \A t \in DOMAIN L \ DOMAIN P : s < t
  PROVE  Verifies(P)
  <1>1. PICK n \in Nat :
          /\ DOMAIN L = 1 .. n
          /\ \A i \in 1 .. n :
               /\ L[i].previous = HashAt(L, i - 1)
               /\ L[i].hash = HashEntry(i - 1, L[i].event, L[i].previous)
    BY FS_CardinalityType DEF Verifies
  <1>2. PICK m \in 0 .. n : DOMAIN P = 1 .. m
    BY <1>1, PrefixIsInterval
  <1>3. Cardinality(DOMAIN P) = m
    BY <1>2, FS_Interval
  <1>4. ASSUME NEW i \in 1 .. m
        PROVE  /\ P[i].previous = HashAt(P, i - 1)
               /\ P[i].hash = HashEntry(i - 1, P[i].event, P[i].previous)
    <2>1. i \in 1 .. n /\ P[i] = L[i]
      BY <1>2
    <2>2. HashAt(P, i - 1) = HashAt(L, i - 1)
      <3>1. i - 1 # 0 => i - 1 \in DOMAIN P
        BY <1>2
      <3> QED
        BY <3>1 DEF HashAt
    <2> QED
      BY <1>1, <2>1, <2>2
  <1> QED
    BY <1>2, <1>3, <1>4 DEF Verifies

\* What is served as verified stays verified until the next snapshot.
LEMMA ProofStep == IInv /\ ProofIsIntact /\ [Next]_vars => ProofIsIntact'
  <1> SUFFICES ASSUME IInv, ProofIsIntact, [Next]_vars PROVE ProofIsIntact'
    OBVIOUS
  <1>1. ASSUME UNCHANGED <<stage, snapshot>> PROVE ProofIsIntact'
    BY <1>1 DEF ProofIsIntact
  <1>2. ASSUME NEW r \in Readers, TakeSnapshot(r) PROVE ProofIsIntact'
    <2>1. stage'[r] = "snapshot"
      BY <1>2 DEF TakeSnapshot, IInv, TypeOK
    <2>2. \A q \in Readers \ {r} : stage'[q] = stage[q] /\ snapshot'[q] = snapshot[q]
      BY <1>2 DEF TakeSnapshot, IInv, TypeOK
    <2> QED
      BY <2>1, <2>2 DEF ProofIsIntact
  <1>3. ASSUME NEW r \in Readers, VerifyIntegrity(r) PROVE ProofIsIntact'
    <2>1. stage[r] = "snapshot" /\ snapshot' = snapshot
      BY <1>3 DEF VerifyIntegrity
    <2>2. stage'[r] = "verified" => Verifies(log)
      BY <1>3 DEF VerifyIntegrity, IInv, TypeOK
    <2>3. \A q \in Readers \ {r} : stage'[q] = stage[q]
      BY <1>3 DEF VerifyIntegrity, IInv, TypeOK
    <2>4. IsFiniteSet(DOMAIN log)
      <3>1. nextSequence \in Int /\ DOMAIN log \subseteq 1 .. nextSequence - 1
        BY AuditLogAssumption DEF IInv, TypeOK
      <3>2. IsFiniteSet(1 .. nextSequence - 1)
        BY <3>1, FS_Interval
      <3> QED
        BY <3>1, <3>2, FS_Subset
    <2>5. Verifies(log) => Verifies(snapshot[r])
      BY <2>1, <2>4, PrefixVerifies DEF IInv, SnapshotIsPrefix
    <2> QED
      BY <2>1, <2>2, <2>3, <2>5 DEF ProofIsIntact
  <1>4. CASE (\E p \in Appenders : AppendNext(p)) \/ UNCHANGED vars
    BY <1>1, <1>4
    DEF AppendNext, Acquire, ReadLast, Insert, Commit, Rollback, vars
  <1> QED
    BY <1>2, <1>3, <1>4 DEF Next

\* A proof served as verified is itself an intact log, on either database and
\* however many entries were appended between its two reads (audit_proof, lines
\* 67-81).
THEOREM ProofsAreIntact == Spec => []ProofIsIntact
  <1>1. Init => ProofIsIntact
    BY DEF Init, ProofIsIntact
  <1>2. IInv /\ [Next]_vars => IInv'
    BY TypeStep, LockStep, DraftStep, BoundStep, ContinueStep, ChainStep, SnapshotStep DEF IInv
  <1> QED
    BY <1>1, <1>2, InvInit, ProofStep, PTL DEF Spec

-----------------------------------------------------------------------------
(* Part 2: Banking.                                                        *)

\* Whoever waits for the log knows what to append.
EntryIsKnown == \A p \in Appenders : step[p] = "append" => entry[p] \in Events

\* What a thread works with was read by now, and a message to be reserved was
\* within the skew then; what a nonce's row says of its last reservation, until
\* the skew is over.
NonceRecord ==
  /\ \A p \in Appenders : now[p] <= clock
  /\ \A p \in Appenders : step[p] = "reserve" => now[p] <= request[p].timestamp + Skew
  /\ \A n \in Nonces : accepted[n] # Absent =>
       \/ nonces[n] = accepted[n] + Skew
       \/ nonces[n] = Absent /\ clock >= accepted[n] + Skew

BankingInv == BankingTypeOK /\ EntryIsKnown /\ NonceRecord

-----------------------------------------------------------------------------
\* The initial states satisfy the invariant.
LEMMA BankingInvInit == BankingInit => BankingInv
  BY BankingAssumption
  DEF BankingInit, BankingInv, BankingTypeOK, EntryIsKnown, NonceRecord, Absent,
      Steps, SessionRows, NoSession, Times

\* A verdict sends the request on, or to the log with the event it needs.
LEMMA VerdictMoves ==
  ASSUME BankingTypeOK, EntryIsKnown, NEW p \in Appenders, request[p] \in Requests,
         NEW v \in BOOLEAN, Verified(p, v)
  PROVE  /\ step' \in [Appenders -> Steps] /\ entry' \in [Appenders -> Events \union {NoEvent}]
         /\ EntryIsKnown'
         /\ step'[p] # "reserve"
         /\ \A q \in Appenders \ {p} : step'[q] = step[q]
  <1> USE DEF BankingTypeOK, GoTo, AnswerAfter
  <1>1. CASE GoTo(p, "pci") /\ UNCHANGED entry
    BY <1>1 DEF EntryIsKnown, Steps
  <1>2. ASSUME NEW e \in AuditEvents, NEW a \in ActorForms, AnswerAfter(p, e, a)
        PROVE  /\ step' \in [Appenders -> Steps]
               /\ entry' \in [Appenders -> Events \union {NoEvent}]
               /\ EntryIsKnown'
               /\ step'[p] # "reserve"
               /\ \A q \in Appenders \ {p} : step'[q] = step[q]
    <2>1. [type |-> e, actor |-> a] \in Events
      BY BankingAssumption DEF Events
    <2> QED
      BY <1>2, <2>1 DEF EntryIsKnown, Steps
  <1>3. {"SIGNATURE_VERIFICATION_FAILED", "SIGNATURE_VERIFICATION"} \subseteq AuditEvents
    BY DEF AuditEvents
  <1>4. "text" \in ActorForms /\ request[p].actor \in ActorForms
    BY BankingAssumption DEF Requests
  <1> QED
    BY <1>1, <1>2, <1>3, <1>4 DEF Verified

\* Every step of a thread keeps the invariant.
LEMMA ServeStep ==
  ASSUME BankingInv, workload \in Workloads, NEW p \in Appenders, ServeNext(p)
  PROVE  BankingInv'
  <1> USE BankingAssumption
      DEF BankingInv, BankingTypeOK, EntryIsKnown, NonceRecord, GoTo, AnswerAfter, Done,
          Absent, Steps, Times
  <1> DEFINE Free == [role |-> "none", expires |-> 0, revoked |-> FALSE]
  <1>0. NoSession \in SessionRows
    BY DEF NoSession, SessionRows
  <1>a. ASSUME NEW e \in AuditEvents PROVE [type |-> e, actor |-> "text"] \in Events
    BY DEF Events
  <1>1. ASSUME NEW r \in workload, Arrive(p, r) PROVE BankingInv'
    <2>1. r \in Requests
      OBVIOUS
    <2> QED
      BY <1>1, <2>1 DEF Arrive
  <1>2. CASE ReadClock(p)
    <2>1. CASE Verified(p, FALSE) /\ UNCHANGED now
      <3>1. request[p] \in Requests
        BY <1>2 DEF ReadClock
      <3>2. /\ step' \in [Appenders -> Steps]
            /\ entry' \in [Appenders -> Events \union {NoEvent}]
            /\ EntryIsKnown'
            /\ step'[p] # "reserve"
            /\ \A q \in Appenders \ {p} : step'[q] = step[q]
        BY ONLY <2>1, <3>1, VerdictMoves, BankingInv, p \in Appenders DEF BankingInv
      <3> QED
        BY ONLY <1>2, <2>1, <3>1, <3>2, BankingInv
        DEF ReadClock, BankingInv, BankingTypeOK, NonceRecord
    <2>2. CASE /\ now' = [now EXCEPT ![p] = clock]
               /\ GoTo(p, "reserve")
               /\ UNCHANGED entry
      <3>1. Plausible(request[p], where[p])
        BY <1>2, <2>2 DEF ReadClock, Verified
      <3>2. request[p] \in Requests
        BY <1>2 DEF ReadClock
      <3>3. request[p].timestamp \in Int
        BY ONLY <3>2 DEF Requests
      <3>4. clock <= request[p].timestamp + Skew
        BY ONLY <3>1, <3>3, BankingInv, BankingAssumption
        DEF Plausible, BankingInv, BankingTypeOK, Times
      <3> QED
        BY <1>2, <2>2, <3>3, <3>4 DEF ReadClock
    <2> QED
      BY <1>2, <2>1, <2>2 DEF ReadClock
  <1>3. CASE Reserve(p)
    <2>1. request[p].nonce \in Nonces
      BY <1>3 DEF Reserve, Requests
    <2>3. request[p] \in Requests
      BY <1>3 DEF Reserve
    <2>2. /\ step' \in [Appenders -> Steps]
          /\ entry' \in [Appenders -> Events \union {NoEvent}]
          /\ EntryIsKnown'
          /\ step'[p] # "reserve"
          /\ \A q \in Appenders \ {p} : step'[q] = step[q]
      BY <1>3, <2>3, VerdictMoves DEF Reserve
    <2>4. BankingTypeOK'
      BY ONLY <1>3, <2>1, <2>2, <2>3, BankingInv, BankingAssumption
      DEF Reserve, BankingInv, BankingTypeOK, Deleted, Times, Absent
    <2>5. NonceRecord'
      BY ONLY <1>3, <2>1, <2>2, BankingInv, BankingAssumption
      DEF Reserve, BankingInv, BankingTypeOK, NonceRecord, Deleted, Times, Absent
    <2> QED
      BY <2>2, <2>4, <2>5
  <1>4. CASE Refuse(p)
    <2>1. request[p] \in Requests
      BY <1>4 DEF Refuse
    <2>2. /\ step' \in [Appenders -> Steps]
          /\ entry' \in [Appenders -> Events \union {NoEvent}]
          /\ EntryIsKnown'
          /\ step'[p] # "reserve"
          /\ \A q \in Appenders \ {p} : step'[q] = step[q]
      BY <1>4, <2>1, VerdictMoves DEF Refuse
    <2> QED
      BY ONLY <1>4, <2>1, <2>2, BankingInv
      DEF Refuse, BankingInv, BankingTypeOK, NonceRecord
  <1>5. CASE CheckPCI(p)
    <2>1. CASE AnswerAfter(p, "PCI_DSS_VIOLATION_BLOCKED", "text")
      <3>1. [type |-> "PCI_DSS_VIOLATION_BLOCKED", actor |-> "text"] \in Events
        BY <1>a DEF AuditEvents
      <3> QED
        BY <1>5, <2>1, <3>1 DEF CheckPCI
    <2>2. CASE GoTo(p, "route") /\ UNCHANGED entry
      BY <1>5, <2>2 DEF CheckPCI
    <2> QED
      BY <1>5, <2>1, <2>2 DEF CheckPCI
  <1>6. CASE VerifySignature(p)
    BY <1>6 DEF VerifySignature
  <1>7. CASE AuditProof(p)
    <2>1. CASE Done(p)
      BY <1>0, <1>7, <2>1 DEF AuditProof
    <2>2. CASE step[p] = "route" /\ GoTo(p, "proof") /\ UNCHANGED <<request, where, now, seen, entry>>
      BY <1>7, <2>2 DEF AuditProof
    <2> QED
      BY <1>7, <2>1, <2>2 DEF AuditProof
  <1>8. CASE FraudScore(p)
    <2>1. [type |-> "FRAUD_ASSESSMENT", actor |-> "text"] \in Events
      BY <1>a DEF AuditEvents
    <2> QED
      BY <1>8, <2>1 DEF FraudScore
  <1>9. CASE OtherRoute(p)
    BY <1>0, <1>9 DEF OtherRoute
  <1>10. CASE Lookup(p)
    <2>1. request[p].token \in Tokens
      BY <1>10 DEF Lookup, Requests
    <2> QED
      BY <1>10, <2>1 DEF Lookup
  <1>11. CASE CheckRole(p)
    <2>1. CASE Done(p)
      BY <1>0, <1>11, <2>1 DEF CheckRole
    <2>2. CASE /\ GoTo(p, "register")
               /\ now' = [now EXCEPT ![p] = clock]
               /\ seen' = [seen EXCEPT ![p] = NoSession]
               /\ UNCHANGED <<request, where, entry>>
      BY <1>0, <1>11, <2>2 DEF CheckRole
    <2> QED
      BY <1>11, <2>1, <2>2 DEF CheckRole
  <1>12. ASSUME NEW t \in Times, Register(p, t) PROVE BankingInv'
    <2>1. request[p].grant \in Tokens
      BY <1>12 DEF Register, Requests
    <2>2. [role |-> request[p].role, expires |-> t + Ttl, revoked |-> FALSE] \in SessionRows
      BY <1>12 DEF Register, SessionRows
    <2> QED
      BY <1>0, <1>12, <2>1, <2>2 DEF Register
  <1>13. CASE AppendStep(p)
    BY <1>13 DEF AppendStep, threadVars
  <1>14. CASE Answer(p)
    BY <1>0, <1>14 DEF Answer
  <1>15. CASE Abandon(p)
    BY <1>0, <1>15 DEF Abandon
  <1> QED
    BY <1>1, <1>2, <1>3, <1>4, <1>5, <1>6, <1>7, <1>8, <1>9, <1>10, <1>11, <1>12, <1>13,
       <1>14, <1>15 DEF ServeNext

\* The workload is drawn once.
LEMMA WorkloadStands ==
  /\ BankingInit => workload \in Workloads
  /\ workload \in Workloads /\ [BankingNext]_bankingVars => (workload \in Workloads)'
  <1>1. BankingInit => workload \in Workloads
    BY DEF BankingInit
  <1>2. BankingNext => UNCHANGED workload
    BY DEF BankingNext, ServeNext, Arrive, ReadClock, Reserve, Refuse, CheckPCI, VerifySignature,
      AuditProof, FraudScore, OtherRoute, Lookup, CheckRole, Register, AppendStep, Answer,
      Abandon, CleanExpired, RevokeSession, Tick
  <1>3. UNCHANGED bankingVars => UNCHANGED workload
    BY DEF bankingVars
  <1> QED
    BY <1>1, <1>2, <1>3

\* Every step keeps the invariant.
LEMMA BankingInvStep ==
  BankingInv /\ workload \in Workloads /\ [BankingNext]_bankingVars => BankingInv'
  <1> SUFFICES ASSUME BankingInv, workload \in Workloads, [BankingNext]_bankingVars
               PROVE  BankingInv'
    OBVIOUS
  <1>1. ASSUME NEW p \in Appenders, ServeNext(p) PROVE BankingInv'
    BY <1>1, ServeStep
  <1> USE BankingAssumption
      DEF BankingInv, BankingTypeOK, EntryIsKnown, NonceRecord, threadVars, Absent, Times
  <1>2. ASSUME NEW t \in Times, CleanExpired(t) PROVE BankingInv'
    BY <1>2 DEF CleanExpired, Deleted
  <1>3. ASSUME NEW k \in Tokens, RevokeSession(k) PROVE BankingInv'
    <2>0. sessions[k] \in SessionRows
      BY <1>3
    <2>1. [sessions[k] EXCEPT !.revoked = TRUE] \in SessionRows
      BY ONLY <2>0 DEF SessionRows
    <2>2. UNCHANGED <<clock, nonces, threadVars, accepted>>
          /\ sessions' = [sessions EXCEPT ![k] = [sessions[k] EXCEPT !.revoked = TRUE]]
      BY <1>3 DEF RevokeSession
    <2>3. \A j \in Tokens : sessions[j] \in SessionRows
      BY DEF BankingInv, BankingTypeOK
    <2> QED
      BY <2>1, <2>2, <2>3
  <1>4. CASE Tick
    BY <1>4 DEF Tick
  <1>5. CASE UNCHANGED bankingVars
    BY <1>5 DEF bankingVars
  <1> QED
    BY <1>1, <1>2, <1>3, <1>4, <1>5 DEF BankingNext

\* The gate's invariant holds in every reachable state.
THEOREM BankingInvariance == BankingSpec => [](BankingInv /\ workload \in Workloads)
  BY BankingInvInit, BankingInvStep, WorkloadStands, PTL DEF BankingSpec

\* Every reachable state of the gate is well typed.
THEOREM BankingTypeCorrect == BankingSpec => []BankingTypeOK
  BY BankingInvariance, PTL DEF BankingInv

-----------------------------------------------------------------------------
\* A step of the gate is a step of the audit log, or leaves it alone.
LEMMA LogStep == BankingInv /\ [BankingNext]_bankingVars => [Next]_vars
  <1> SUFFICES ASSUME BankingInv, [BankingNext]_bankingVars PROVE [Next]_vars
    OBVIOUS
  <1> USE DEF auditVars
  <1>1. ASSUME NEW p \in Appenders, AppendStep(p) PROVE Next
    <2>1. entry[p] \in Events
      BY <1>1, BankingAssumption DEF AppendStep, BankingInv, EntryIsKnown
    <2> QED
      BY <1>1, <2>1 DEF AppendStep, Next, AppendNext
  <1>2. ASSUME NEW p \in Appenders, Answer(p) PROVE Next
    BY <1>2 DEF Answer, Next, AppendNext
  <1>3. ASSUME NEW p \in Appenders, AuditProof(p) PROVE Next
    BY <1>3, BankingAssumption DEF AuditProof, Next
  <1>4. CASE UNCHANGED bankingVars
    BY <1>4 DEF bankingVars
  <1> QED
    BY <1>1, <1>2, <1>3, <1>4 DEF BankingNext, ServeNext, Arrive, ReadClock, Reserve, Refuse,
      CheckPCI, VerifySignature, FraudScore, OtherRoute, Lookup, CheckRole, Register, Abandon,
      CleanExpired, RevokeSession, Tick

\* The gate uses the audit log as AuditLog's specification allows, so that
\* what is proved of the log holds behind the gate.
THEOREM BankingImplementsAuditLog == BankingSpec => Spec
  <1>1. BankingInit => Init
    BY DEF BankingInit
  <1> QED
    BY <1>1, BankingInvariance, LogStep, PTL DEF BankingSpec, Spec

\* Whatever the requests, failures and interleavings, the log behind the gate
\* is one chain, a snapshot stays a prefix of it, a proof served as verified is
\* intact, and on SQLite the log verifies.
THEOREM LogBehindGate ==
  BankingSpec => [](ChainIsLinked /\ SnapshotIsPrefix /\ ProofIsIntact /\ UntamperedLogVerifies)
  BY BankingImplementsAuditLog, LogIsOneChain, SnapshotsStand, ProofsAreIntact,
     UntamperedVerifies, PTL

-----------------------------------------------------------------------------
\* A nonce succeeds again only after the skew, and only for a message dated no
\* earlier than its last success, less the time its thread has waited.
THEOREM NoncesAreHeld == BankingSpec => RepeatIsDatedLater
  <1> DEFINE Held ==
        \A p \in Appenders :
          LET r == request[p] IN
            Reserve(p) /\ accepted[r.nonce] # Absent =>
              /\ clock >= accepted[r.nonce] + Skew
              /\ r.timestamp + (clock - now[p]) >= accepted[r.nonce]
  <1>1. BankingInv => Held
    <2> SUFFICES ASSUME BankingInv, NEW p \in Appenders, Reserve(p),
                        accepted[request[p].nonce] # Absent
                 PROVE  /\ clock >= accepted[request[p].nonce] + Skew
                        /\ request[p].timestamp + (clock - now[p]) >= accepted[request[p].nonce]
      OBVIOUS
    <2>1. request[p].nonce \in Nonces /\ request[p].timestamp \in Int
      BY DEF BankingInv, BankingTypeOK, Reserve, Requests
    <2> DEFINE n == request[p].nonce
    <2>2. nonces[n] <= now[p]
      BY <2>1 DEF Reserve, Deleted, BankingInv, BankingTypeOK, Absent, Times
    <2>3. nonces[n] \in Int /\ accepted[n] \in Int /\ now[p] \in Nat /\ clock \in Nat
      BY <2>1 DEF BankingInv, BankingTypeOK, Times
    <2>4. now[p] <= request[p].timestamp + Skew
      BY DEF Reserve, BankingInv, NonceRecord
    <2>5. clock >= accepted[n] + Skew
      BY <2>1, <2>2, <2>3, BankingAssumption DEF BankingInv, NonceRecord
    <2> HIDE DEF n
    <2> QED
      BY <2>1, <2>3, <2>4, <2>5, BankingAssumption DEF n
  <1>2. BankingInv /\ [BankingNext]_bankingVars => [Held]_bankingVars
    BY <1>1
  <1> HIDE DEF Held
  <1>3. BankingSpec => [][Held]_bankingVars
    BY <1>2, BankingInvariance, PTL DEF BankingSpec
  <1> QED
    BY <1>3 DEF Held, RepeatIsDatedLater

\* Authority over sessions, once lost, is not regained: neither by a request
\* that read a session before it was revoked, nor by one that judges it late.
THEOREM AuthorityStaysLost == BankingSpec => AuthorityIsNotRegained
  <1>1. BankingInv /\ NoAuthority /\ [BankingNext]_bankingVars => NoAuthority'
    <2> SUFFICES ASSUME BankingInv, NoAuthority, [BankingNext]_bankingVars PROVE NoAuthority'
      OBVIOUS
    <2> USE DEF NoAuthority, MayPass, GoTo, AnswerAfter, Done
    <2>1. ASSUME NEW p \in Appenders, Lookup(p) PROVE NoAuthority'
      <3>1. request[p].token \in Tokens
        BY <2>1 DEF Lookup, BankingInv, BankingTypeOK, Requests
      <3> QED
        BY <2>1, <3>1 DEF Lookup, BankingInv, BankingTypeOK
    <2>2. CASE Tick
      <3>1. ASSUME NEW row \in SessionRows, IsAdmin(row, clock + 1) PROVE IsAdmin(row, clock)
        BY <3>1 DEF IsAdmin, Live, SessionRows, BankingInv, BankingTypeOK, Times
      <3>2. clock' = clock + 1 /\ UNCHANGED <<sessions, step, seen>>
        BY <2>2 DEF Tick, threadVars
      <3>3. \A k \in Tokens : sessions[k] \in SessionRows
        BY DEF BankingInv, BankingTypeOK
      <3>4. \A p \in Appenders : seen[p] \in SessionRows
        BY DEF BankingInv, BankingTypeOK
      <3> QED
        BY <3>1, <3>2, <3>3, <3>4
    <2>3. ASSUME NEW k \in Tokens, RevokeSession(k) PROVE NoAuthority'
      BY <2>3 DEF RevokeSession, threadVars, IsAdmin, Live, BankingInv, BankingTypeOK, SessionRows
    <2>4. ASSUME NEW p \in Appenders, CheckRole(p) PROVE NoAuthority'
      BY <2>4 DEF CheckRole, BankingInv, BankingTypeOK
    <2>5. ASSUME NEW p \in Appenders, NEW t \in Times, Register(p, t) PROVE NoAuthority'
      BY <2>5 DEF Register
    <2>6. ASSUME NEW p \in Appenders, ReadClock(p) \/ Reserve(p) \/ Refuse(p) PROVE NoAuthority'
      BY <2>6 DEF ReadClock, Reserve, Refuse, Verified, BankingInv, BankingTypeOK
    <2>7. ASSUME NEW p \in Appenders, CheckPCI(p) \/ VerifySignature(p) \/ FraudScore(p)
          PROVE  NoAuthority'
      BY <2>7 DEF CheckPCI, VerifySignature, FraudScore, BankingInv, BankingTypeOK
    <2>8. ASSUME NEW p \in Appenders, OtherRoute(p) \/ AuditProof(p) \/ Answer(p) \/ Abandon(p)
          PROVE  NoAuthority'
      <3>1. CASE Done(p) /\ UNCHANGED <<clock, sessions>>
        BY <3>1 DEF BankingInv, BankingTypeOK
      <3>2. CASE GoTo(p, "proof") /\ UNCHANGED <<clock, sessions, seen>>
        BY <3>2 DEF BankingInv, BankingTypeOK
      <3> QED
        BY <2>8, <3>1, <3>2 DEF OtherRoute, AuditProof, Answer, Abandon
    <2>9. ASSUME NEW p \in Appenders, AppendStep(p) PROVE NoAuthority'
      BY <2>9 DEF AppendStep, threadVars
    <2>10. ASSUME NEW p \in Appenders, NEW r \in workload, Arrive(p, r) PROVE NoAuthority'
      BY <2>10 DEF Arrive, BankingInv, BankingTypeOK
    <2>11. ASSUME NEW t \in Times, CleanExpired(t) PROVE NoAuthority'
      BY <2>11 DEF CleanExpired, threadVars
    <2>12. CASE UNCHANGED bankingVars
      BY <2>12 DEF bankingVars, threadVars
    <2> QED
      BY <2>1, <2>2, <2>3, <2>4, <2>5, <2>6, <2>7, <2>8, <2>9, <2>10, <2>11, <2>12
      DEF BankingNext, ServeNext
  <1> DEFINE Stays == NoAuthority => NoAuthority'
  <1>2. BankingInv /\ [BankingNext]_bankingVars => [Stays]_bankingVars
    BY <1>1
  <1> HIDE DEF Stays
  <1>3. BankingSpec => [][Stays]_bankingVars
    BY <1>2, BankingInvariance, PTL DEF BankingSpec
  <1> QED
    BY <1>3 DEF Stays, AuthorityIsNotRegained
=============================================================================
