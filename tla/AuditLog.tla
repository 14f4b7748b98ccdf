------------------------------ MODULE AuditLog ------------------------------
(***************************************************************************)
(* The tamper-evident audit log: peoples_coin/banking_plugin/audit.py over *)
(* the transactions of banking_plugin/store.py, with the audit proof that  *)
(* banking_plugin/routes.py serves from it.                                *)
(*                                                                         *)
(* Every process that shares the security database appends to one hash     *)
(* chain.  A step is one SQL statement; statements read committed rows.    *)
(***************************************************************************)
EXTENDS Integers, FiniteSets

CONSTANTS
  Appenders,     \* threads calling append
  Readers,       \* threads serving /banking/audit-proof
  EventTypes,    \* event types, each with its context, timestamp and trace
  ActorForms,    \* what callers give as the actor, of "text" and "value"
  Dialects,      \* the databases considered, of "sqlite" and "postgresql"
  MaxSequence    \* bound: no append starts once this many numbers are drawn

Nobody == "nobody"

\* What is hashed and stored of an event.  Most callers name the actor by a
\* text; a request for /banking/verify-signature may hold any JSON value there,
\* of which the column takes numbers and Booleans.
Events == [type : EventTypes, actor : ActorForms]

ASSUME AuditLogAssumption ==
  /\ Nobody \notin Appenders
  /\ ActorForms \subseteq {"text", "value"}
  /\ Dialects \subseteq {"sqlite", "postgresql"}
  /\ MaxSequence \in Nat

VARIABLES
  dialect,       \* the database behind the store
  log,           \* committed rows of banking_audit_entries, by sequence
  nextSequence,  \* what the AUTOINCREMENT or BIGSERIAL column draws next
  lock,          \* holder of the write lock or advisory lock, or Nobody
  pc, draft,     \* an appender's open transaction
  stage, snapshot  \* an audit proof being served

vars == <<dialect, log, nextSequence, lock, pc, draft, stage, snapshot>>

Genesis == <<>>    \* '0' * 64
NoEvent == [type |-> "none", actor |-> "text"]
NoDraft == [event |-> NoEvent, previous |-> Genesis, index |-> 0, sequence |-> 0]

\* SHA-256 of the canonical JSON: equal only for equal entries.
HashEntry(index, event, previous) == <<index, event, previous>>

\* What the columns give back of an event: the actor's is VARCHAR, which makes
\* a text of a number or a Boolean; the rest is read back as it was written.
Stored(e) == [e EXCEPT !.actor = "text"]

\* The hash of row s of rows L; row 0 stands for the empty log.
HashAt(L, s) == IF s = 0 THEN Genesis ELSE L[s].hash

TypeOK ==
  /\ dialect \in Dialects
  /\ DOMAIN log \subseteq 1 .. nextSequence - 1
  /\ \A s \in DOMAIN log : log[s].event \in {Stored(e) : e \in Events}
  /\ nextSequence \in 1 .. MaxSequence + 1
  /\ lock \in Appenders \union {Nobody}
  /\ pc \in [Appenders -> {"idle", "locked", "read", "inserted"}]
  /\ DOMAIN draft = Appenders
  /\ \A p \in Appenders : draft[p].index \in 0 .. MaxSequence /\ draft[p].sequence \in 0 .. MaxSequence
  /\ stage \in [Readers -> {"idle", "snapshot", "verified", "rejected"}]
  /\ DOMAIN snapshot = Readers

Init ==
  /\ dialect \in Dialects
  /\ log = <<>>
  /\ nextSequence = 1
  /\ lock = Nobody
  /\ pc = [p \in Appenders |-> "idle"]
  /\ draft = [p \in Appenders |-> NoDraft]
  /\ stage = [r \in Readers |-> "idle"]
  /\ snapshot = [r \in Readers |-> <<>>]

-----------------------------------------------------------------------------
(* append.                                                                 *)

\* Faulty variant: the transaction starts without the lock.
AcquireUnlocked(p, e) ==
  /\ pc[p] = "idle"
  /\ nextSequence <= MaxSequence
  /\ pc' = [pc EXCEPT ![p] = "locked"]
  /\ draft' = [draft EXCEPT ![p] = [NoDraft EXCEPT !.event = e]]
  /\ UNCHANGED <<log, nextSequence, lock, stage, snapshot, dialect>>

\* BEGIN IMMEDIATE, or the transaction-level advisory lock.
Acquire(p, e) ==
  /\ pc[p] = "idle"
  /\ lock = Nobody
  /\ nextSequence <= MaxSequence
  /\ lock' = p
  /\ pc' = [pc EXCEPT ![p] = "locked"]
  /\ draft' = [draft EXCEPT ![p] = [NoDraft EXCEPT !.event = e]]
  /\ UNCHANGED <<log, nextSequence, stage, snapshot, dialect>>

\* ORDER BY sequence DESC LIMIT 1: the hash to link to, and the provisional
\* index that goes into this entry's hash.
ReadLast(p) ==
  /\ pc[p] = "locked"
  /\ \E s \in DOMAIN log \union {0} :
       /\ \A t \in DOMAIN log : t <= s
       /\ draft' = [draft EXCEPT ![p].previous = HashAt(log, s), ![p].index = s]
  /\ pc' = [pc EXCEPT ![p] = "read"]
  /\ UNCHANGED <<log, nextSequence, lock, stage, snapshot, dialect>>

\* INSERT ... RETURNING sequence.
Insert(p) ==
  /\ pc[p] = "read"
  /\ draft' = [draft EXCEPT ![p].sequence = nextSequence]
  /\ nextSequence' = nextSequence + 1
  /\ pc' = [pc EXCEPT ![p] = "inserted"]
  /\ UNCHANGED <<log, lock, stage, snapshot, dialect>>

\* The hash covers the event as it was given, the row holds it as it is stored.
RowOf(d) ==
  [event |-> Stored(d.event), previous |-> d.previous, hash |-> HashEntry(d.index, d.event, d.previous)]

End(p) ==
  /\ pc' = [pc EXCEPT ![p] = "idle"]
  /\ draft' = [draft EXCEPT ![p] = NoDraft]
  /\ lock' = Nobody

Commit(p) ==
  /\ pc[p] = "inserted"
  /\ log' = [s \in DOMAIN log \union {draft[p].sequence} |->
               IF s = draft[p].sequence THEN RowOf(draft[p]) ELSE log[s]]
  /\ End(p)
  /\ UNCHANGED <<nextSequence, stage, snapshot, dialect>>

\* Faulty variant: no dialect takes a drawn number back.
RollbackKeepsNumber(p) ==
  /\ pc[p] # "idle"
  /\ End(p)
  /\ UNCHANGED <<log, nextSequence, stage, snapshot, dialect>>

\* A statement or the commit fails, or the process stops.  AUTOINCREMENT is
\* transactional; the sequence behind BIGSERIAL is not.
Rollback(p) ==
  /\ pc[p] # "idle"
  /\ nextSequence' = IF dialect = "sqlite" /\ pc[p] = "inserted"
                     THEN draft[p].sequence ELSE nextSequence
  /\ End(p)
  /\ UNCHANGED <<log, stage, snapshot, dialect>>

-----------------------------------------------------------------------------
(* verify_integrity and the audit proof.                                   *)

\* Row t is the one before row s of L, 0 if there is none, and s links to it.
LinksTo(L, s, t) ==
  /\ t \in DOMAIN L \union {0}
  /\ t < s /\ \A u \in DOMAIN L : u <= t \/ u >= s
  /\ L[s].previous = HashAt(L, t)

\* Each row of L links to the row before it in sequence order, and its hash
\* covers that link and an event that is stored as the row's.
Linked(L) ==
  \A s \in DOMAIN L : \E t \in DOMAIN L \union {0}, e \in Events :
    /\ LinksTo(L, s, t)
    /\ Stored(e) = L[s].event
    /\ L[s].hash = HashEntry(t, e, L[s].previous)

\* verify_integrity on rows L: consecutive numbers from 1, every link and
\* every hash.
Verifies(L) ==
  LET n == Cardinality(DOMAIN L) IN
    /\ DOMAIN L = 1 .. n
    /\ \A i \in 1 .. n :
         /\ L[i].previous = HashAt(L, i - 1)
         /\ L[i].hash = HashEntry(i - 1, L[i].event, L[i].previous)

\* audit_proof reads the snapshot in one transaction ...
TakeSnapshot(r) ==
  /\ stage[r] # "snapshot"
  /\ snapshot' = [snapshot EXCEPT ![r] = log]
  /\ stage' = [stage EXCEPT ![r] = "snapshot"]
  /\ UNCHANGED <<log, nextSequence, lock, pc, draft, dialect>>

\* Faulty variant: the links are followed, the positions are not checked.
FollowsLinks(L) ==
  \A s \in DOMAIN L : \E t \in DOMAIN L \union {0} :
    LinksTo(L, s, t) /\ L[s].hash = HashEntry(t, L[s].event, L[s].previous)

VerifyLinks(r) ==
  /\ stage[r] = "snapshot"
  /\ stage' = [stage EXCEPT ![r] = IF FollowsLinks(log) THEN "verified" ELSE "rejected"]
  /\ UNCHANGED <<log, nextSequence, lock, pc, draft, snapshot, dialect>>

\* ... and verifies the log in a later one.
VerifyIntegrity(r) ==
  /\ stage[r] = "snapshot"
  /\ stage' = [stage EXCEPT ![r] = IF Verifies(log) THEN "verified" ELSE "rejected"]
  /\ UNCHANGED <<log, nextSequence, lock, pc, draft, snapshot, dialect>>

-----------------------------------------------------------------------------
AppendNext(p) ==
  \/ \E e \in Events : Acquire(p, e)
  \/ ReadLast(p) \/ Insert(p) \/ Commit(p) \/ Rollback(p)

Next ==
  \/ \E p \in Appenders : AppendNext(p)
  \/ \E r \in Readers : TakeSnapshot(r) \/ VerifyIntegrity(r)

Spec == Init /\ [][Next]_vars

-----------------------------------------------------------------------------
(* Properties.                                                             *)

\* Whatever the interleaving of appenders and the failures between their
\* statements, each committed row links to the committed row before it in
\* sequence order and is hashed with that link (append, lines 33-43).
ChainIsLinked == Linked(log)

\* The log only grows at its end: what a reader has seen is a prefix of what
\* any later reader sees (append, lines 33-43; get_snapshot, lines 63-65).
SnapshotIsPrefix ==
  \A r \in Readers : stage[r] # "idle" =>
    /\ DOMAIN snapshot[r] \subseteq DOMAIN log
    /\ \A s \in DOMAIN snapshot[r] : snapshot[r][s] = log[s]
    /\ \A s \in DOMAIN snapshot[r] : \A t \in DOMAIN log \ DOMAIN snapshot[r] : s < t

\* A proof served as verified is itself an intact log, although the snapshot
\* and the verification are separate reads (audit_proof, lines 67-81).
ProofIsIntact ==
  \A r \in Readers : stage[r] = "verified" => Verifies(snapshot[r])

\* Row s was hashed with its event as it is stored.
HashedAsStored(L, s) ==
  \E i \in 0 .. MaxSequence : L[s].hash = HashEntry(i, L[s].event, L[s].previous)

\* On SQLite a log nobody has tampered with verifies exactly as long as every
\* append named its actor by a text: no interleaving of appenders and no failed
\* append makes verify_integrity (lines 54-61) return False, and an actor of
\* another JSON type (routes.py, line 45) does for good, because it is hashed as
\* given and read back as a text.  audit_proof then answers "tamper or corruption
\* detected" (routes.py, line 74) of a log that nobody has altered.
UntamperedLogVerifies ==
  dialect = "sqlite" => (Verifies(log) <=> \A s \in DOMAIN log : HashedAsStored(log, s))

\* "hash used provisional index equals previous sequence, which is
\* sequence-1" (append, line 45).
ProvisionalIndexIsPosition ==
  \A s \in DOMAIN log : \E e \in Events :
    Stored(e) = log[s].event /\ log[s].hash = HashEntry(s - 1, e, log[s].previous)
=============================================================================
