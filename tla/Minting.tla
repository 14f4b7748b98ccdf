------------------------------ MODULE Minting ------------------------------
(***************************************************************************)
(* Durable minting: peoples_coin/services/minting_service.py with its      *)
(* caller systems/circulatory_system.py and its tables                     *)
(* models/mint_intent.py.                                                  *)
(*                                                                         *)
(* Web requests record a mint intent and its outbox row in one             *)
(* transaction; dispatchers publish outbox rows to a broker that may       *)
(* deliver a message any number of times; workers execute intents against  *)
(* a blockchain adapter.  An intent is identified with its goodwill action *)
(* (mint_intents.goodwill_action_id and idempotency_key are unique).       *)
(*                                                                         *)
(* A step is one database transaction or one external call.  A transaction *)
(* that holds a row lock from its first read to its commit and makes no    *)
(* visible change in between is one step.                                  *)
(***************************************************************************)
EXTENDS Integers, FiniteSets

CONSTANTS
  Actions,        \* goodwill actions
  Workers,        \* mint workers calling execute
  Dispatchers,    \* processes calling dispatch_batch
  MAX_ATTEMPTS,   \* MintingService.MAX_ATTEMPTS
  BatchLimit,     \* the limit argument of dispatch_batch
  KeyEnforcement, \* the kinds of chain protocol considered: does one enforce the key?
  CanCrash        \* may a worker process stop between two of its steps?

ASSUME MintingAssumption ==
  /\ MAX_ATTEMPTS \in Nat \ {0}
  /\ BatchLimit \in Nat \ {0}
  /\ KeyEnforcement \subseteq BOOLEAN
  /\ CanCrash \in BOOLEAN

VARIABLES
  \* goodwill_actions
  eligible,   \* actions that are VERIFIED with a primary wallet, amount > 0
  creating,   \* actions whose row create_intent holds FOR UPDATE
  \* mint_intents: one column each
  state, attempts, tx_hash,
  \* mint_outbox and the broker
  outbox,     \* "none", "due", "backoff" (available_at in the future), "published"
  todo, sent, failed,  \* a dispatcher's open transaction: rows left, published, failed
  topic,      \* actions whose message the broker has accepted
  \* workers
  pc, job, marker, seen,
  \* the chain: its transactions by action and attempt, and its kind
  chain, keyed,
  \* events in the audit log, as <<action, event>>
  audit

requestVars == <<eligible, creating>>
intentVars == <<state, attempts, tx_hash>>
dispatchVars == <<outbox, todo, sent, failed, topic>>
workerVars == <<pc, job, marker, seen>>
chainVars == <<chain, keyed>>
vars == <<requestVars, intentVars, dispatchVars, workerVars, chainVars, audit>>

Attempts == 1 .. MAX_ATTEMPTS
NoTx == 0
NoJob == "no job"
States == {"NONE", "PENDING", "SUBMITTED", "CONFIRMED", "FAILED", "AMBIGUOUS"}
TxStatus == {"none", "sent", "lost", "landed", "confirmed"}
Row == [state : States, attempts : 0 .. MAX_ATTEMPTS, tx_hash : 0 .. MAX_ATTEMPTS]
NoRow == [state |-> "NONE", attempts |-> 0, tx_hash |-> NoTx]

TypeOK ==
  /\ eligible \subseteq Actions
  /\ creating \subseteq Actions
  /\ state \in [Actions -> States]
  /\ attempts \in [Actions -> 0 .. MAX_ATTEMPTS]
  /\ tx_hash \in [Actions -> 0 .. MAX_ATTEMPTS]
  /\ outbox \in [Actions -> {"none", "due", "backoff", "published"}]
  /\ todo \in [Dispatchers -> SUBSET Actions]
  /\ sent \in [Dispatchers -> SUBSET Actions]
  /\ failed \in [Dispatchers -> SUBSET Actions]
  /\ topic \subseteq Actions
  /\ pc \in [Workers -> {"idle", "marked", "ready", "sent", "audit"}]
  /\ job \in [Workers -> Actions \union {NoJob}]
  /\ \A w \in Workers : pc[w] # "idle" => job[w] \in Actions
  /\ marker \in [Workers -> 0 .. MAX_ATTEMPTS]
  /\ seen \in [Workers -> Row]
  /\ chain \in [Actions -> [Attempts -> TxStatus]]
  /\ keyed \in BOOLEAN
  /\ audit \subseteq Actions \X (States \union {"CREATED"})

Init ==
  /\ eligible = {}
  /\ creating = {}
  /\ state = [a \in Actions |-> "NONE"]
  /\ attempts = [a \in Actions |-> 0]
  /\ tx_hash = [a \in Actions |-> NoTx]
  /\ outbox = [a \in Actions |-> "none"]
  /\ todo = [d \in Dispatchers |-> {}]
  /\ sent = [d \in Dispatchers |-> {}]
  /\ failed = [d \in Dispatchers |-> {}]
  /\ topic = {}
  /\ pc = [w \in Workers |-> "idle"]
  /\ job = [w \in Workers |-> NoJob]
  /\ marker = [w \in Workers |-> 0]
  /\ seen = [w \in Workers |-> NoRow]
  /\ chain = [a \in Actions |-> [n \in Attempts |-> "none"]]
  /\ keyed \in KeyEnforcement
  /\ audit = {}

-----------------------------------------------------------------------------
(* Recording the intent: create_intent and its caller.                     *)

\* Reviewers and users move the action in and out of eligibility; the row
\* lock of create_intent keeps them out while it runs.
Review(a) ==
  /\ a \notin creating
  /\ \/ a \notin eligible /\ eligible' = eligible \union {a}
     \/ a \in eligible /\ eligible' = eligible \ {a}
  /\ UNCHANGED <<creating, intentVars, dispatchVars, workerVars, chainVars, audit>>

\* The locked read, the eligibility checks, the flushed but uncommitted rows,
\* and the audit entry, which its own transaction makes durable at once.
CreateIntent(a) ==
  /\ a \notin creating
  /\ state[a] = "NONE"
  /\ a \in eligible
  /\ creating' = creating \union {a}
  /\ audit' = audit \union {<<a, "CREATED">>}
  /\ UNCHANGED <<eligible, intentVars, dispatchVars, workerVars, chainVars>>

\* Faulty variant: the outbox row is written by a transaction of its own.
CommitIntentAlone(a) ==
  /\ a \in creating
  /\ creating' = creating \ {a}
  /\ state' = [state EXCEPT ![a] = "PENDING"]
  /\ outbox' \in {outbox, [outbox EXCEPT ![a] = "due"]}
  /\ UNCHANGED <<eligible, attempts, tx_hash, todo, sent, failed, topic, workerVars,
                 chainVars, audit>>

\* The caller's commit makes the intent and its outbox row visible together.
CommitIntent(a) ==
  /\ a \in creating
  /\ creating' = creating \ {a}
  /\ state' = [state EXCEPT ![a] = "PENDING"]
  /\ outbox' = [outbox EXCEPT ![a] = "due"]
  /\ UNCHANGED <<eligible, attempts, tx_hash, todo, sent, failed, topic, workerVars,
                 chainVars, audit>>

\* The commit fails, or the process stops: everything but the audit entry
\* is rolled back.
RollbackIntent(a) ==
  /\ a \in creating
  /\ creating' = creating \ {a}
  /\ UNCHANGED <<eligible, intentVars, dispatchVars, workerVars, chainVars, audit>>

-----------------------------------------------------------------------------
(* Publishing the outbox: dispatch_batch.                                  *)

Batch(d) == todo[d] \union sent[d] \union failed[d]
Locked == UNION {Batch(d) : d \in Dispatchers}

\* SELECT ... FOR UPDATE SKIP LOCKED LIMIT: as many due, unlocked rows as the
\* limit allows, in no particular order.
SelectBatch(d) ==
  /\ Batch(d) = {}
  /\ LET due == {a \in Actions \ Locked : outbox[a] = "due"}
         size == IF Cardinality(due) < BatchLimit THEN Cardinality(due) ELSE BatchLimit
     IN  \E rows \in SUBSET due :
           /\ rows # {}
           /\ Cardinality(rows) = size
           /\ todo' = [todo EXCEPT ![d] = rows]
  /\ UNCHANGED <<requestVars, intentVars, outbox, sent, failed, topic, workerVars, chainVars,
                 audit>>

Publish(d, a) ==
  /\ a \in todo[d]
  /\ topic' = topic \union {a}
  /\ todo' = [todo EXCEPT ![d] = @ \ {a}]
  /\ sent' = [sent EXCEPT ![d] = @ \union {a}]
  /\ UNCHANGED <<requestVars, intentVars, outbox, failed, workerVars, chainVars, audit>>

\* The publisher raises.  The broker may have accepted the message all the same.
PublishFails(d, a) ==
  /\ a \in todo[d]
  /\ topic' \in {topic, topic \union {a}}
  /\ todo' = [todo EXCEPT ![d] = @ \ {a}]
  /\ failed' = [failed EXCEPT ![d] = @ \union {a}]
  /\ UNCHANGED <<requestVars, intentVars, outbox, sent, workerVars, chainVars, audit>>

CommitBatch(d) ==
  /\ Batch(d) # {}
  /\ todo[d] = {}
  /\ outbox' = [a \in Actions |-> CASE a \in sent[d] -> "published"
                                    [] a \in failed[d] -> "backoff"
                                    [] OTHER -> outbox[a]]
  /\ sent' = [sent EXCEPT ![d] = {}]
  /\ failed' = [failed EXCEPT ![d] = {}]
  /\ UNCHANGED <<requestVars, intentVars, todo, topic, workerVars, chainVars, audit>>

\* Faulty variant: rows are not given back when the dispatcher stops.
DispatcherCrashKeepsRows(d) ==
  /\ Batch(d) # {}
  /\ outbox' = [a \in Actions |-> IF a \in Batch(d) THEN "published" ELSE outbox[a]]
  /\ todo' = [todo EXCEPT ![d] = {}]
  /\ sent' = [sent EXCEPT ![d] = {}]
  /\ failed' = [failed EXCEPT ![d] = {}]
  /\ UNCHANGED <<requestVars, intentVars, topic, workerVars, chainVars, audit>>

\* The dispatcher stops, or its commit fails: its marks are rolled back and
\* its row locks released, but what it published stays published.
DispatcherCrash(d) ==
  /\ Batch(d) # {}
  /\ todo' = [todo EXCEPT ![d] = {}]
  /\ sent' = [sent EXCEPT ![d] = {}]
  /\ failed' = [failed EXCEPT ![d] = {}]
  /\ UNCHANGED <<requestVars, intentVars, outbox, topic, workerVars, chainVars, audit>>

\* available_at is reached.
BackoffElapses(a) ==
  /\ outbox[a] = "backoff"
  /\ outbox' = [outbox EXCEPT ![a] = "due"]
  /\ UNCHANGED <<requestVars, intentVars, todo, sent, failed, topic, workerVars, chainVars,
                 audit>>

-----------------------------------------------------------------------------
(* The chain behind the adapter: external, modelled from how execute uses  *)
(* it.                                                                     *)

Landed(a) == {n \in Attempts : chain[a][n] \in {"landed", "confirmed"}}

\* The transactions a receipt for attempt n of action a may name.  A protocol
\* that enforces the key answers with the transaction that took effect.
ReceiptsFor(a, n) == IF keyed THEN Landed(a) ELSE Landed(a) \intersect {n}

SetTx(a, n, status) == chain' = [chain EXCEPT ![a][n] = status] /\ keyed' = keyed

Land(a, n) ==
  /\ chain[a][n] = "sent"
  /\ keyed => Landed(a) = {}
  /\ SetTx(a, n, "landed")
  /\ UNCHANGED <<requestVars, intentVars, dispatchVars, workerVars, audit>>

Lose(a, n) ==
  /\ chain[a][n] = "sent"
  /\ SetTx(a, n, "lost")
  /\ UNCHANGED <<requestVars, intentVars, dispatchVars, workerVars, audit>>

Confirm(a, n) ==
  /\ chain[a][n] = "landed"
  /\ SetTx(a, n, "confirmed")
  /\ UNCHANGED <<requestVars, intentVars, dispatchVars, workerVars, audit>>

-----------------------------------------------------------------------------
(* Executing an intent: execute.  Delivery of a message starts it; an      *)
(* intent found CONFIRMED is returned untouched.                           *)

Delivered(w, a) == pc[w] = "idle" /\ a \in topic

\* execute returns or raises: the worker keeps nothing.
Finish(w) ==
  /\ pc' = [pc EXCEPT ![w] = "idle"]
  /\ job' = [job EXCEPT ![w] = NoJob]
  /\ marker' = [marker EXCEPT ![w] = 0]
  /\ seen' = [seen EXCEPT ![w] = NoRow]

\* Faulty variant: a receipt of any kind counts as a confirmation.
OutcomeTrusting(a, n) == {"SUBMITTED", "CONFIRMED"}

\* A receipt's confirmed flag may be out of date, never ahead of the chain.
OutcomeOf(a, n) == {"SUBMITTED"} \union (IF chain[a][n] = "confirmed" THEN {"CONFIRMED"} ELSE {})

\* SUBMITTED or AMBIGUOUS: look the key up and record the receipt, all under
\* the row lock.
ReconcileFound(w, a) ==
  /\ Delivered(w, a)
  /\ state[a] \in {"SUBMITTED", "AMBIGUOUS"}
  /\ \E n \in Landed(a) :
       /\ tx_hash' = [tx_hash EXCEPT ![a] = n]
       /\ \E outcome \in OutcomeOf(a, n) : state' = [state EXCEPT ![a] = outcome]
  /\ pc' = [pc EXCEPT ![w] = "audit"]
  /\ job' = [job EXCEPT ![w] = a]
  /\ UNCHANGED <<requestVars, attempts, dispatchVars, marker, seen, chainVars, audit>>

\* The lookup finds nothing, which may also be a lagging index.
ReconcileMissing(w, a) ==
  /\ Delivered(w, a)
  /\ state[a] \in {"SUBMITTED", "AMBIGUOUS"}
  /\ state' = [state EXCEPT ![a] = "AMBIGUOUS"]
  /\ UNCHANGED <<requestVars, attempts, tx_hash, dispatchVars, workerVars, chainVars, audit>>

GiveUp(w, a) ==
  /\ Delivered(w, a)
  /\ state[a] \in {"PENDING", "FAILED"}
  /\ attempts[a] >= MAX_ATTEMPTS
  /\ state' = [state EXCEPT ![a] = "FAILED"]
  /\ UNCHANGED <<requestVars, attempts, tx_hash, dispatchVars, workerVars, chainVars, audit>>

\* Faulty variant: the attempt is counted only when it ends.
TakeMarkerInMemory(w, a) ==
  /\ Delivered(w, a)
  /\ state[a] \in {"PENDING", "FAILED"}
  /\ attempts[a] < MAX_ATTEMPTS
  /\ pc' = [pc EXCEPT ![w] = "marked"]
  /\ job' = [job EXCEPT ![w] = a]
  /\ marker' = [marker EXCEPT ![w] = attempts[a] + 1]
  /\ UNCHANGED <<requestVars, attempts, state, tx_hash, dispatchVars, seen, chainVars, audit>>

\* Faulty variant: no limit on the attempts.
TakeMarkerUnlimited(w, a) ==
  /\ Delivered(w, a)
  /\ state[a] \in {"PENDING", "FAILED"}
  /\ attempts' = [attempts EXCEPT ![a] = @ + 1]
  /\ pc' = [pc EXCEPT ![w] = "marked"]
  /\ job' = [job EXCEPT ![w] = a]
  /\ marker' = [marker EXCEPT ![w] = attempts[a] + 1]
  /\ UNCHANGED <<requestVars, state, tx_hash, dispatchVars, seen, chainVars, audit>>

\* The durable attempt marker: this commit releases the row lock while the
\* state still reads PENDING.
TakeMarker(w, a) ==
  /\ Delivered(w, a)
  /\ state[a] \in {"PENDING", "FAILED"}
  /\ attempts[a] < MAX_ATTEMPTS
  /\ attempts' = [attempts EXCEPT ![a] = @ + 1]
  /\ pc' = [pc EXCEPT ![w] = "marked"]
  /\ job' = [job EXCEPT ![w] = a]
  /\ marker' = [marker EXCEPT ![w] = attempts[a] + 1]
  /\ UNCHANGED <<requestVars, state, tx_hash, dispatchVars, seen, chainVars, audit>>

\* Reading intent.recipient_address reloads the row the commit expired; later
\* writes are relative to this copy.
Reload(w) ==
  /\ pc[w] = "marked"
  /\ pc' = [pc EXCEPT ![w] = "ready"]
  /\ seen' = [seen EXCEPT ![w] = [state    |-> state[job[w]],
                                  attempts |-> attempts[job[w]],
                                  tx_hash  |-> tx_hash[job[w]]]]
  /\ UNCHANGED <<requestVars, intentVars, dispatchVars, job, marker, chainVars, audit>>

\* adapter.submit hands the transaction to the network.
Submit(w) ==
  /\ pc[w] = "ready"
  /\ SetTx(job[w], marker[w], "sent")
  /\ pc' = [pc EXCEPT ![w] = "sent"]
  /\ UNCHANGED <<requestVars, intentVars, dispatchVars, job, marker, seen, audit>>

\* The ORM writes a column only if its value differs from the loaded copy.
Written(current, loaded, value) == IF value = loaded THEN current ELSE value

WriteState(w, value) ==
  state' = [state EXCEPT ![job[w]] = Written(@, seen[w].state, value)]

\* submit returned a receipt: record it.
RecordReceipt(w) ==
  /\ pc[w] = "sent"
  /\ \E n \in ReceiptsFor(job[w], marker[w]) :
       /\ tx_hash' = [tx_hash EXCEPT ![job[w]] = Written(@, seen[w].tx_hash, n)]
       /\ \E outcome \in OutcomeOf(job[w], n) : WriteState(w, outcome)
  /\ pc' = [pc EXCEPT ![w] = "audit"]
  /\ UNCHANGED <<requestVars, attempts, dispatchVars, job, marker, seen, chainVars, audit>>

\* submit raised AmbiguousSubmission, whatever became of the transaction.
RecordAmbiguous(w) ==
  /\ pc[w] = "sent"
  /\ WriteState(w, "AMBIGUOUS")
  /\ Finish(w)
  /\ UNCHANGED <<requestVars, attempts, tx_hash, dispatchVars, chainVars, audit>>

\* Faulty variant: one attempt too few before giving up.
RecordErrorEarly(w) ==
  /\ pc[w] = "ready"
  /\ WriteState(w, IF seen[w].attempts >= MAX_ATTEMPTS - 1 THEN "FAILED" ELSE "PENDING")
  /\ Finish(w)
  /\ UNCHANGED <<requestVars, attempts, tx_hash, dispatchVars, chainVars, audit>>

\* submit raised anything else: execute takes it that nothing was sent.
RecordError(w) ==
  /\ pc[w] = "ready"
  /\ WriteState(w, IF seen[w].attempts >= MAX_ATTEMPTS THEN "FAILED" ELSE "PENDING")
  /\ Finish(w)
  /\ UNCHANGED <<requestVars, attempts, tx_hash, dispatchVars, chainVars, audit>>

\* MINT_STATE_CHANGED, in a transaction of its own after the commit; the row
\* is read again for it.
AuditState(w) ==
  /\ pc[w] = "audit"
  /\ audit' = audit \union {<<job[w], state[job[w]]>>}
  /\ Finish(w)
  /\ UNCHANGED <<requestVars, intentVars, dispatchVars, chainVars>>

\* The security store is unavailable and append raises.
AuditFails(w) ==
  /\ pc[w] = "audit"
  /\ Finish(w)
  /\ UNCHANGED <<requestVars, intentVars, dispatchVars, chainVars, audit>>

WorkerCrash(w) ==
  /\ CanCrash
  /\ pc[w] \in {"marked", "ready", "sent"}
  /\ Finish(w)
  /\ UNCHANGED <<requestVars, intentVars, dispatchVars, chainVars, audit>>

-----------------------------------------------------------------------------
RequestNext(a) == Review(a) \/ CreateIntent(a) \/ CommitIntent(a) \/ RollbackIntent(a)

DispatchNext(d) ==
  \/ SelectBatch(d) \/ CommitBatch(d) \/ DispatcherCrash(d)
  \/ \E a \in Actions : Publish(d, a) \/ PublishFails(d, a)

ChainNext(a) == \E n \in Attempts : Land(a, n) \/ Lose(a, n) \/ Confirm(a, n)

ExecuteNext(w) ==
  \/ \E a \in Actions :
       ReconcileFound(w, a) \/ ReconcileMissing(w, a) \/ GiveUp(w, a) \/ TakeMarker(w, a)
  \/ Reload(w) \/ Submit(w) \/ RecordReceipt(w) \/ RecordAmbiguous(w) \/ RecordError(w)
  \/ AuditState(w) \/ AuditFails(w) \/ WorkerCrash(w)

Next ==
  \/ \E a \in Actions : RequestNext(a) \/ BackoffElapses(a) \/ ChainNext(a)
  \/ \E d \in Dispatchers : DispatchNext(d)
  \/ \E w \in Workers : ExecuteNext(w)

Spec == Init /\ [][Next]_vars

\* A deployed dispatcher keeps calling dispatch_batch, a publication that is
\* tried again and again succeeds, and a batch that published a row again and
\* again commits: not every one of them is cut off by a crash.
DispatchFairness ==
  /\ \A a \in Actions : WF_vars(BackoffElapses(a))
  /\ \A d \in Dispatchers :
       /\ WF_vars(SelectBatch(d))
       /\ WF_vars(CommitBatch(d))
       /\ \A a \in Actions :
            SF_vars(Publish(d, a)) /\ SF_vars(a \in sent[d] /\ CommitBatch(d))

FairSpec == Spec /\ DispatchFairness

-----------------------------------------------------------------------------
(* Properties.                                                             *)

InFlight(w, a) == pc[w] \in {"marked", "ready", "sent"} /\ job[w] = a

\* Every transaction handed to the network was paid for by its own committed
\* attempt marker, under crashes and duplicate deliveries: no more than
\* attempts, hence MAX_ATTEMPTS, submissions exist for an intent, and no two
\* workers submit on the same marker (execute, lines 59-61).
AttemptsCoverSubmissions ==
  \A a \in Actions :
    /\ \A n \in Attempts : chain[a][n] # "none" => n <= attempts[a]
    /\ \A w \in Workers : InFlight(w, a) => marker[w] <= attempts[a]
    /\ \A v, w \in Workers :
         v # w /\ InFlight(v, a) /\ InFlight(w, a) => marker[v] # marker[w]

\* A CONFIRMED row stands for a mint the chain has confirmed, and a recorded
\* tx_hash for a transaction that landed, whichever of several late answers
\* wrote last (execute, lines 52-57 and 66-70).
ConfirmedIsMinted ==
  \A a \in Actions :
    /\ state[a] = "CONFIRMED" => \E n \in Attempts : chain[a][n] = "confirmed"
    /\ tx_hash[a] # NoTx => tx_hash[a] \in Landed(a)

\* FAILED is only ever reported once all attempts are spent, although the
\* attempts read by line 65 may be out of date.
FailedIsExhausted ==
  \A a \in Actions : state[a] = "FAILED" => attempts[a] = MAX_ATTEMPTS

\* An intent and its outbox row exist together, only such an intent is ever
\* published, and its creation is in the audit log, although the audit entry
\* is written by a transaction of its own (create_intent, lines 30-34).
IntentIsPublishable ==
  \A a \in Actions :
    /\ state[a] # "NONE" <=> outbox[a] # "none"
    /\ a \in topic => state[a] # "NONE"
    /\ state[a] # "NONE" => <<a, "CREATED">> \in audit

\* The row describes one transaction: a CONFIRMED row names a confirmed one
\* (execute, lines 54 and 67-70).  With one worker it holds on any chain.
ConfirmedHashIsConfirmed ==
  \A a \in Actions :
    state[a] = "CONFIRMED" => tx_hash[a] # NoTx /\ chain[a][tx_hash[a]] = "confirmed"

\* With a chain that enforces the idempotency key it holds for any number of
\* workers, crashes and late answers (submit under the key, line 61).
KeyedHashIsConfirmed == keyed => ConfirmedHashIsConfirmed

Submits(a) == \E n \in Attempts : chain[a][n] = "none" /\ chain'[a][n] = "sent"

\* "Submit once, or reconcile an existing/ambiguous submission": nothing is
\* submitted for an intent whose earlier submission may have taken effect.
UnresolvedIsNotResubmitted ==
  [][\A a \in Actions :
       Submits(a) => \A n \in Attempts : chain[a][n] = "none"]_vars

\* "ambiguous submissions stop in AMBIGUOUS for manual reconciliation; they
\* are never automatically re-submitted" (README.md).
AmbiguousIsNeverResubmitted ==
  [][\A a \in Actions : Submits(a) => state[a] # "AMBIGUOUS"]_vars

\* Every committed intent is published in the end, although dispatchers stop,
\* publishers fail and locked rows are skipped (dispatch_batch).
CommittedIsPublished ==
  \A a \in Actions : state[a] # "NONE" ~> a \in topic /\ outbox[a] = "published"

\* The pipeline implements the promise it makes to the rest of the system.
Promise ==
  INSTANCE MintPromise WITH
    requested <- {a \in Actions : state[a] # "NONE"},
    reserved  <- attempts,
    minted    <- [a \in Actions |-> Landed(a)],
    reported  <- {a \in Actions : state[a] = "CONFIRMED"}

\* Every behaviour of the pipeline, crashes and duplicates included, is one of
\* the promise.
KeepsPromise == Promise!PromiseSpec
=============================================================================
