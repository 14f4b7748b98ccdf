# A TLA+ verification project for The People's Coin

This directory models the stateful core of the Python application under
`peoples_coin/`: the protocols in which several processes, threads, messages or
failures meet, and the pure decisions (validation, filters, answers of routes)
around them. Each module translates the code of one component; TLC checks it on
small instances, and TLAPS proves every invariant and every action property but one
that the passing runs check, for any number of actors.

Paths below are relative to `peoples_coin/` where they start with one of its
directories, else to the repository root. Line numbers are those of the modelled
commit; `PROJECT.json` maps every definition to its lines.

## The system

The application is a Flask service (several web processes, each with threads)
with a PostgreSQL database, an optional *security database* (SQLite or
PostgreSQL) shared by all processes, a message broker, background threads,
Firebase for identities, and a blockchain behind an adapter that the repository
does not contain.

| Component | State | Operations | Hard behaviour | Correct when |
|---|---|---|---|---|
| **Durable minting** `services/minting_service.py`, `systems/circulatory_system.py`, `models/mint_intent.py` | `mint_intents`, `mint_outbox`, the broker's topic, the chain | `create_intent`, `dispatch_batch`, `execute` | a marker is committed before the side effect, which releases the row lock; messages are redelivered; processes stop between the submission and its record | submissions are paid for by durable attempts; a reported confirmation is a mint; every intent is published |
| **Tamper-evident audit log** `banking_plugin/audit.py`, `banking_plugin/store.py` | `banking_audit_entries`, its number generator, the write lock | `append`, `verify_integrity`, `get_snapshot` | appenders of several processes; failures after a number was drawn; a proof made of two reads | one hash chain; snapshots stay prefixes; an untampered log verifies |
| **Signatures, nonces, PCI filter** `banking_plugin/middleware.py`, `banking_plugin/pci.py`, `banking_plugin/routes.py` | `banking_nonces` | the `before_request` hook, the banking routes, the clean-up | delayed and duplicated requests; a time read before the lock; a failure between the transactions of one request | each nonce succeeds at most once |
| **RBAC sessions** `banking_plugin/rbac.py` | `banking_sessions` | registration, look-up, role check, revocation | a row judged after it was read, a revocation in between | lost authority does not come back |
| **Immune system** `systems/immune_system.py` | blacklist, greylist, rate-limit deques, one lock | `check`, `record_invalid_attempt`, `add_to_blacklist`, the cleaner | the clock is read before the lock is waited for; nested locking; a forked worker has no cleaner | the rate limit holds; bans last; thresholds ban |
| **Fraud engine** `banking_plugin/fraud.py` | `banking_fraud_accounts`, `banking_fraud_events` | the fraud-score request, `freeze_account`, `unfreeze_account` | a request is several transactions; stale times; operators in between | velocity limit holds; freezes are earned |
| **Governance** `services/governance_service.py` | `proposals`, `votes` | create, open, vote, close, evaluate | votes commit after the evaluation counted; blind status writes | proposals open; one vote per user; the outcome counts what was cast in time |
| **Application factory** `factory.py`, `Dockerfile` | how far a process is with its start | `create_app`, forks of a preloaded master | several processes start together; a start that fails after its commit | every process serves, on one genesis block |
| **Cognitive and nervous systems** `systems/cognitive_system.py`, `systems/nervous_system.py` | an in-memory queue, the background loop, `audit_log` | receive, enqueue, the loop, start and stop | the event is queued before the request commits; `stop` gives up waiting; commits fail | the order is kept; the loop goes on |
| **Consensus and ledger** `consensus.py` | `chain_blocks`, the pool, balances | genesis, `new_block`, `replace_chain` | counting and inserting are separate | one genesis block |
| **User accounts and wallets** `services/user_service.py`, `routes/api_routes.py`, `models/db_utils.py` | `user_accounts`, `user_wallets`, the users Firebase knows | balance and coin updates, `link_user_wallet`, account deletion | values are read, changed and written back; a demotion and an insertion in one scope that swallows exceptions; two systems to delete from | no change is lost; one primary wallet, which stays; Firebase before the database |
| **Records that refer to accounts** `models/*.py`, `models/schema.sql` | 22 tables with their foreign and unique keys | storing rows, the cascades of a deletion, replacing the ledger | bulk deletions bypass the ORM's cascades; rows are stored while an account goes | nothing dangles; what is to outlive an account does |
| **Goodwill actions** `systems/goodwill_system.py`, `services/goodwill_service.py` | open submissions, a paged reading | submission, history page by page | the user is read without a lock; count and fetch are two statements | a history read to its end misses nothing that was there |
| **Validation** `validate/`, `utils/validation/validation.py` | none | schemas, transaction checks, batches | edges of amounts and times | only sound transactions pass |
| **Routes of accounts and actions** `routes/*.py`, `utils/auth.py` | none | what each request is answered | accounts that go between two reads | own data only; nothing stored unexpectedly |
| Not modelled (last section) | | endocrine system, system controller, metabolic system, older governance, password service, status and observability, DID, message broker, migrations, deployment | | |

How they interact. A process starts through the factory, which creates the
genesis block and starts the background loop (`Node`). A banking request passes
the signature check, the nonce reservation and the PCI filter, then a route that
may check a session, assess fraud or prove the audit log, and ends with an audit
entry (`Banking` composes `AuditLog` and `Pci`; the assessment itself is
`Fraud`). Minting writes the same log, whose outcome matters to it only in that
an append may fail. The immune system stands before the public routes. Accounts
are what every record refers to: `Records` composes `Accounts` with the tables,
`Goodwill` adds the submissions and the readers, and `Routes` says which requests
get that far. The components communicate through rows, the broker and the audit
log, which is why each module has its tables as variables and its transactions
as steps.

## Modules

| Module | Role |
|---|---|
| `Minting` | the pipeline: requests, dispatchers, workers, broker and chain |
| `MintPromise` | the abstract specification of what the pipeline promises |
| `MintingProofs` | type correctness, the invariants, what holds with one worker at a time, and the refinement, proved |
| `AuditLog` | the audit log statement by statement |
| `Pci` | which data the filter stops, what is stripped or masked; pure |
| `Banking`, `BankingProofs` | gate, routes, nonces and sessions over `AuditLog` and `Pci`; the theorems about the log (chain, prefix, verification, proofs), that requests implement it, and those about nonces and sessions |
| `Sums`, `SumsProofs` | the sum of a function over a finite set, and the facts about it the other proofs need |
| `Immune`, `ImmuneProofs` | blacklist, greylist and rate limiter under one lock; types, the rate limit and the bans, proved |
| `Fraud`, `FraudProofs` | velocity, anomaly score and freeze as database transactions; all its properties proved |
| `Governance`, `GovernanceProofs` | proposals and votes as unlocked transactions; theorems on votes and results |
| `Node`, `NodeProofs` | start, fork and crash of processes, genesis block, event queue and loop; both safety properties proved |
| `Accounts` | balances, coins, wallets, deletion, replacement of the chain |
| `Schema` | the foreign and unique keys of every table, by `models/*.py` and by `schema.sql`; pure |
| `Records` | `Accounts` in a database whose other tables refer to the accounts |
| `Goodwill`, `GoodwillProofs` | submissions and paged readings over `Records`; the properties of accounts, references, lasting records, histories and the refinement of `Accounts`, proved |
| `Validation`, `Routes` | what a submission has to be, what each route answers; pure |
| `MC*` | instances for TLC: model values, small sets, symmetry, and the checks of the pure modules |

### Minting

*State.* `state`, `attempts` and `tx_hash` are the columns of `mint_intents`,
indexed by goodwill action because `goodwill_action_id` is unique. `outbox` is
`published_at` and `available_at` of the outbox row. `todo`, `sent` and
`failed` are the rows a dispatcher holds locked in its open transaction.
`topic` is what the broker has accepted: a message in it can be delivered any
number of times, which covers at-least-once delivery, redelivery and
reordering. `pc`, `job`, `marker` and `seen` are a worker inside `execute`;
`seen` is the row as SQLAlchemy loaded it, because a later flush writes only
columns that differ from that copy (`Written`). `chain` is, per action and
attempt, what became of the submitted transaction; `keyed` says whether the
chain enforces the idempotency key. The adapter's contract, taken from the
exceptions `execute` distinguishes, is that `AmbiguousSubmission` may mean
anything and any other exception means that nothing was sent.

*Steps.* The row lock is held from line 49 to the commit, so that
`ReconcileFound`, `ReconcileMissing`, `GiveUp` and `TakeMarker` are single
steps. The commit of the marker (line 60) releases the lock: from there
`Reload`, `Submit` and the recording of the answer (`RecordReceipt`,
`RecordAmbiguous`, `RecordError`) are separate steps which other workers
interleave. `WorkerCrash` and `DispatcherCrash` lose memory and roll back open
transactions. `CreateIntent` holds the action's row lock until its caller
commits or rolls back, while the audit entry is already durable.

*Promise.* `MintPromise` knows only requested actions, reserved attempts, mints
and reported confirmations. Reserving precedes minting; a report needs a mint;
a report may be withdrawn only after a second attempt, which is what a late
answer to an older attempt does. `KeepsPromise` is the refinement mapping.

### AuditLog

`log` maps committed sequence numbers to rows; `nextSequence` is the number the
column draws next. SQLite's AUTOINCREMENT gives a number back on rollback,
PostgreSQL's sequence does not (`Rollback`); `dialect` is chosen initially. The
hash function is modelled as an injective constructor. An event is hashed as it was
given and stored as its columns hold it (`Stored`): `routes.py` 45 takes the actor
from the JSON body, whatever its type, and the column is VARCHAR, so that a number
or a Boolean comes back as a text. `ActorForms` says which of the two callers give.
`draft` and `pc` are an
appender between its statements; a reader takes its snapshot in one step and
verifies in a later one, as the route does. `MaxSequence` bounds how many
numbers are drawn.

### Banking

*State.* `nonces` and `sessions` are the two tables; `request`, `step`, `where`,
`now`, `seen` and `entry` are the local state of a thread inside its request, and
`accepted` is a history variable. A request is a record of what the code reads of
it: which body its signature is right for (the gate verifies the whole body, the
route a payload), the time and nonce it names, the leaves of its JSON body, its
session token. The HMAC and the canonical JSON are abstracted to that attribute.

*Steps.* Every transaction of the store is a step: `Reserve` deletes expired
nonces and inserts one with a time read before (`ReadClock`), `Lookup` reads a
session row that `CheckRole` judges later, `Register` replaces a row. The steps
of an append are `AuditLog`'s own (`AppendStep`, `Answer`): on SQLite the lock
they hold is the lock of nonces and sessions too (`MayWrite`). A request carries the
form of the actor it names, which only the verification route reads. `CheckPCI` uses
`Pci!Compliant`. `Abandon` ends a request between two transactions: what was
committed stays. `CleanExpired` and `RevokeSession` are what operators may call.

### Pci

JSON data is the set of its leaves, each with its path of keys and with what the
patterns see of its text: whether a PAN or an SSN is found in it, how many digits,
where an asterisk is. `Compliant` is the filter, `ZeroLogged` and `Sanitized` are
the two functions that strip and mask. `MCBanking` checks them as assumptions
over all paths of at most three keys: `FilterDescends` compares `Compliant` with a
recursive definition that descends as the code does; `ZeroLogIsComplete` says that
nothing sensitive is left in what is logged; `SanitationHasGaps` says where the
sanitation leaves a number (texts of lists, and what is in a list of a list);
`MaskedTextKeepsPan` that a text with both numbers keeps one. `sanitize_dict` has
no caller.

### Immune

One step is one critical section of `_in_memory_lock`; the time it works with is
any time between the end of the thread's previous step and now, because
`time.time()` is called before the lock is waited for. `lock` is a variable
only because `record_invalid_attempt` calls `add_to_blacklist` while it holds
the lock. `cleaning` says whether the process has the cleaner thread: the
factory starts it before gunicorn forks, and a fork has no threads of its parent.
`Identifier` is who a client is taken for: a user, else a key, else an address.
`admitted`, `ends` and `waited` are history variables: whom a check let through
when, the latest end a client was given, and how long its bans waited for the lock.
A ban replaces the end that is there by one computed before the wait, so that it can
cut a later one short; `BansAreServed` says that a ban loses no more than that wait,
and nothing by checks and the cleaner.
`MaxTime` bounds the clock and `MaxQueue` the requests queued when a check starts.

### Fraud

One step is one transaction of the security store. `since` is when the request began
to wait for its first transaction: its `now` lies between that and the commit, and
no more than `MAX_WAIT` before the commit. How long a transaction may wait for its
lock depends on the database: SQLite gives up after 30 seconds (`busy_timeout`,
`banking_plugin/store.py` 33), PostgreSQL waits on, which a `MAX_WAIT` as long as
the run describes. A check that waited counts from a minute before the time it has
read until its commit, so it may count events that are up to `MAX_WAIT` more than a
minute apart; `Earned` says exactly that. The stricter statement, that an account
frozen for its velocity had as many requests within one minute as the limit admits,
is false as soon as a check waits. `score` carries the sum of the amount and hour
terms until the frequency and the frozen flag have been read. `admitted` is a
history variable. The engine's `freeze_account` and `unfreeze_account` have no
caller in the repository besides the engine itself; they are the operators'
interface. A freeze that was decided on an old reading overwrites an
`unfreeze_account` in between; no document promises otherwise, and the runs contain
that behaviour.

### Governance

*State.* `status`, `vote_end` and `quorum` are columns of `proposals`; `votes`
is the table, a vote being proposal, voter, choice and weight, with the power a
function of the weight (`Root`). `vocabulary` is what the status column can
hold: `schema.sql` and `models/proposal.py` declare an enumeration that lacks
the service's words VOTING, PASSED and FAILED, so that no proposal leaves DRAFT and
nothing can be voted on. `"service"` is a column
that takes them; of what the repository contains, the migration `2c14a2dde935`
makes such a one. `pc`, `target`,
`ballot`, `until` and `tally` are a call between the statement that read the
proposal and its commit. `led` and `overlapped` are history variables.

*Steps.* No call locks the row it decides about, so each of them is split
between read and write: `OpenVoting`/`Opened`, `CloseVoting`/`Closed` and
`SubmitVote`/`NotVoted`/`InsertVote`; `EvaluateProposal` is followed by three
queries (`Count`, in the order of `Sum`) and `Decide`. `close_voting` commits
before it evaluates. `Fails` rolls a call back at any point. Opening, closing
and evaluating have no caller in the repository, so any caller may do them at
any time. A call that names no quorum gets 0 (line 65 gives a missing key the default
`'0'`), which is one of `Quorums`; one that gives something that is no fraction is
refused before it writes. Balances are constants: no operation of
this component changes them. `MaxTime` bounds the clock.

### Node

*State.* `blocks` are the rows of height 0, `logged` and `persisted` what requests
and loops have committed, `phase` how far a process is with `create_app`, `queue`,
`loop`, `current` and `stop` the cognitive system of each process, `logging` the
requests that have enqueued their event and not committed. `configured` is
whether the minter's wallet is set; `admitted` whether the database's enumeration
`audited_action` has the type of the events (in `schema.sql` it has not, so that
every commit of such an event fails).

*Steps.* `CountBlocks` and `CreateGenesis` are the two transactions of the genesis
block. Whoever takes the second fails to start: the loser by the unique height,
the winner because it reads the block after its session is closed. The platform
starts it again, and it then counts a block. `Fork` copies the queue and the stop
event of the master, and none of its threads: in the image (`--preload`) the loop
lives in the master only, and what a worker enqueues stays in the worker.
`Take`, `Persist` and `PersistFails` are one turn of the loop. `StopLoop` sets
the event and gives up waiting; `RestartLoop` starts a thread only if none is
alive. `Crash` takes a process and the workers forked from it.

### Accounts

Every call is a session scope: a read, possibly under a row lock, and a commit.
`LockRow` is `with_for_update`; `CommitChange` writes what was read plus the change,
which is why the module keeps the sum of the committed changes in the history
variables `paid` and `earned`. `CommitLink` demotes the old primary wallet and
inserts the new one, whose foreign key takes a shared lock on the account's row.
`schema` is which of the two declarations of the tables is deployed: `"models"` is
what `models/*.py` declare, `"sql"` the constraints of `schema.sql`, whose partial
unique index on primary wallets and check of the balance the models lack
(`Conflicts`, `Storable`). Either is taken with the columns the services use;
`schema.sql` as it stands lacks `password_hash` and `user_wallets.deleted_at`, and
`init_db.py` looks for it in `models/models/`. A link fails in two ways. If the
flush fails (`LinkFails`), so does the commit of the scope, and the demotion is
undone. If the key is not base64 (`LinkUndecodable`), the exception comes after the
demotion and before any flush, is swallowed inside the scope, and the scope commits
the demotion. FOR UPDATE is PostgreSQL's: on the SQLite file that `config.py` 42-43
falls back to it locks nothing, and `NoUpdateLost` is claimed for PostgreSQL only.
`DeleteInFirebase` and `DeleteInDatabase` are the two halves of `DELETE /profile`.
`ReplaceChain` is the recalculation of all balances to 0. `Fail` rolls a call back
anywhere. Users are those who have an account when the system starts: no route of
the service can make another one.

### Schema, Records and Goodwill

`Schema` gives for each table its foreign keys (the table each names, its ON DELETE
rule, whether it may be NULL) and its unique keys, by each declaration:
`votes.voter_user_id` has a rule in `schema.sql` and none in the model, and
`bounties.related_proposal_id` and `system_settings.last_updated_by_user_id` exist
in `schema.sql` only. `Records` adds the rows: `Store` inserts one if its references are
live and its keys unique; a deletion of `Accounts` is followed by what the keys
make of it (`FollowDeletion`: `Doomed` is the least set closed under cascades,
`Refused` a reference that forbids the statement, `Cleared` what is set to NULL).
An account that others' rows forbid to delete stays in the database although its
Firebase user is gone. `ReplaceLedger` fails where the trigger of `schema.sql`
protects the ledger. `Goodwill` adds the submission, which reads its user first
and inserts later, and a reader that counts and fetches page after page.
`LastingTables` are the ten tables whose rows outlive the accounts they name. Not
among them, and gone with an account in both declarations, are its rows of
`goodwill_ledger`, which `schema.sql` calls the off-chain coin audit trail, and the
content reports it made.

### Validation and Routes

A body is the fields it gives, which of them are empty or mistyped, and the values
something depends on. `TransactionErrors` is `validate_transaction`;
`SubmitToService`, `SubmitGoodwill` and the others give the status a request gets.
`MCGoodwill` checks as assumptions, over all bodies at the edges of amounts and
times: that only sound transactions pass and each kind can pass; that the routes'
schema refuses the timestamp a signature has to cover (`RouteCannotCarryTime`);
that a batch is split into what is valid and what is not; that no submission is
stored, through the routes or by the service (`NoSubmissionIsStored`: the row
cannot be made, its model has no `correlation_id`); that only one's own data is
shown; that no API key opens a route and nobody registers, signs in or resets a
password, because those handlers raise before they write.

## Runs

| Run | Instance | Shows |
|---|---|---|
| `minting_pipeline` | 1 action, 2 workers, 2 dispatchers, 2 attempts, crashes, both kinds of chain | the safety of the pipeline, the refinement of `MintPromise`, every committed intent is published |
| `minting_ambiguous` | 2 workers, no crash | *violation*: an AMBIGUOUS intent is submitted again by a second delivery |
| `minting_restart` | 1 worker, crashes | *violation*: a redelivered message submits again without a lookup |
| `banking_requests` | 2 threads, 1 nonce, 2 tokens, 2 numbers of the log, skew 1, clock to 2, both databases; one of four workloads: copies of a signed message one of which names its actor by a number, messages of one nonce with two dates, requests for sessions, blocked, assessed and proving requests | the log is one chain under all of it, proofs are of one log, on SQLite only an actor that is no text keeps an untampered log from verifying, a nonce repeats only for a message dated ahead, lost authority stays lost |
| `banking_replay` | the same, SQLite, copies of one message dated ahead | *violation*: a message dated a skew ahead of the clock succeeds twice |
| `auditlog_gap` | 2 appenders, 1 reader, 3 numbers, PostgreSQL | *violation*: the provisional index is not the position after a failed append |
| `immune_shared` | 2 threads, with and without the cleaner, 1 client from two addresses, limit 2, window 2, bans of 2, clock to 3 | the rate limit; a ban loses no more than a wait for the lock |
| `immune_threshold` | 2 threads | *violation*: reaching the threshold never bans, because the thread waits for its own lock |
| `fraud_requests` | 2 threads, 2 accounts, limit 2, window 2, waits of 1, clock to 3 | velocity limit, no deletion of events that count, freezes are earned |
| `governance_calls` | 2 callers, 1 proposal, 2 voters, quorum 0 or 2, clock to 2, both vocabularies | one vote per voter, what a passed proposal has behind it, finality |
| `node_processes` | a master with a forked worker, a process of its own, 2 events, 1 crash, with and without the wallet and the enumeration | one genesis block, order, every process serves, the loop goes on |
| `goodwill_records` | 2 users, 3 callers, 3 addresses, 11 families of tables, a reader with pages of 2, both schemas; within the limits of calls and rows below | no lost change, wallets as the schema allows, the primary wallet kept but for an undecodable key, Firebase first, no dangling row, lasting records stay, what a finished reading missed was overtaken between the last count and its cut; the assumptions about `Validation` and `Routes` |

*Why the bounds are enough.* The intents of the pipeline do not interact except
through the batch a dispatcher locks, so one action with two workers has every
conflict between answers; two attempts are the least with an older and a newer
answer. Two appenders suffice for a fork; a failed append
before a good one needs two numbers, a gap in the middle three. In `banking_requests`
a nonce of skew 1 expires within the clock, so that both a
repetition within the skew and one after it happen (the second is what
`banking_replay` shows); an admin session that ends at
1 beside a teller's that ends at 2 lets authority be lost by time and by
revocation; the workloads do not mix because they touch different tables,
except the log, which the first and the last both write, and the nonces, which the
first two do. Immune and
fraud decisions depend on one client or account and one other thread; the second
account is there for the deletion of old events of all accounts. Their clocks run
over the end of one window. In `governance_calls` one caller evaluates while the
other votes: with two voters a vote can commit between two of the three queries,
so that the sums belong to no single moment; balances 4 and 3 give powers 2 and 1,
so that a lead can change. In `node_processes` two builders race for the genesis
block while a fork depends on one of them, two events have an order, and one crash
may hit any process in any phase.

In `goodwill_records` calls and rows share a budget (`Limits`): four calls and no
row, two calls and a row, one call and two rows, three rows. What conflicts on one
account or address shows with four calls; a call that deletes an account needs two
rows at most to show a cascade, a row that it clears, or one that forbids it.
`Families` are the sets of tables that refer to each other; rows of two families
meet only in the accounts. Two more limits are for the readings and admit the
submitted actions only: one call and three of them, no call and five. With pages of
two, five actions make three pages, and actions are stored before, between and
within the page turns, one of them between the last count and its fetch.

*Deadlock* is not checked where the system really may stop: in `governance_calls`
(everything decided and the clock at its bound), in `goodwill_records` (calls and
rows are used up), in `immune_shared` and `immune_threshold` (a thread waits for the
lock it holds, which is a finding).

*Symmetry* is over threads and callers, and in `goodwill_records` over users, calls
and addresses, which no definition tells apart; the runs that check liveness
(`minting_pipeline`, `node_processes`, `immune_threshold`) do not use it.

*Fairness.* `Minting!DispatchFairness`: a deployed dispatcher keeps calling
`dispatch_batch`, a publication tried again and again succeeds, and not every
batch is cut off by a crash before its commit. The repository contains no
scheduler; `docs/BEDROCK-6.0.0.md` leaves it to the deployment, so this is an
assumption about the deployment. No fairness is put on workers, and no run claims
that an intent is confirmed in the end: an intent left SUBMITTED is not executed
again unless its message is. `Immune!FairSpec`: a thread that can enter its
critical section does. `Node!Fairness` is weak fairness of the start of each
process (the platform restarts a container whose start failed, gunicorn forks
again), and of the turns of its loop, which is a running thread; nothing says that
a commit succeeds.

## Findings

1. *minting_ambiguous*: README.md 398-399 says that ambiguous submissions are
   never automatically resubmitted. A second delivery that took its marker
   before the first worker recorded AMBIGUOUS submits afterwards.
2. *minting_restart*: a worker that stops between the submission and its record
   leaves the row PENDING; the next delivery submits without asking the chain.
3. *auditlog_gap*: on PostgreSQL a failed append leaves a gap in the numbers,
   after which `verify_integrity` is False of an untampered log.
4. *banking_replay*: `docs/BEDROCK-5.0.0.md` 28 says that each nonce succeeds at most
   once, README.md 314 that a replayed one is rejected. A message dated ahead of the
   clock outlives the row of its nonce and succeeds again.
5. *immune_threshold*: `record_invalid_attempt` deadlocks at the threshold.

Five more divergences have no run of their own. The passing runs contain them, and
where a property has an exception, the exception is exactly this:

- `routes.py` 74 calls what does not verify tampered or corrupted. On SQLite an actor
  given as a JSON number or Boolean is hashed as such, stored as a text and hashed as
  a text by `verify_integrity` (`audit.py` 41-43, 58): the proof is refused from then
  on. `UntamperedLogVerifies` is an equivalence: this and nothing else does it.
- `add_to_blacklist` promises `duration` seconds. A ban that has read the clock
  earlier and gets the lock later ends the other thread's ban early (`immune_system.py`
  144-146). `BansAreServed` gives the measure.
- `open_voting` promises to move a proposal to VOTING, a word that the enumeration in
  `models/proposal.py` 18 and `schema.sql` 19 refuses (`governance_service.py` 119).
- The session scope commits "unless an exception occurs" (`db_utils.py` 22). A key
  that is not base64 raises inside it (`user_service.py` 156), is swallowed, and the
  demotion of the primary wallet is committed. `PrimaryIsKept` has it as its only
  exception for a link.
- `schema.sql` 114 makes the primary wallet unique, `models/user_wallet.py` does not:
  two links at once leave two, and `create_intent` raises for that user
  (`minting_service.py` 25). `WalletsFollowSchema` claims uniqueness under
  `schema.sql` alone.

## Proofs

All theorems hold for every value of the constants allowed by the modules' named
assumptions, which say no more than that limits, windows, powers and quorums are
numbers, that sentinels are no members of the sets they stand outside of, that
threads of the immune system are finitely many, that what amount and hour add up to
in `Fraud` (at most 70) does not reach the anomaly threshold by itself, and, for
`Node`, that a forked process's master has built the application itself and answers
no requests. Theorems of the `Serial` part of `MintingProofs` have hypotheses of
their own, named there and below. The theorems about the audit log stand in
`BankingProofs`, those about the accounts in `GoodwillProofs`, each before those of
the module that composes it.

*Sums.* The fraud engine, the immune system and the governance service decide by
sums over rows. `Sums` defines the sum by the fold of the community modules, whose
recursive function the provers can expand but not induct on: the library's
induction theorems take a predicate as a parameter. `SumsProofs` therefore argues by
a least counterexample, which is a set: among the subsets of a finite set with some
property there is a least one (`LeastSubset`), a subset on which two solutions of
the recursion differ cannot be least (`SolutionsAgree`), nor one that has no
solution (`SolutionExists`). What follows is what the others cite: that a sum is a
natural number, grows with the function and the set, gains what an element gains,
ignores zeros, and that the elements of a set are the sum of those at each value
(`FibresAddUp`).

*Minting.* `IInv` is inductive: the safety invariants plus `WorkersOnJob` (a
worker in flight works on a recorded intent), `MarkersHeld` (markers in flight
are counted, nothing was submitted on them yet), `SeenIsOld` (a worker's copy of the
row is no newer than the row), `CreatingIsInvisible`, `BatchesAreRows` and
`FirstAttempt` (while the first attempt is in flight and no other was begun
the row is not resolved). Without `MarkersHeld` two submissions on one marker
cannot be excluded; without `SeenIsOld` FAILED could be written while attempts
remain; `FirstAttempt` is what the refinement needs to show that a withdrawn
confirmation had a second attempt. From it follow
`TypeCorrect`, `SubmissionsAreBudgeted`, `ConfirmationsAreMints`,
`FailuresAreExhausted`, `IntentsArePublishable` and `PipelineKeepsPromise`
(initial states map to initial states, steps to steps or stutters).
`KeyedHashesAreConfirmed` takes `IInv` together with `KeyedInv`: on a chain that
enforces the key at most one transaction of an action takes effect (`OneLanded`),
and a hash a worker has seen stays recorded (`SeenHashIsOld`), so that a late
answer, or a column the ORM leaves unwritten, still agrees with the row.
With one worker at a time (`Serial`, a hypothesis of the theorem) the key is not
needed: the copy of the row is the row until the worker writes (`SeenIsCurrent`), so
that every confirmed hash is a mint (`SerialHashesAreConfirmed`). With two workers a
late answer does take a confirmation back; `PipelineKeepsPromise` says that this
needs a second attempt.

*AuditLog.* `IInv` says that only the lock holder has an open transaction
(`LockIsHeld`), that its draft quotes the last committed row
(`DraftContinuesLog`) and that drawn numbers stay ahead of committed ones.
`LogIsOneChain` and `SnapshotsStand` follow on both databases;
`UntamperedVerifies` adds `NoGap`, that on SQLite numbers are consecutive, and says
that a log then verifies if and only if each row was hashed with its event as it is
stored (`ConsecutiveVerifies`): interleavings and failures do no harm, an actor that
is no text does.
`ProofsAreIntact` joins the two reads of a proof: a log that verifies has the numbers
from 1 to its length; a snapshot taken earlier is what comes before all the rest of
it, hence numbered from 1 as well (`PrefixIsInterval`), and each of its rows quotes
the one before, so that it verifies by itself (`PrefixVerifies`).

*Banking.* `BankingImplementsAuditLog` shows that every step of a request is a step
of the log or leaves it alone; it needs the invariant only to know that a thread
about to append has a known event (`EntryIsKnown`). With it `LogBehindGate` and all
theorems of `AuditLog` hold of the composition. `NoncesAreHeld` rests on
`NonceRecord`: the row of a nonce that succeeded expires one skew later, or is gone
and the skew has passed; no time a thread works with is later than the clock; and
what waits to be reserved was dated no more than a skew before the time read. A
second success is therefore one skew after the first at least, and of a message
dated no earlier than the first, less the wait: the theorem does not say that there
is none, and `banking_replay` shows that there is one. `AuthorityStaysLost` is an
action argument: whatever writes an admin row is a thread that `MayPass`, and
whatever makes a thread pass is an admin row that is live no longer than the clock
says.

*Governance.* A vote is never changed or deleted, so a sum read earlier is a lower
bound of what is committed now (`TalliesAreLowerBounds`, from the facts about sums
and nothing assumed about them); with it, what `Decide` finds in its tally still
holds of the table (`QuorumIsMet`), and a YES power counted first that exceeds the
NO power counted later was a lead at the moment of the second query (`LeadsAreSeen`,
`PassedHasLed`). Finality rests on two parts: two administrative calls on one
proposal are in `overlapped` (`OverlapIsSeen`), and a call that is alone on its
proposal wrote or read the current status (`StatusIsCurrent`), so that only an
overlapping call can overwrite a decision. From `IInv` follow `TypeCorrect`,
`OneVote`, `QuorumsAreMet`, `PassingIsEarned` and `DecisionsAreFinal`.

*Immune.* The code limits the length of a deque whose head alone is pruned; the
property is about timestamps, which may enter out of order because they are read
before the lock is waited for. `QueueKeepsAdmitted` ties the two: for every time in
the window the deque still has as many entries as requests were let through with
that time. `EntriesAddUp` makes of this that the admissions in a window are no more
than the deque was long when the last was let through, which gives
`AdmissionsAreBounded`. `ThresholdLocks` says that whoever reaches the threshold
keeps the lock, without which the count of a suspect would not be bounded.
`BansAreNotLifted` rests on `BansHold`: what the list has for a client is at least
the latest end it was given, less the longest wait of its bans. Only a ban that has
waited lowers the entry, by no more than its wait, because its end was computed from
a clock read at the start of it; what a check or the cleaner removes has expired by
a time that has passed, and so by the clock.

*Fraud.* `RecentEventsAreKept` is part of the invariant because the limit depends on
it: what a check counts after its deletion is what was admitted since the start of
its window (`LeftWereAdmitted`), including events later than the time it has read.
`NothingToCome` and `EventsWereAdmitted` bound this from both sides.
`ReadingsJustify` carries what a request has read from one of its transactions to the
next: a score that freezes was earned when it was read, and what has been earned
stays so (`EarnedStays`). From it follow `VelocityIsBounded`, `NoEventIsLost` and
`FreezesAreEarned` for every `MAX_WAIT`.

*Node.* `NodeInv` adds to the types: `GenesisRecord` (one block at most, and one as
soon as somebody counted some), `OneLoop` (a process has one living thread at most,
the current one), `QueuesOfServers` (a master that answers nothing has nothing
queued, so that a fork copies an empty queue) and `Line`: what a process has
persisted, what its loop holds and what it has queued are, in this order, one
increasing sequence of events received. `GenesisIsUnique` and `LoopKeepsOrder`
follow.

*Accounts.* `AccountsInv` adds to the types: `Ledger` (a call that holds a row has
read what the committed changes add up to, and nobody else holds it), `WalletRows`
(wallets are owned by accounts; under `schema.sql` the primary ones are one per
user) and `Deletion` (a user
who is being erased is gone from Firebase). From it follow `UpdatesAreKept`,
`WalletsAreInOrder`, `FirebaseIsFirst` and the action property `PrimaryStays`, whose one
exception is the step that ends a link with a key that cannot be decoded.

*Records and Goodwill.* First, facts about every declared key, table by table: only
a column that may be NULL is set to it, nothing refers to the ledger, and a row of a
lasting table cascades only from rows of lasting tables. `RecordsInv` says that rows
have the columns of their tables, that the ids of open submissions are free (without
it a row could be replaced by one of another table, and what refers to it would
dangle) and `NothingDangles`. The doomed rows are closed under cascades
(`DoomedIsClosed`), so that a row that stays can have lost only references that may
be missing; this gives `NoRowDangles` for any number of rows. `LastingRecordsStay`
needs the converse: the rows of the other tables are closed, so that nothing else is
doomed. `GoodwillImplementsAccounts` maps every step of the composition to one of
`Accounts` or to a stutter, and `AccountsAmongRecords` carries its theorems over.
`HistoryLosesFew` rests on `NoneIsSkipped` (a wanted action not shown so far has its
place in the list after the pages shown) and `ShownAreNewest` (of the wanted actions
the newest are shown first). What is stored meanwhile is newer and moves an action
to a later place, never to an earlier one; only the deletion of the account removes
actions, and then all of the user's (`ActionsMove`, `PlacesGrow`). The last page
reaches to the end of the list that was counted (`PagesSuffice`), so that what is
left after it are as many places as actions were stored between the count and the
fetch (`LastPageLeaves`), and the oldest are in them (`LastPageLeavesOldest`).

*Only model-checked.* The three properties under fairness, `CommittedIsPublished`,
`EveryProcessServes` and `QueuedIsTaken`: the prover reasons neither about fairness
nor about ENABLED. The assumptions about the pure modules in `MCBanking` and
`MCGoodwill`, which compare definitions with recursive ones over bounded inputs. The
five violations, which are counterexamples. Every other property of a run is stated
by a theorem.

## Not modelled

Most of what is left out is code that no execution of the program reaches, which is
why a model of it would have no state the system can be in.

- *Endocrine system and AI processor*: `init_app` creates the executor, `start` then
  finds the system running and submits no loop; no step of it is ever taken.
- *Governance routes, older governance and reproductive systems*: the routes that
  write use an attribute the authenticated object does not have and answer 500
  before they write; `governance_system.py` is an older copy nothing imports.
- *System controller*: nothing initialises it; its actions are log messages.
- *Metabolic system*: a simulation for the status page which no other part reads.
- *Password service*: nothing imports it; the routes of that purpose, in `Routes`,
  call functions they do not import.
- *DID registry and blockchain routes*: `did_registry.py` imports a module that is
  not there, `blockchain_system.py` is imported by nobody, `user_api_routes.py` is
  registered nowhere; the others need an API key, which no request gets past.
- *Message broker*: nothing uses the connection manager; the minting service's
  publisher is an argument that the repository does not supply.
- *Status, monitoring, observability node*: they read and format.
- *Background start, configuration, migrations, deployment, scripts, the cloud
  function*: wiring without state of the running system; what the schema declares
  is in `Schema`. A user that the cloud function makes in Firebase and who never
  gets an account is outside `Accounts`, whose users have one at the start.
- *Within modelled components*: of the consensus, the transaction pool (a list that
  is only pushed to) and the restoration of blocks, which is not implemented; of
  the immune system, `stop`, which nothing calls, and the Redis connection, whose
  result no decision uses; of the RBAC module, the hardware-bound signature, which
  no route requires; of the account service, the readers and the calls that raise
  before they write; texts, details and layout everywhere.
