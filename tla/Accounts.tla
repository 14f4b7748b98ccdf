------------------------------ MODULE Accounts ------------------------------
(***************************************************************************)
(* User accounts and their wallets: the calls of                           *)
(* services/user_service.py, the deletion of an account in Firebase and in *)
(* the database (routes/api_routes.py) and the recalculation of the        *)
(* balances (consensus.py), each in one session scope                      *)
(* (models/db_utils.py), over PostgreSQL with the constraints of the       *)
(* declaration of the tables that is deployed: that of models/*.py or that *)
(* of models/schema.sql, with the columns the services use.                *)
(*                                                                         *)
(* Calls that change nothing are left out: the readers, the premium status *)
(* (no column), a new account (the model has no is_premium) and the        *)
(* registration route (its call of verify_recaptcha raises).  Users are    *)
(* those who have an account when the system starts.                       *)
(***************************************************************************)
EXTENDS Integers, FiniteSets

CONSTANTS
  Users,
  Calls,         \* the threads and processes that call
  Addresses,     \* of wallets
  Changes,       \* to a balance
  Coins,         \* amounts of goodwill coins
  MaxCalls       \* bound on the calls made

Nobody == "nobody"
NoWallet == "no wallet"

ASSUME AccountsAssumption ==
  /\ Nobody \notin Users /\ NoWallet \notin Addresses
  /\ Changes \subseteq Int /\ Coins \subseteq Int
  /\ MaxCalls \in Nat

VARIABLES
  schema,                \* which of the two declarations is deployed
  accounts,              \* the rows of user_accounts,
  balance, coins,        \* and their columns
  owner, primary,        \* the rows of user_wallets and is_primary
  firebase,              \* the users Firebase knows
  call,                  \* what each call under way has done
  made,                  \* counter
  paid, earned           \* history: the committed changes, summed up

rows == <<accounts, balance, coins, owner, primary>>
history == <<paid, earned>>
vars == <<schema, rows, firebase, call, made, history>>

Deployments == {"models", "sql"}
Columns == {"balance", "coins"}
Ready == [at |-> "ready"]

CallState ==
  {Ready}
    \union [at : {"waiting"}, user : Users, column : Columns, change : Int]
    \union [at : {"holding"}, user : Users, column : Columns, change : Int, read : Int]
    \union [at : {"linking"}, user : Users, address : Addresses, primary : BOOLEAN,
            decodable : BOOLEAN, old : Addresses \union {NoWallet}]
    \union [at : {"erasing"}, user : Users]

\* No number of coins is negative, and no balance where schema.sql checks it.
TypeOK ==
  /\ schema \in Deployments
  /\ accounts \subseteq Users
  /\ balance \in [Users -> Int] /\ coins \in [Users -> Nat]
  /\ schema = "sql" => balance \in [Users -> Nat]
  /\ owner \in [Addresses -> Users \union {Nobody}]
  /\ primary \subseteq Addresses
  /\ firebase \subseteq Users
  /\ call \in [Calls -> CallState]
  /\ made \in 0 .. MaxCalls
  /\ paid \in [Users -> Int] /\ earned \in [Users -> Int]

Init ==
  /\ schema \in Deployments
  /\ accounts = Users /\ firebase = Users
  /\ balance = [u \in Users |-> 0] /\ coins = [u \in Users |-> 0]
  /\ owner = [a \in Addresses |-> Nobody] /\ primary = {}
  /\ call = [c \in Calls |-> Ready]
  /\ made = 0
  /\ paid = [u \in Users |-> 0] /\ earned = [u \in Users |-> 0]

-----------------------------------------------------------------------------
\* The row lock of SELECT ... FOR UPDATE.
Holds(c, u) == call[c].at = "holding" /\ call[c].user = u
Locked(u) == \E c \in Calls : Holds(c, u)

Begin(c, state) ==
  /\ call[c] = Ready
  /\ made < MaxCalls
  /\ made' = made + 1
  /\ call' = [call EXCEPT ![c] = state]

End(c) == call' = [call EXCEPT ![c] = Ready] /\ UNCHANGED made

\* The exception leaves the session scope, which rolls back: a constraint, a
\* deadlock, a lost connection; or the process stops.
Fail(c) ==
  /\ call[c] # Ready
  /\ End(c)
  /\ UNCHANGED <<rows, firebase, history>>

-----------------------------------------------------------------------------
(* update_user_balance, increment_ and decrement_goodwill_coins            *)

UpdateBalance(c, u, d) ==
  /\ Begin(c, [at |-> "waiting", user |-> u, column |-> "balance", change |-> d])
  /\ UNCHANGED <<rows, firebase, history>>

\* A negative amount is refused before the session.
IncrementCoins(c, u, n) ==
  /\ n >= 0
  /\ Begin(c, [at |-> "waiting", user |-> u, column |-> "coins", change |-> n])
  /\ UNCHANGED <<rows, firebase, history>>

DecrementCoins(c, u, n) ==
  /\ n >= 0
  /\ Begin(c, [at |-> "waiting", user |-> u, column |-> "coins", change |-> -n])
  /\ UNCHANGED <<rows, firebase, history>>

Column(name) == IF name = "balance" THEN balance ELSE coins

\* Faulty variant: the row is read without with_for_update.
ReadRow(c) ==
  LET s == call[c]
  IN  /\ s.at = "waiting"
      /\ s.user \in accounts
      /\ call' = [call EXCEPT ![c] =
           [at |-> "holding", user |-> s.user, column |-> s.column, change |-> s.change,
            read |-> Column(s.column)[s.user]]]
      /\ UNCHANGED <<rows, firebase, made, history>>

\* The row is locked and what it holds then is read.
LockRow(c) ==
  LET s == call[c]
  IN  /\ s.at = "waiting"
      /\ s.user \in accounts
      /\ ~Locked(s.user)
      /\ call' = [call EXCEPT ![c] =
           [at |-> "holding", user |-> s.user, column |-> s.column, change |-> s.change,
            read |-> Column(s.column)[s.user]]]
      /\ UNCHANGED <<rows, firebase, made, history>>

NotFound(c) ==
  /\ call[c].at = "waiting" /\ call[c].user \notin accounts
  /\ End(c)
  /\ UNCHANGED <<rows, firebase, history>>

\* What may be committed: coins may not become negative by the test of
\* decrement_goodwill_coins, a balance by the check that schema.sql alone has.
\* Other calls end without an effect.
Storable(s) == s.column = "coins" \/ schema = "sql" => s.read + s.change >= 0

\* The commit of what was read and changed.
CommitChange(c) ==
  LET s == call[c]
  IN  /\ s.at = "holding"
      /\ Storable(s)
      /\ IF s.column = "balance"
         THEN /\ balance' = [balance EXCEPT ![s.user] = s.read + s.change]
              /\ paid' = [paid EXCEPT ![s.user] = @ + s.change]
              /\ UNCHANGED <<coins, earned>>
         ELSE /\ coins' = [coins EXCEPT ![s.user] = s.read + s.change]
              /\ earned' = [earned EXCEPT ![s.user] = @ + s.change]
              /\ UNCHANGED <<balance, paid>>
      /\ End(c)
      /\ UNCHANGED <<accounts, owner, primary, firebase>>

\* replace_chain: no block and no ledger entry is restored, so that every
\* balance is 0.  Its UPDATE waits for the rows that are locked.
ReplaceChain ==
  /\ \A u \in Users : ~Locked(u)
  /\ made < MaxCalls /\ made' = made + 1
  /\ balance' = [u \in Users |-> 0]
  /\ paid' = [u \in Users |-> 0]
  /\ UNCHANGED <<accounts, coins, owner, primary, firebase, call, earned>>

-----------------------------------------------------------------------------
(* link_user_wallet                                                        *)

PrimaryOf(u) == {a \in primary : owner[a] = u}

\* The user and, for a primary wallet, one that is there are read without a
\* lock.  The private key may not be base64.
Link(c, u, a, isPrimary, isDecodable) ==
  /\ u \in accounts
  /\ \E old \in IF isPrimary /\ PrimaryOf(u) # {} THEN PrimaryOf(u) ELSE {NoWallet} :
       Begin(c, [at |-> "linking", user |-> u, address |-> a, primary |-> isPrimary,
                 decodable |-> isDecodable, old |-> old])
  /\ UNCHANGED <<rows, firebase, history>>

Demoted(s) == primary \ {s.old}

\* The UPDATE of the old primary wallet needs its row.
OldIsThere(s) == s.old # NoWallet => owner[s.old] = s.user

\* The address is taken or, where schema.sql's index makes them unique, the
\* user has got another primary wallet.
Conflicts(s) ==
  \/ owner[s.address] # Nobody
  \/ schema = "sql" /\ s.primary /\ ~(PrimaryOf(s.user) \subseteq {s.old})

\* Faulty variant: is_primary is not unique per user.
LinkAnyway(c) ==
  LET s == call[c]
  IN  /\ s.at = "linking" /\ s.decodable
      /\ s.user \in accounts /\ ~Locked(s.user)
      /\ owner[s.address] = Nobody
      /\ owner' = [owner EXCEPT ![s.address] = s.user]
      /\ primary' = IF s.primary THEN Demoted(s) \union {s.address} ELSE primary
      /\ End(c)
      /\ UNCHANGED <<accounts, balance, coins, firebase, history>>

\* The flush of the UPDATE and of the INSERT of the new wallet, which needs the
\* user (whose row it locks, shared), and the commit.
CommitLink(c) ==
  LET s == call[c]
  IN  /\ s.at = "linking" /\ s.decodable
      /\ s.user \in accounts /\ ~Locked(s.user)
      /\ OldIsThere(s)
      /\ ~Conflicts(s)
      /\ owner' = [owner EXCEPT ![s.address] = s.user]
      /\ primary' = IF s.primary THEN Demoted(s) \union {s.address} ELSE primary
      /\ End(c)
      /\ UNCHANGED <<accounts, balance, coins, firebase, history>>

\* Faulty variant: the demotion is a commit of its own.
LinkFailsDemoted(c) ==
  /\ call[c].at = "linking" /\ call[c].decodable
  /\ Conflicts(call[c])
  /\ primary' = Demoted(call[c])
  /\ End(c)
  /\ UNCHANGED <<accounts, balance, coins, owner, firebase, history>>

\* The flush fails, and so does the scope's commit: the demotion is undone.
LinkFails(c) ==
  /\ call[c].at = "linking" /\ call[c].decodable
  /\ Conflicts(call[c])
  /\ End(c)
  /\ UNCHANGED <<rows, firebase, history>>

\* b64decode raises before anything is flushed; the exception is swallowed, so
\* that the scope commits, which flushes the demotion.
LinkUndecodable(c) ==
  LET s == call[c]
  IN  /\ s.at = "linking" /\ ~s.decodable
      /\ OldIsThere(s)
      /\ primary' = Demoted(s)
      /\ End(c)
      /\ UNCHANGED <<accounts, balance, coins, owner, firebase, history>>

-----------------------------------------------------------------------------
(* DELETE /profile                                                         *)

\* Faulty variant: Firebase's answer is not waited for.
DeleteUnconfirmed(c, u) ==
  /\ Begin(c, [at |-> "erasing", user |-> u])
  /\ UNCHANGED <<rows, firebase, history>>

\* Firebase deletes the user, or raises when it has none.
DeleteInFirebase(c, u) ==
  /\ u \in firebase
  /\ firebase' = firebase \ {u}
  /\ Begin(c, [at |-> "erasing", user |-> u])
  /\ UNCHANGED <<rows, history>>

\* The wallets and the account go in one commit, when no lock is in the way.
DeleteInDatabase(c) ==
  LET u == call[c].user
      gone == {a \in Addresses : owner[a] = u}
  IN  /\ call[c].at = "erasing"
      /\ ~Locked(u)
      /\ accounts' = accounts \ {u}
      /\ owner' = [a \in Addresses |-> IF a \in gone THEN Nobody ELSE owner[a]]
      /\ primary' = primary \ gone
      /\ End(c)
      /\ UNCHANGED <<balance, coins, firebase, history>>

-----------------------------------------------------------------------------
CallStep(c) ==
  \/ \E u \in Users :
       \/ \E d \in Changes : UpdateBalance(c, u, d)
       \/ \E n \in Coins : IncrementCoins(c, u, n) \/ DecrementCoins(c, u, n)
       \/ \E a \in Addresses, b, d \in BOOLEAN : Link(c, u, a, b, d)
       \/ DeleteInFirebase(c, u)
  \/ LockRow(c) \/ NotFound(c) \/ CommitChange(c)
  \/ CommitLink(c) \/ LinkFails(c) \/ LinkUndecodable(c)
  \/ DeleteInDatabase(c)
  \/ Fail(c)

Next ==
  /\ ReplaceChain \/ \E c \in Calls : CallStep(c)
  /\ UNCHANGED schema

Spec == Init /\ [][Next]_vars

-----------------------------------------------------------------------------
(* Properties                                                              *)

\* What an account holds is the sum of the changes that committed, the balance
\* since it was last recalculated, although each call writes back a value it
\* has read (lines 91-92, 107-108, 123-126).
NoUpdateLost ==
  \A u \in accounts : balance[u] = paid[u] /\ coins[u] = earned[u]

\* No wallet outlives its account, and where schema.sql is deployed a user has
\* one primary wallet at most, whatever links at the same time (lines 150-166).
\* Where the tables are those of the models, two links at once leave two, and
\* create_intent's one_or_none (services/minting_service.py, line 25) raises.
WalletsFollowSchema ==
  /\ \A a \in Addresses : owner[a] \in accounts \union {Nobody}
  /\ schema = "sql" => \A u \in Users : Cardinality(PrimaryOf(u)) <= 1

\* A link with a key that cannot be decoded ends.
UndecodableEnds(c, u) ==
  /\ call[c].at = "linking" /\ call[c].user = u /\ ~call[c].decodable
  /\ call'[c] = Ready

\* A user who has a primary wallet goes on having one, unless a link of the
\* user's own ends with a key that cannot be decoded: nothing else demotes the
\* old wallet without the new one (lines 150-174).  Such a link does, although
\* the scope is said to commit "unless an exception occurs" (db_utils.py, line
\* 22): this exception is swallowed inside it.
PrimaryIsKept ==
  [][\A u \in accounts' :
       PrimaryOf(u) # {} /\ PrimaryOf(u)' = {} => \E c \in Calls : UndecodableEnds(c, u)]_vars

\* An account is deleted only after its Firebase user (delete_user_account,
\* lines 75-89): of those who had an account, whoever may still sign in has it.
FirebaseGoesFirst == firebase \subseteq accounts
=============================================================================
