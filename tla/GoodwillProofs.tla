--------------------------- MODULE GoodwillProofs ---------------------------
(***************************************************************************)
(* Proofs about the accounts, the records that refer to them and the       *)
(* goodwill actions among the records, for any users, calls, addresses,    *)
(* families of tables, limits and page sizes: the calls of Accounts by     *)
(* themselves; among the records, where they keep what was proved of them, *)
(* rows refer to what is there, and records last; and the history of a     *)
(* user, read page by page.                                                *)
(***************************************************************************)
EXTENDS Goodwill, FiniteSetTheorems, WellFoundedInduction, TLAPS

-----------------------------------------------------------------------------
(* Part 1: Accounts.                                                       *)

\* The columns hold the committed changes; who holds a row holds it alone and
\* has read what it contains.
Ledger ==
  /\ \A u \in Users : balance[u] = paid[u] /\ coins[u] = earned[u]
  /\ \A c, d \in Calls : \A u \in Users : Holds(c, u) /\ Holds(d, u) => c = d
  /\ \A c \in Calls : call[c].at = "holding" => call[c].read = Column(call[c].column)[call[c].user]

\* The wallets belong to accounts, and under schema.sql one of a user's is
\* primary at most.
WalletRows ==
  /\ \A a \in Addresses : owner[a] \in accounts \union {Nobody}
  /\ \A a \in primary : owner[a] # Nobody
  /\ schema = "sql" => \A a, b \in primary : owner[a] = owner[b] => a = b

\* Whom the database is about to delete, Firebase has deleted.
Deletion ==
  /\ firebase \subseteq accounts
  /\ \A c \in Calls : call[c].at = "erasing" => call[c].user \notin firebase

AccountsInv == TypeOK /\ Ledger /\ WalletRows /\ Deletion

-----------------------------------------------------------------------------
\* What a call has written down has its type.
LEMMA CallTypes ==
  ASSUME NEW s \in CallState
  PROVE  /\ s.at \in {"ready", "waiting", "holding", "linking", "erasing"}
         /\ s.at = "ready" => s = Ready
         /\ s.at # "ready" => s.user \in Users
         /\ s.at \in {"waiting", "holding"} => s.column \in Columns /\ s.change \in Int
         /\ s.at = "holding" => s.read \in Int
         /\ s.at = "linking" => /\ s.address \in Addresses
                                /\ s.primary \in BOOLEAN /\ s.decodable \in BOOLEAN
                                /\ s.old \in Addresses \union {NoWallet}
  BY DEF CallState, Ready

\* Writing the state of one call.
LEMMA CallSet ==
  ASSUME TypeOK, NEW c \in Calls, NEW v \in CallState, call' = [call EXCEPT ![c] = v]
  PROVE  /\ call' \in [Calls -> CallState]
         /\ call'[c] = v
         /\ \A d \in Calls \ {c} : call'[d] = call[d]
  BY DEF TypeOK

\* The initial states satisfy the invariant.
LEMMA AccountsInvInit == Init => AccountsInv
  <1> SUFFICES ASSUME Init PROVE AccountsInv
    OBVIOUS
  <1> USE AccountsAssumption DEF Init
  <1>1. TypeOK
    <2>1. Ready \in CallState
      BY DEF CallState
    <2>2. made \in 0 .. MaxCalls
      OBVIOUS
    <2> QED
      BY <2>1, <2>2 DEF TypeOK
  <1>2. \A c \in Calls : call[c].at = "ready"
    BY DEF Ready
  <1>3. Ledger
    BY <1>2 DEF Ledger, Holds
  <1>4. WalletRows /\ Deletion
    BY <1>2 DEF WalletRows, Deletion
  <1> QED
    BY <1>1, <1>3, <1>4 DEF AccountsInv

\* What a step does to the calls: none changes, or one, in one of four ways.
CallChanges(c) ==
  \/ call' = [call EXCEPT ![c] = Ready]
  \/ /\ \E u \in Users, d \in Int, k \in Columns :
          call' = [call EXCEPT ![c] = [at |-> "waiting", user |-> u, column |-> k, change |-> d]]
  \/ \E u \in Users, a \in Addresses, b, k \in BOOLEAN, old \in Addresses \union {NoWallet} :
       call' = [call EXCEPT ![c] = [at |-> "linking", user |-> u, address |-> a, primary |-> b,
                                    decodable |-> k, old |-> old]]
  \/ \E u \in Users : call' = [call EXCEPT ![c] = [at |-> "erasing", user |-> u]]

\* Such a step keeps the types of the calls, and nobody holds a row anew.
LEMMA CallChangesType ==
  ASSUME TypeOK, NEW c \in Calls, CallChanges(c)
  PROVE  /\ call' \in [Calls -> CallState]
         /\ call'[c].at # "holding"
         /\ \A d \in Calls \ {c} : call'[d] = call[d]
  <1>1. PICK v \in CallState : call' = [call EXCEPT ![c] = v] /\ v.at # "holding"
    <2>1. CASE call' = [call EXCEPT ![c] = Ready]
      <3>1. Ready \in CallState /\ Ready.at # "holding"
        BY DEF CallState, Ready
      <3> QED
        BY ONLY <2>1, <3>1
    <2>2. ASSUME NEW u \in Users, NEW d \in Int, NEW k \in Columns,
                 call' = [call EXCEPT ![c] = [at |-> "waiting", user |-> u, column |-> k, change |-> d]]
          PROVE  \E v \in CallState : call' = [call EXCEPT ![c] = v] /\ v.at # "holding"
      <3> DEFINE v == [at |-> "waiting", user |-> u, column |-> k, change |-> d]
      <3>1. v \in CallState /\ v.at # "holding"
        BY DEF CallState
      <3> QED
        BY ONLY <2>2, <3>1
    <2>3. ASSUME NEW u \in Users, NEW a \in Addresses, NEW b \in BOOLEAN, NEW k \in BOOLEAN,
                 NEW old \in Addresses \union {NoWallet},
                 call' = [call EXCEPT ![c] =
                   [at |-> "linking", user |-> u, address |-> a, primary |-> b,
                    decodable |-> k, old |-> old]]
          PROVE  \E v \in CallState : call' = [call EXCEPT ![c] = v] /\ v.at # "holding"
      <3> DEFINE v == [at |-> "linking", user |-> u, address |-> a, primary |-> b,
                       decodable |-> k, old |-> old]
      <3>1. v \in CallState /\ v.at # "holding"
        BY DEF CallState
      <3> QED
        BY ONLY <2>3, <3>1
    <2>4. ASSUME NEW u \in Users, call' = [call EXCEPT ![c] = [at |-> "erasing", user |-> u]]
          PROVE  \E v \in CallState : call' = [call EXCEPT ![c] = v] /\ v.at # "holding"
      <3> DEFINE v == [at |-> "erasing", user |-> u]
      <3>1. v \in CallState /\ v.at # "holding"
        BY DEF CallState
      <3> QED
        BY ONLY <2>4, <3>1
    <2> QED
      BY ONLY <2>1, <2>2, <2>3, <2>4, CallChanges(c) DEF CallChanges
  <1> QED
    BY ONLY <1>1, CallSet, TypeOK, c \in Calls

\* The count of the calls stays within its bound.
LEMMA CountStep == TypeOK /\ [Next]_vars => made' \in 0 .. MaxCalls
  <1> SUFFICES ASSUME TypeOK, [Next]_vars PROVE made' \in 0 .. MaxCalls
    OBVIOUS
  <1>1. made \in 0 .. MaxCalls /\ MaxCalls \in Nat
    BY AccountsAssumption DEF TypeOK
  <1>2. made' = made \/ (made < MaxCalls /\ made' = made + 1)
    <2>1. ASSUME NEW c \in Calls, NEW u \in Users, NEW a \in Addresses, NEW b \in BOOLEAN,
                 NEW k \in BOOLEAN, Link(c, u, a, b, k)
          PROVE  made < MaxCalls /\ made' = made + 1
      BY ONLY <2>1 DEF Link, Begin
    <2>2. ASSUME NEW c \in Calls, NEW u \in Users, NEW d,
                 \/ UpdateBalance(c, u, d) \/ IncrementCoins(c, u, d)
                 \/ DecrementCoins(c, u, d) \/ DeleteInFirebase(c, u)
          PROVE  made < MaxCalls /\ made' = made + 1
      BY ONLY <2>2 DEF UpdateBalance, IncrementCoins, DecrementCoins, DeleteInFirebase, Begin
    <2>3. ASSUME NEW c \in Calls,
                 \/ LockRow(c) \/ NotFound(c) \/ CommitChange(c) \/ CommitLink(c)
                 \/ LinkFails(c) \/ LinkUndecodable(c) \/ DeleteInDatabase(c) \/ Fail(c)
          PROVE  made' = made
      BY ONLY <2>3 DEF LockRow, NotFound, CommitChange, CommitLink, LinkFails, LinkUndecodable,
                       DeleteInDatabase, Fail, End
    <2>4. CASE ReplaceChain \/ UNCHANGED vars
      BY ONLY <2>4 DEF ReplaceChain, vars
    <2> QED
      BY <2>1, <2>2, <2>3, <2>4 DEF Next, CallStep
  <1> QED
    BY ONLY <1>1, <1>2

\* A call that begins, ends or fails leaves the database and Firebase alone.
Quiet(c) ==
  /\ CallChanges(c)
  /\ call'[c].at # "erasing"
  /\ UNCHANGED <<rows, firebase, history>>

\* Which steps these are.
LEMMA QuietSteps ==
  ASSUME TypeOK, NEW c \in Calls, CallStep(c)
  PROVE  \/ Quiet(c)
         \/ LockRow(c) \/ CommitChange(c) \/ CommitLink(c) \/ LinkUndecodable(c)
         \/ DeleteInDatabase(c)
         \/ \E u \in Users : DeleteInFirebase(c, u)
  <1> USE DEF TypeOK
  <1>1. ASSUME NEW u \in Users, NEW d \in Changes, UpdateBalance(c, u, d) PROVE Quiet(c)
    <2>1. call' = [call EXCEPT ![c] = [at |-> "waiting", user |-> u, column |-> "balance", change |-> d]]
      BY ONLY <1>1 DEF UpdateBalance, Begin
    <2>2. d \in Int /\ "balance" \in Columns
      BY AccountsAssumption DEF Columns
    <2> QED
      BY <1>1, <2>1, <2>2 DEF Quiet, CallChanges, UpdateBalance
  <1>2. ASSUME NEW u \in Users, NEW n \in Coins, IncrementCoins(c, u, n) \/ DecrementCoins(c, u, n)
        PROVE  Quiet(c)
    <2>1. PICK d \in Int :
            call' = [call EXCEPT ![c] = [at |-> "waiting", user |-> u, column |-> "coins", change |-> d]]
      <3>1. n \in Int /\ -n \in Int
        BY AccountsAssumption
      <3> QED
        BY ONLY <1>2, <3>1 DEF IncrementCoins, DecrementCoins, Begin
    <2>2. "coins" \in Columns
      BY DEF Columns
    <2> QED
      BY <1>2, <2>1, <2>2 DEF Quiet, CallChanges, IncrementCoins, DecrementCoins
  <1>3. ASSUME NEW u \in Users, NEW a \in Addresses, NEW b \in BOOLEAN, NEW k \in BOOLEAN,
               Link(c, u, a, b, k)
        PROVE  Quiet(c)
    <2>1. PICK old \in Addresses \union {NoWallet} :
            call' = [call EXCEPT ![c] =
              [at |-> "linking", user |-> u, address |-> a, primary |-> b,
               decodable |-> k, old |-> old]]
      BY <1>3 DEF Link, Begin, PrimaryOf
    <2> QED
      BY <1>3, <2>1 DEF Quiet, CallChanges, Link
  <1>4. ASSUME NotFound(c) \/ LinkFails(c) \/ Fail(c) PROVE Quiet(c)
    <2>1. call' = [call EXCEPT ![c] = Ready]
      BY ONLY <1>4 DEF NotFound, LinkFails, Fail, End
    <2> QED
      BY <1>4, <2>1 DEF Quiet, CallChanges, NotFound, LinkFails, Fail, Ready
  <1> QED
    BY <1>1, <1>2, <1>3, <1>4 DEF CallStep

\* What a commit of a change does, for one of the columns.
LEMMA CommitTypes ==
  ASSUME TypeOK, NEW c \in Calls, CommitChange(c)
  PROVE  /\ call[c].user \in Users /\ call[c].read + call[c].change \in Int
         /\ call[c].column = "coins" \/ schema = "sql" => call[c].read + call[c].change \in Nat
         /\ call[c].column \in Columns
         /\ call[c].change \in Int
         /\ call' = [call EXCEPT ![c] = Ready]
  <1>1. call[c].at = "holding" /\ Storable(call[c])
    BY DEF CommitChange
  <1>2. call[c] \in CallState
    BY DEF TypeOK
  <1>3. /\ call[c].user \in Users /\ call[c].read \in Int /\ call[c].change \in Int
        /\ call[c].column \in Columns
    BY ONLY <1>1, <1>2, CallTypes
  <1> QED
    BY <1>1, <1>3 DEF CommitChange, Storable, End

\* A step after which one call is ready keeps the types of the calls.
LEMMA EndTypes ==
  ASSUME TypeOK, NEW c \in Calls, call' = [call EXCEPT ![c] = Ready]
  PROVE  /\ call' \in [Calls -> CallState] /\ call'[c].at = "ready"
         /\ \A d \in Calls \ {c} : call'[d] = call[d]
  <1>1. Ready \in CallState /\ Ready.at = "ready"
    BY DEF CallState, Ready
  <1> QED
    BY <1>1, CallSet

\* What LockRow writes down.
LEMMA LockTypes ==
  ASSUME TypeOK, NEW c \in Calls, LockRow(c)
  PROVE  /\ call[c].user \in Users /\ call[c].column \in Columns
         /\ call' \in [Calls -> CallState]
         /\ call'[c] = [at |-> "holding", user |-> call[c].user, column |-> call[c].column,
                        change |-> call[c].change, read |-> Column(call[c].column)[call[c].user]]
         /\ \A d \in Calls \ {c} : call'[d] = call[d]
  <1>1. call[c].at = "waiting" /\ call[c] \in CallState
    BY DEF LockRow, TypeOK
  <1>2. call[c].user \in Users /\ call[c].column \in Columns /\ call[c].change \in Int
    BY ONLY <1>1, CallTypes
  <1>3. Column(call[c].column)[call[c].user] \in Int
    BY <1>2 DEF Column, TypeOK
  <1> DEFINE v == [at |-> "holding", user |-> call[c].user, column |-> call[c].column,
                   change |-> call[c].change, read |-> Column(call[c].column)[call[c].user]]
  <1>4. v \in CallState
    BY <1>2, <1>3 DEF CallState
  <1>5. call' = [call EXCEPT ![c] = v]
    BY DEF LockRow
  <1> HIDE DEF v
  <1>6. /\ call' \in [Calls -> CallState] /\ call'[c] = v
        /\ \A d \in Calls \ {c} : call'[d] = call[d]
    BY ONLY <1>4, <1>5, CallSet, TypeOK, c \in Calls
  <1> QED
    BY <1>2, <1>6 DEF v

\* What Firebase's deletion writes down.
LEMMA EraseTypes ==
  ASSUME TypeOK, NEW c \in Calls, NEW u \in Users, DeleteInFirebase(c, u)
  PROVE  /\ CallChanges(c)
         /\ call'[c] = [at |-> "erasing", user |-> u]
  <1>1. call' = [call EXCEPT ![c] = [at |-> "erasing", user |-> u]]
    BY DEF DeleteInFirebase, Begin
  <1> QED
    BY <1>1 DEF CallChanges, TypeOK

-----------------------------------------------------------------------------
\* Every step keeps the types.
LEMMA TypeStep == AccountsInv /\ [Next]_vars => TypeOK'
  <1> SUFFICES ASSUME AccountsInv, [Next]_vars PROVE TypeOK'
    OBVIOUS
  <1>0. TypeOK /\ made' \in 0 .. MaxCalls /\ schema' = schema
    BY CountStep DEF AccountsInv, Next, vars
  <1>1. ASSUME ReplaceChain PROVE TypeOK'
    <2>1. balance' \in [Users -> Nat] /\ balance' \in [Users -> Int] /\ paid' \in [Users -> Int]
      BY <1>1 DEF ReplaceChain
    <2> QED
      BY <1>0, <1>1, <2>1 DEF ReplaceChain, TypeOK
  <1>2. ASSUME NEW c \in Calls, Quiet(c) PROVE TypeOK'
    BY <1>0, <1>2, CallChangesType DEF Quiet, TypeOK, rows, history
  <1>3. ASSUME NEW c \in Calls, LockRow(c) PROVE TypeOK'
    <2>1. call' \in [Calls -> CallState]
      BY ONLY <1>0, <1>3, LockTypes, c \in Calls
    <2>2. UNCHANGED <<accounts, balance, coins, owner, primary, firebase, paid, earned>>
      BY ONLY <1>3 DEF LockRow, rows, history
    <2> QED
      BY ONLY <1>0, <2>1, <2>2 DEF TypeOK
  <1>4. ASSUME NEW c \in Calls, CommitChange(c) PROVE TypeOK'
    <2>1. /\ call[c].user \in Users /\ call[c].read + call[c].change \in Int
          /\ call[c].column = "coins" \/ schema = "sql"
               => call[c].read + call[c].change \in Nat
          /\ call[c].column \in {"balance", "coins"}
          /\ call[c].change \in Int /\ call' = [call EXCEPT ![c] = Ready]
      BY ONLY <1>0, <1>4, CommitTypes, c \in Calls DEF Columns
    <2>2. call' \in [Calls -> CallState]
      BY ONLY <1>0, <2>1, EndTypes, c \in Calls
    <2>3. /\ balance' \in [Users -> Int]
          /\ schema = "sql" => balance' \in [Users -> Nat]
          /\ coins' \in [Users -> Nat]
          /\ paid' \in [Users -> Int] /\ earned' \in [Users -> Int]
      <3>1. CASE call[c].column = "balance"
        BY ONLY <1>0, <1>4, <2>1, <3>1 DEF CommitChange, TypeOK
      <3>2. CASE call[c].column # "balance"
        BY ONLY <1>0, <1>4, <2>1, <3>2 DEF CommitChange, TypeOK
      <3> QED
        BY ONLY <3>1, <3>2
    <2>4. UNCHANGED <<accounts, owner, primary, firebase>>
      BY ONLY <1>4 DEF CommitChange
    <2> QED
      BY ONLY <1>0, <2>2, <2>3, <2>4 DEF TypeOK
  <1>5. ASSUME NEW c \in Calls, CommitLink(c) PROVE TypeOK'
    <2>1. call[c] \in CallState /\ call[c].at = "linking"
      BY <1>0, <1>5 DEF TypeOK, CommitLink
    <2>2. call[c].user \in Users /\ call[c].address \in Addresses
      BY ONLY <2>1, CallTypes
    <2>3. call' = [call EXCEPT ![c] = Ready]
      BY ONLY <1>5 DEF CommitLink, End
    <2>4. call' \in [Calls -> CallState]
      BY ONLY <1>0, <2>3, EndTypes, c \in Calls
    <2>5. owner' \in [Addresses -> Users \union {Nobody}] /\ primary' \subseteq Addresses
      BY ONLY <1>0, <1>5, <2>2 DEF TypeOK, CommitLink, Demoted
    <2> QED
      BY <1>0, <1>5, <2>4, <2>5 DEF TypeOK, CommitLink, history
  <1>9. ASSUME NEW c \in Calls, LinkUndecodable(c) PROVE TypeOK'
    <2>1. call' = [call EXCEPT ![c] = Ready]
      BY ONLY <1>9 DEF LinkUndecodable, End
    <2>2. call' \in [Calls -> CallState]
      BY ONLY <1>0, <2>1, EndTypes, c \in Calls
    <2> QED
      BY <1>0, <1>9, <2>2 DEF TypeOK, LinkUndecodable, Demoted, history
  <1>6. ASSUME NEW c \in Calls, DeleteInDatabase(c) PROVE TypeOK'
    <2>1. call' = [call EXCEPT ![c] = Ready]
      BY ONLY <1>6 DEF DeleteInDatabase, End
    <2>2. call' \in [Calls -> CallState]
      BY ONLY <1>0, <2>1, EndTypes, c \in Calls
    <2> QED
      BY <1>0, <1>6, <2>2 DEF TypeOK, DeleteInDatabase, history
  <1>7. ASSUME NEW c \in Calls, NEW u \in Users, DeleteInFirebase(c, u) PROVE TypeOK'
    <2>1. call' \in [Calls -> CallState]
      BY ONLY <1>0, <1>7, EraseTypes, CallChangesType, c \in Calls, u \in Users
    <2> QED
      BY <1>0, <1>7, <2>1 DEF TypeOK, DeleteInFirebase, rows, history
  <1>8. CASE UNCHANGED vars
    BY <1>0, <1>8 DEF TypeOK, vars, rows, history
  <1> QED
    BY <1>0, <1>1, <1>2, <1>3, <1>4, <1>5, <1>6, <1>7, <1>8, <1>9, QuietSteps DEF Next

\* Nobody takes a row and no column changes: what is held stays current.
LEMMA LedgerSame ==
  ASSUME TypeOK, Ledger, UNCHANGED <<balance, coins, paid, earned>>,
         \A d \in Calls : call'[d] = call[d] \/ call'[d].at # "holding"
  PROVE  Ledger'
  <1>1. \A d \in Calls : \A u \in Users : Holds(d, u)' => Holds(d, u)
    BY DEF Holds
  <1>2. \A d \in Calls : call'[d].at = "holding" =>
          call'[d].read =
            (IF call'[d].column = "balance" THEN balance' ELSE coins')[call'[d].user]
    <2> SUFFICES ASSUME NEW d \in Calls, call'[d].at = "holding"
                 PROVE  call'[d].read =
                          (IF call'[d].column = "balance" THEN balance' ELSE coins')[call'[d].user]
      OBVIOUS
    <2>1. call'[d] = call[d]
      OBVIOUS
    <2> QED
      BY <2>1 DEF Ledger, Column
  <1> QED
    BY <1>1, <1>2 DEF Ledger, Column

\* Every step keeps the columns equal to the committed changes.
LEMMA LedgerStep == AccountsInv /\ [Next]_vars => Ledger'
  <1> SUFFICES ASSUME AccountsInv, [Next]_vars PROVE Ledger'
    OBVIOUS
  <1>0. TypeOK /\ Ledger
    BY DEF AccountsInv
  <1>1. ASSUME ReplaceChain PROVE Ledger'
    <2>1. \A d \in Calls : call[d].at # "holding"
      <3> SUFFICES ASSUME NEW d \in Calls, call[d].at = "holding" PROVE FALSE
        OBVIOUS
      <3>1. call[d] \in CallState
        BY <1>0 DEF TypeOK
      <3>2. call[d].user \in Users
        BY ONLY <3>1, CallTypes, call[d].at = "holding"
      <3> QED
        BY <1>1, <3>2 DEF ReplaceChain, Locked, Holds
    <2> QED
      BY <1>0, <1>1, <2>1 DEF ReplaceChain, Ledger, Holds
  <1>2. ASSUME NEW c \in Calls, Quiet(c) PROVE Ledger'
    <2>1. /\ call'[c].at # "holding"
          /\ \A d \in Calls \ {c} : call'[d] = call[d]
      BY ONLY <1>0, <1>2, CallChangesType, c \in Calls DEF Quiet
    <2> QED
      BY <1>0, <1>2, <2>1, LedgerSame DEF Quiet, rows, history
  <1>3. ASSUME NEW c \in Calls, LockRow(c) PROVE Ledger'
    <2>1. /\ call[c].user \in Users
          /\ call'[c].at = "holding" /\ call'[c].user = call[c].user
          /\ call'[c].column = call[c].column
          /\ call'[c].read = Column(call[c].column)[call[c].user]
          /\ \A d \in Calls \ {c} : call'[d] = call[d]
      <3>1. /\ call[c].user \in Users
            /\ call'[c] = [at |-> "holding", user |-> call[c].user, column |-> call[c].column,
                 change |-> call[c].change, read |-> Column(call[c].column)[call[c].user]]
            /\ \A d \in Calls \ {c} : call'[d] = call[d]
        BY ONLY <1>0, <1>3, LockTypes, c \in Calls
      <3> QED
        BY ONLY <3>1
    <2>2. UNCHANGED <<balance, coins, paid, earned>> /\ \A d \in Calls : ~Holds(d, call[c].user)
      BY ONLY <1>3 DEF LockRow, rows, history, Locked
    <2>3. ASSUME NEW d \in Calls, NEW e \in Calls, NEW u \in Users, Holds(d, u)', Holds(e, u)'
          PROVE  d = e
      <3>1. Holds(c, u)' => u = call[c].user
        BY ONLY <2>1 DEF Holds
      <3>2. \A f \in Calls \ {c} : Holds(f, u)' => Holds(f, u)
        BY ONLY <2>1 DEF Holds
      <3>3. \A f, g \in Calls : Holds(f, u) /\ Holds(g, u) => f = g
        BY ONLY <1>0, u \in Users DEF Ledger
      <3> QED
        BY ONLY <2>2, <2>3, <3>1, <3>2, <3>3
    <2>4. ASSUME NEW d \in Calls, call'[d].at = "holding"
          PROVE  call'[d].read =
                   (IF call'[d].column = "balance" THEN balance' ELSE coins')[call'[d].user]
      <3>1. CASE d = c
        BY ONLY <2>1, <2>2, <3>1 DEF Column
      <3>2. CASE d # c
        BY ONLY <1>0, <2>1, <2>2, <2>4, <3>2, d \in Calls DEF Ledger, Column
      <3> QED
        BY ONLY <3>1, <3>2
    <2> QED
      BY ONLY <1>0, <2>2, <2>3, <2>4 DEF Ledger, Column
  <1>4. ASSUME NEW c \in Calls, CommitChange(c) PROVE Ledger'
    <2>1. /\ call[c].user \in Users /\ call[c].read + call[c].change \in Int
          /\ call[c].change \in Int /\ call' = [call EXCEPT ![c] = Ready]
      BY ONLY <1>0, <1>4, CommitTypes, c \in Calls
    <2>2. call'[c].at = "ready" /\ \A d \in Calls \ {c} : call'[d] = call[d]
      BY ONLY <1>0, <2>1, EndTypes, c \in Calls
    <2>3. Holds(c, call[c].user) /\ call[c].read = Column(call[c].column)[call[c].user]
      BY <1>0, <1>4 DEF Holds, CommitChange, Ledger
    <2>4. \A d, e \in Calls : \A u \in Users : Holds(d, u)' /\ Holds(e, u)' => d = e
      BY ONLY <1>0, <2>2 DEF Ledger, Holds
    <2>5. ASSUME NEW d \in Calls, call'[d].at = "holding"
          PROVE  /\ call'[d] = call[d] /\ call[d].at = "holding"
                 /\ call[d].user \in Users \ {call[c].user}
                 /\ call[d].read = Column(call[d].column)[call[d].user]
      <3>1. d # c /\ call'[d] = call[d]
        BY ONLY <2>2, <2>5
      <3>2. call[d] \in CallState
        BY <1>0 DEF TypeOK
      <3>3. call[d].user \in Users
        BY ONLY <2>5, <3>1, <3>2, CallTypes
      <3>4. call[d].user # call[c].user
        BY ONLY <1>0, <2>1, <2>3, <2>5, <3>1, c \in Calls DEF Ledger, Holds
      <3> QED
        BY ONLY <1>0, <2>5, <3>1, <3>3, <3>4 DEF Ledger
    <2>6. CASE call[c].column = "balance"
      <3>1. /\ balance' = [balance EXCEPT ![call[c].user] = call[c].read + call[c].change]
            /\ paid' = [paid EXCEPT ![call[c].user] = @ + call[c].change]
            /\ coins' = coins /\ earned' = earned
        BY ONLY <1>4, <2>6 DEF CommitChange
      <3>2. call[c].read = balance[call[c].user]
        BY ONLY <2>3, <2>6 DEF Column
      <3>3. \A u \in Users : balance'[u] = paid'[u] /\ coins'[u] = earned'[u]
        BY ONLY <1>0, <2>1, <3>1, <3>2 DEF Ledger, TypeOK
      <3>4. \A u \in Users \ {call[c].user} : balance'[u] = balance[u] /\ coins'[u] = coins[u]
        BY ONLY <1>0, <2>1, <3>1 DEF TypeOK
      <3> QED
        BY ONLY <2>4, <2>5, <3>3, <3>4 DEF Ledger, Column
    <2>7. CASE call[c].column # "balance"
      <3>1. /\ coins' = [coins EXCEPT ![call[c].user] = call[c].read + call[c].change]
            /\ earned' = [earned EXCEPT ![call[c].user] = @ + call[c].change]
            /\ balance' = balance /\ paid' = paid
        BY ONLY <1>4, <2>7 DEF CommitChange
      <3>2. call[c].read = coins[call[c].user]
        BY ONLY <2>3, <2>7 DEF Column
      <3>3. \A u \in Users : balance'[u] = paid'[u] /\ coins'[u] = earned'[u]
        BY ONLY <1>0, <2>1, <3>1, <3>2 DEF Ledger, TypeOK
      <3>4. \A u \in Users \ {call[c].user} : balance'[u] = balance[u] /\ coins'[u] = coins[u]
        BY ONLY <1>0, <2>1, <3>1 DEF TypeOK
      <3> QED
        BY ONLY <2>4, <2>5, <3>3, <3>4 DEF Ledger, Column
    <2> QED
      BY ONLY <2>6, <2>7
  <1>5. ASSUME NEW c \in Calls, CommitLink(c) \/ LinkUndecodable(c) \/ DeleteInDatabase(c)
        PROVE  Ledger'
    <2>1. call' = [call EXCEPT ![c] = Ready] /\ UNCHANGED <<balance, coins, paid, earned>>
      BY ONLY <1>5 DEF CommitLink, LinkUndecodable, DeleteInDatabase, End, history
    <2>2. call'[c].at = "ready" /\ \A d \in Calls \ {c} : call'[d] = call[d]
      BY ONLY <1>0, <2>1, EndTypes, c \in Calls
    <2> QED
      BY ONLY <1>0, <2>1, <2>2, LedgerSame
  <1>6. ASSUME NEW c \in Calls, NEW u \in Users, DeleteInFirebase(c, u) PROVE Ledger'
    <2>1. call'[c].at # "holding" /\ \A d \in Calls \ {c} : call'[d] = call[d]
      BY ONLY <1>0, <1>6, EraseTypes, CallChangesType, c \in Calls, u \in Users
    <2> QED
      BY <1>0, <1>6, <2>1, LedgerSame DEF DeleteInFirebase, rows, history
  <1>7. CASE UNCHANGED vars
    BY <1>0, <1>7, LedgerSame DEF vars, rows, history
  <1> QED
    BY <1>0, <1>1, <1>2, <1>3, <1>4, <1>5, <1>6, <1>7, QuietSteps DEF Next

\* Every step keeps the wallets in order.
LEMMA WalletStep == AccountsInv /\ [Next]_vars => WalletRows'
  <1> SUFFICES ASSUME AccountsInv, [Next]_vars PROVE WalletRows'
    OBVIOUS
  <1>0. TypeOK /\ WalletRows /\ Nobody \notin Users /\ schema' = schema
    BY AccountsAssumption DEF AccountsInv, Next, vars
  <1>1. ASSUME UNCHANGED <<accounts, owner, primary>> PROVE WalletRows'
    BY ONLY <1>0, <1>1 DEF WalletRows
  <1>2. ASSUME NEW c \in Calls, CommitLink(c) PROVE WalletRows'
    <2> DEFINE u == call[c].user
               w == call[c].address
    <2>1. call[c] \in CallState /\ call[c].at = "linking"
      BY <1>0, <1>2 DEF TypeOK, CommitLink
    <2>2. u \in Users /\ w \in Addresses
      BY ONLY <2>1, CallTypes
    <2>3. /\ u \in accounts /\ UNCHANGED accounts
          /\ owner[w] = Nobody /\ owner' = [owner EXCEPT ![w] = u]
          /\ schema = "sql" /\ call[c].primary => PrimaryOf(u) \subseteq {call[c].old}
          /\ primary' = IF call[c].primary THEN (primary \ {call[c].old}) \union {w} ELSE primary
      BY ONLY <1>2 DEF CommitLink, Conflicts, Demoted
    <2> HIDE DEF u, w
    <2>4. owner'[w] = u /\ \A a \in Addresses \ {w} : owner'[a] = owner[a]
      BY ONLY <1>0, <2>2, <2>3 DEF TypeOK
    <2>5. primary \subseteq Addresses /\ w \notin primary
      BY ONLY <1>0, <2>3 DEF TypeOK, WalletRows
    <2>6. \A a \in Addresses : owner'[a] \in accounts' \union {Nobody}
      BY ONLY <1>0, <2>3, <2>4 DEF WalletRows
    <2>7. \A a \in primary' : owner'[a] # Nobody
      BY ONLY <1>0, <2>2, <2>3, <2>4, <2>5 DEF WalletRows
    <2>8. ASSUME schema = "sql", NEW a \in primary', NEW b \in primary', owner'[a] = owner'[b]
          PROVE  a = b
      <3>1. CASE ~call[c].primary
        BY ONLY <1>0, <2>3, <2>4, <2>5, <2>8, <3>1 DEF WalletRows
      <3>2. CASE call[c].primary
        <4>1. \A e \in primary' \ {w} : e \in primary /\ owner'[e] = owner[e] /\ owner[e] # u
          BY ONLY <2>3, <2>4, <2>5, <2>8, <3>2 DEF PrimaryOf
        <4> QED
          BY ONLY <1>0, <2>4, <2>8, <4>1 DEF WalletRows
      <3> QED
        BY ONLY <3>1, <3>2
    <2> QED
      BY ONLY <1>0, <2>6, <2>7, <2>8 DEF WalletRows
  <1>4. ASSUME NEW c \in Calls, LinkUndecodable(c) PROVE WalletRows'
    <2>1. primary' \subseteq primary /\ UNCHANGED <<accounts, owner>>
      BY ONLY <1>4 DEF LinkUndecodable, Demoted
    <2> QED
      BY ONLY <1>0, <2>1 DEF WalletRows
  <1>3. ASSUME NEW c \in Calls, DeleteInDatabase(c) PROVE WalletRows'
    <2> DEFINE u == call[c].user
               gone == {a \in Addresses : owner[a] = u}
    <2>1. /\ accounts' = accounts \ {u}
          /\ owner' = [a \in Addresses |-> IF a \in gone THEN Nobody ELSE owner[a]]
          /\ primary' = primary \ gone
      BY ONLY <1>3 DEF DeleteInDatabase
    <2>2. \A a \in Addresses :
            owner'[a] = IF owner[a] = u THEN Nobody ELSE owner[a]
      BY ONLY <2>1
    <2>3. \A a \in primary' : a \in primary /\ a \in Addresses /\ owner'[a] = owner[a]
      BY ONLY <1>0, <2>1, <2>2 DEF TypeOK
    <2>4. \A a \in Addresses : owner'[a] \in accounts' \union {Nobody}
      BY ONLY <1>0, <2>1, <2>2 DEF WalletRows
    <2> QED
      BY ONLY <1>0, <2>3, <2>4 DEF WalletRows
  <1> QED
    BY <1>0, <1>1, <1>2, <1>3, <1>4, QuietSteps DEF Next, ReplaceChain, Quiet, LockRow,
      CommitChange, DeleteInFirebase, vars, rows, history

\* Every step keeps Firebase ahead of the database.
LEMMA DeletionStep == AccountsInv /\ [Next]_vars => Deletion'
  <1> SUFFICES ASSUME AccountsInv, [Next]_vars PROVE Deletion'
    OBVIOUS
  <1>0. TypeOK /\ Deletion
    BY DEF AccountsInv
  <1>1. ASSUME NEW c \in Calls, UNCHANGED <<accounts, firebase>>, call'[c].at # "erasing",
               \A d \in Calls \ {c} : call'[d] = call[d]
        PROVE  Deletion'
    BY ONLY <1>0, <1>1 DEF Deletion
  <1>2. ASSUME NEW c \in Calls, Quiet(c) PROVE Deletion'
    <2>1. \A d \in Calls \ {c} : call'[d] = call[d]
      BY ONLY <1>0, <1>2, CallChangesType, c \in Calls DEF Quiet
    <2> QED
      BY <1>1, <1>2, <2>1 DEF Quiet, rows
  <1>3. ASSUME NEW c \in Calls, LockRow(c) PROVE Deletion'
    <2>1. call'[c].at = "holding" /\ \A d \in Calls \ {c} : call'[d] = call[d]
      <3>1. /\ call'[c] = [at |-> "holding", user |-> call[c].user, column |-> call[c].column,
                 change |-> call[c].change, read |-> Column(call[c].column)[call[c].user]]
            /\ \A d \in Calls \ {c} : call'[d] = call[d]
        BY ONLY <1>0, <1>3, LockTypes, c \in Calls
      <3> QED
        BY ONLY <3>1
    <2> QED
      BY <1>1, <1>3, <2>1 DEF LockRow, rows
  <1>4. ASSUME NEW c \in Calls, CommitChange(c) \/ CommitLink(c) \/ LinkUndecodable(c)
        PROVE  Deletion'
    <2>1. call' = [call EXCEPT ![c] = Ready] /\ UNCHANGED <<accounts, firebase>>
      BY ONLY <1>4 DEF CommitChange, CommitLink, LinkUndecodable, End
    <2>2. call'[c].at = "ready" /\ \A d \in Calls \ {c} : call'[d] = call[d]
      BY ONLY <1>0, <2>1, EndTypes, c \in Calls
    <2> QED
      BY <1>1, <2>1, <2>2
  <1>5. ASSUME NEW c \in Calls, DeleteInDatabase(c) PROVE Deletion'
    <2>1. /\ call' = [call EXCEPT ![c] = Ready] /\ firebase' = firebase
          /\ accounts' = accounts \ {call[c].user} /\ call[c].at = "erasing"
      BY ONLY <1>5 DEF DeleteInDatabase, End
    <2>2. call'[c].at = "ready" /\ \A d \in Calls \ {c} : call'[d] = call[d]
      BY ONLY <1>0, <2>1, EndTypes, c \in Calls
    <2> QED
      BY ONLY <1>0, <2>1, <2>2, c \in Calls DEF Deletion
  <1>6. ASSUME NEW c \in Calls, NEW u \in Users, DeleteInFirebase(c, u) PROVE Deletion'
    <2>1. /\ call'[c].user = u
          /\ \A d \in Calls \ {c} : call'[d] = call[d]
      <3>1. call'[c] = [at |-> "erasing", user |-> u] /\ \A d \in Calls \ {c} : call'[d] = call[d]
        BY ONLY <1>0, <1>6, EraseTypes, CallChangesType, c \in Calls, u \in Users
      <3> QED
        BY ONLY <3>1
    <2>2. firebase' = firebase \ {u} /\ accounts' = accounts
      BY ONLY <1>6 DEF DeleteInFirebase, rows
    <2> QED
      BY ONLY <1>0, <2>1, <2>2 DEF Deletion
  <1>7. CASE ReplaceChain \/ UNCHANGED vars
    <2>1. UNCHANGED <<accounts, firebase, call>>
      BY ONLY <1>7 DEF ReplaceChain, vars, rows
    <2> QED
      BY ONLY <1>0, <2>1 DEF Deletion
  <1> QED
    BY <1>0, <1>2, <1>3, <1>4, <1>5, <1>6, <1>7, QuietSteps DEF Next

-----------------------------------------------------------------------------
\* The invariant holds in every reachable state.
THEOREM AccountsInvariance == Spec => []AccountsInv
  <1>1. AccountsInv /\ [Next]_vars => AccountsInv'
    BY TypeStep, LedgerStep, WalletStep, DeletionStep DEF AccountsInv
  <1> QED
    BY <1>1, AccountsInvInit, PTL DEF Spec

\* Every reachable state is well typed: no number of coins is negative, and no
\* balance where schema.sql is deployed.
THEOREM AccountsTypeCorrect == Spec => []TypeOK
  BY AccountsInvariance, PTL DEF AccountsInv

\* However many calls update one account, none is lost.
THEOREM UpdatesAreKept == Spec => []NoUpdateLost
  <1>1. AccountsInv => NoUpdateLost
    BY DEF AccountsInv, TypeOK, Ledger, NoUpdateLost
  <1> QED
    BY <1>1, AccountsInvariance, PTL

\* However many calls link wallets, none outlives its account, and under
\* schema.sql a user has one primary wallet at most.
THEOREM WalletsAreInOrder == Spec => []WalletsFollowSchema
  <1>1. AccountsInv => WalletsFollowSchema
    <2> SUFFICES ASSUME AccountsInv PROVE WalletsFollowSchema
      OBVIOUS
    <2>1. ASSUME schema = "sql", NEW u \in Users PROVE Cardinality(PrimaryOf(u)) <= 1
      <3>1. CASE PrimaryOf(u) = {}
        BY ONLY <3>1, FS_EmptySet
      <3>2. CASE PrimaryOf(u) # {}
        <4>1. PICK a \in PrimaryOf(u) : TRUE
          BY <3>2
        <4>2. PrimaryOf(u) = {a}
          BY <2>1, <4>1 DEF PrimaryOf, AccountsInv, WalletRows
        <4> QED
          BY ONLY <4>2, FS_Singleton
      <3> QED
        BY ONLY <3>1, <3>2
    <2> QED
      BY <2>1 DEF WalletsFollowSchema, AccountsInv, WalletRows
  <1> QED
    BY <1>1, AccountsInvariance, PTL

\* The database deletes nobody whom Firebase still knows.
THEOREM FirebaseIsFirst == Spec => []FirebaseGoesFirst
  <1>1. AccountsInv => FirebaseGoesFirst
    BY DEF AccountsInv, Deletion, FirebaseGoesFirst
  <1> QED
    BY <1>1, AccountsInvariance, PTL

\* A step leaves a user who had a primary wallet without one only when it ends
\* a link of that user's with a key that cannot be decoded.
THEOREM PrimaryStays == Spec => PrimaryIsKept
  <1> DEFINE Kept == \A u \in accounts' :
               PrimaryOf(u) # {} /\ PrimaryOf(u)' = {} => \E c \in Calls : UndecodableEnds(c, u)
  <1>1. AccountsInv /\ [Next]_vars => [Kept]_vars
    <2> SUFFICES ASSUME AccountsInv, [Next]_vars PROVE Kept \/ UNCHANGED vars
      OBVIOUS
    <2>0. TypeOK /\ WalletRows
      BY DEF AccountsInv
    <2>1. ASSUME UNCHANGED <<owner, primary>> PROVE Kept
      BY ONLY <2>1 DEF PrimaryOf
    <2>4. ASSUME NEW c \in Calls, LinkUndecodable(c) PROVE Kept
      <3>1. /\ call[c].at = "linking" /\ ~call[c].decodable
            /\ call[c].old # NoWallet => owner[call[c].old] = call[c].user
            /\ primary' = primary \ {call[c].old} /\ owner' = owner
            /\ call' = [call EXCEPT ![c] = Ready]
        BY ONLY <2>4 DEF LinkUndecodable, OldIsThere, Demoted, End
      <3>2. call'[c] = Ready
        BY ONLY <2>0, <3>1, c \in Calls DEF TypeOK
      <3>3. NoWallet \notin primary
        BY <2>0, AccountsAssumption DEF TypeOK
      <3> SUFFICES ASSUME NEW u \in accounts', NEW a \in primary, owner[a] = u,
                          a \notin primary'
                   PROVE  UndecodableEnds(c, u)
        BY <3>1 DEF PrimaryOf
      <3> QED
        BY ONLY <3>1, <3>2, <3>3, a \in primary, owner[a] = u, a \notin primary' DEF UndecodableEnds
    <2>2. ASSUME NEW c \in Calls, CommitLink(c) PROVE Kept
      <3> DEFINE w == call[c].address
      <3>1. call[c] \in CallState /\ call[c].at = "linking"
        BY <2>0, <2>2 DEF TypeOK, CommitLink
      <3>2. w \in Addresses
        BY ONLY <3>1, CallTypes
      <3>3. /\ owner[w] = Nobody /\ owner' = [owner EXCEPT ![w] = call[c].user]
            /\ call[c].old # NoWallet => owner[call[c].old] = call[c].user
            /\ primary' = IF call[c].primary THEN (primary \ {call[c].old}) \union {w} ELSE primary
        BY ONLY <2>2 DEF CommitLink, Conflicts, OldIsThere, Demoted
      <3> HIDE DEF w
      <3>4. /\ owner'[w] = call[c].user /\ \A a \in Addresses \ {w} : owner'[a] = owner[a]
            /\ primary \subseteq Addresses /\ w \notin primary /\ NoWallet \notin primary
        BY ONLY <2>0, <3>2, <3>3, AccountsAssumption DEF TypeOK, WalletRows
      <3> SUFFICES ASSUME NEW u \in accounts', NEW a \in primary, owner[a] = u
                   PROVE  \E b \in primary' : owner'[b] = u
        BY DEF PrimaryOf
      <3>5. CASE a \in primary'
        BY ONLY <3>4, <3>5, a \in primary, owner[a] = u
      <3>6. CASE a \notin primary'
        <4>1. call[c].primary /\ a = call[c].old /\ w \in primary'
          BY ONLY <3>3, <3>6, a \in primary
        <4>2. call[c].user = u
          BY ONLY <3>3, <3>4, <4>1, a \in primary, owner[a] = u
        <4> QED
          BY ONLY <3>4, <4>1, <4>2
      <3> QED
        BY ONLY <3>5, <3>6
    <2>3. ASSUME NEW c \in Calls, DeleteInDatabase(c) PROVE Kept
      <3> SUFFICES ASSUME NEW u \in accounts', NEW a \in primary, owner[a] = u
                   PROVE  \E b \in primary' : owner'[b] = u
        BY DEF PrimaryOf
      <3>1. /\ accounts' = accounts \ {call[c].user}
            /\ owner' = [b \in Addresses |-> IF owner[b] = call[c].user THEN Nobody ELSE owner[b]]
            /\ primary' = primary \ {b \in Addresses : owner[b] = call[c].user}
        BY <2>3 DEF DeleteInDatabase
      <3>2. a \in Addresses /\ u # call[c].user
        BY <2>0, <3>1 DEF TypeOK
      <3> QED
        BY ONLY <3>1, <3>2, a \in primary, owner[a] = u
    <2> HIDE DEF Kept
    <2> QED
      BY <2>0, <2>1, <2>2, <2>3, <2>4, QuietSteps DEF Next, ReplaceChain, Quiet, LockRow,
        CommitChange, DeleteInFirebase, vars, rows, history
  <1> QED
    BY <1>1, AccountsInvariance, PTL DEF Spec, PrimaryIsKept

-----------------------------------------------------------------------------
(* Part 2: the records and the goodwill actions.                           *)

-----------------------------------------------------------------------------
(* What is true of every declared key                                      *)

Rules == {"CASCADE", "SET_NULL", "RESTRICT", "NO_ACTION"}

\* Only a column that may be NULL is set to it, and nothing refers to the
\* ledger, whose rows replace_chain deletes.
IsSound(table) ==
  \A k \in DOMAIN table.refs :
    /\ table.refs[k].onDelete \in Rules
    /\ table.refs[k].onDelete = "SET_NULL" => table.refs[k].optional
    /\ table.refs[k].to # "ledger_entries"

\* A row of a lasting table goes only with rows of lasting tables.
GoesWithLasting(table) ==
  \A k \in DOMAIN table.refs : table.refs[k].onDelete = "CASCADE" => table.refs[k].to \in LastingTables

\* A row of the ledger goes with nothing, and loses only actions.
GoesWithNothing(table) ==
  \A k \in DOMAIN table.refs :
    /\ table.refs[k].onDelete # "CASCADE"
    /\ table.refs[k].onDelete = "SET_NULL" => table.refs[k].to = "goodwill_actions"

\* Table by table.
LEMMA EveryTableIsSound ==
  ASSUME NEW source \in {"models", "sql"}
  PROVE  /\ IsSound(UserTokenAsset) /\ IsSound(ApiKey) /\ IsSound(Notification)
         /\ IsSound(GoodwillAction) /\ IsSound(LedgerEntry) /\ IsSound(GoodwillLedger)
         /\ IsSound(MintIntent) /\ IsSound(MintOutbox) /\ IsSound(Proposal) /\ IsSound(Vote(source))
         /\ IsSound(CouncilMember) /\ IsSound(Bounty(source)) /\ IsSound(Follower)
         /\ IsSound(ActionLove) /\ IsSound(Comment) /\ IsSound(GoodwillActionTag)
         /\ IsSound(ProposalTag) /\ IsSound(Tag) /\ IsSound(AuditEntry)
         /\ IsSound(ContentReport) /\ IsSound(ControllerAction)
         /\ IsSound(SystemSetting(source))
  <1> USE DEF IsSound, Rules, Required, Optional
  <1>1. IsSound(UserTokenAsset) /\ IsSound(ApiKey) /\ IsSound(Notification)
    BY DEF UserTokenAsset, ApiKey, Notification
  <1>2. IsSound(GoodwillAction) /\ IsSound(LedgerEntry) /\ IsSound(GoodwillLedger)
    BY DEF GoodwillAction, LedgerEntry, GoodwillLedger
  <1>3. IsSound(MintIntent) /\ IsSound(MintOutbox) /\ IsSound(Proposal) /\ IsSound(Vote(source))
    BY DEF MintIntent, MintOutbox, Proposal, Vote
  <1>4. IsSound(CouncilMember) /\ IsSound(Bounty(source)) /\ IsSound(Follower)
    BY DEF CouncilMember, Bounty, Follower
  <1>5. IsSound(ActionLove) /\ IsSound(Comment) /\ IsSound(GoodwillActionTag)
    BY DEF ActionLove, Comment, GoodwillActionTag
  <1>6. IsSound(ProposalTag) /\ IsSound(Tag) /\ IsSound(AuditEntry)
    BY DEF ProposalTag, Tag, AuditEntry
  <1>7. IsSound(ContentReport) /\ IsSound(ControllerAction) /\ IsSound(SystemSetting(source))
    BY DEF ContentReport, ControllerAction, SystemSetting
  <1>8. QED
    BY ONLY <1>1, <1>2, <1>3, <1>4, <1>5, <1>6, <1>7

\* And so by name, in both declarations.
LEMMA DeclaredIsSound ==
  ASSUME NEW source \in {"models", "sql"}
  PROVE  /\ DOMAIN Declared(source) = Tables
         /\ \A name \in Tables : IsSound(Declared(source)[name])
  <1>1. DOMAIN Declared(source) = Tables
    BY DEF Declared, Tables
  <1>2. QED
    BY EveryTableIsSound, <1>1 DEF Declared

\* What others go by goes only with it.
LEMMA LastingGoesWithLasting ==
  ASSUME NEW source \in {"models", "sql"}, NEW name \in LastingTables
  PROVE  GoesWithLasting(Declared(source)[name])
  <1> USE DEF GoesWithLasting, LastingTables, Required, Optional
  <1>1. GoesWithLasting(GoodwillAction) /\ GoesWithLasting(MintIntent) /\ GoesWithLasting(MintOutbox)
    BY DEF GoodwillAction, MintIntent, MintOutbox
  <1>2. GoesWithLasting(Proposal) /\ GoesWithLasting(Vote(source)) /\ GoesWithLasting(Bounty(source))
    BY DEF Proposal, Vote, Bounty
  <1>3. /\ GoesWithLasting(Tag) /\ GoesWithLasting(AuditEntry)
        /\ GoesWithLasting(ControllerAction) /\ GoesWithLasting(SystemSetting(source))
    BY DEF Tag, AuditEntry, ControllerAction, SystemSetting
  <1> HIDE DEF GoesWithLasting, Required, Optional
  <1>4. QED
    BY <1>1, <1>2, <1>3 DEF Declared

\* The keys of whichever declaration is deployed.
LEMMA SchemaIsSound ==
  ASSUME NEW s \in DOMAIN Schemas
  PROVE  /\ DOMAIN Schemas[s] = Tables
         /\ \A name \in Tables : IsSound(Schemas[s][name])
         /\ \A name \in LastingTables : GoesWithLasting(Schemas[s][name])
         /\ GoesWithNothing(Schemas[s].ledger_entries)
  <1>1. PICK source \in {"models", "sql"} : Schemas[s] = Declared(source)
    BY DEF Schemas
  <1>2. GoesWithNothing(LedgerEntry)
    BY DEF GoesWithNothing, LedgerEntry, Optional
  <1>3. Declared(source).ledger_entries = LedgerEntry
    BY DEF Declared
  <1>4. QED
    BY <1>1, <1>2, <1>3, DeclaredIsSound, LastingGoesWithLasting

-----------------------------------------------------------------------------
(* The invariant                                                           *)

\* A row has the columns of its table.
IsRow(s, row) ==
  /\ row.table \in Tables
  /\ row = [table |-> row.table, refs |-> row.refs]
  /\ row.refs = [k \in DOMAIN row.refs |-> row.refs[k]]
  /\ DOMAIN row.refs = DOMAIN Schemas[s][row.table].refs

RecordTypes ==
  /\ schema \in DOMAIN Schemas
  /\ stamp \in Nat
  /\ \A i \in DOMAIN stored : i \in 1 .. stamp /\ IsRow(schema, stored[i])

\* What a submission will be stored as is nobody's id yet.
IdsAreFree ==
  /\ \A p \in pending : p.id \in 1 .. stamp /\ p.id \notin DOMAIN stored
  /\ \A p, q \in pending : p.id = q.id => p = q

RecordsInv == RecordTypes /\ IdsAreFree /\ NothingDangles

\* A row's references are in a set, or may be missing.
Fits(s, live, row) ==
  \A k \in DOMAIN row.refs :
    \/ <<Schemas[s][row.table].refs[k].to, row.refs[k]>> \in live
    \/ Schemas[s][row.table].refs[k].optional /\ row.refs[k] = Null

\* The initial states satisfy the invariant.
LEMMA RecordsInvInit == GoodwillInit => RecordsInv
  BY DEF GoodwillInit, RecordsInit, Init, Deployments, Schemas, RecordsInv, RecordTypes, IdsAreFree,
         NothingDangles

\* NothingDangles row by row, now and after a step.
LEMMA DanglingByRow ==
  /\ NothingDangles <=> \A i \in DOMAIN stored : Fits(schema, Live, stored[i])
  /\ NothingDangles' <=> \A i \in DOMAIN stored' : Fits(schema', Live', stored'[i])
  BY DEF NothingDangles, Fits, Target, Refs, Table

\* What is referred to may become more.
LEMMA FitsMore ==
  ASSUME NEW s, NEW live, NEW more, live \subseteq more, NEW row, Fits(s, live, row)
  PROVE  Fits(s, more, row)
  BY DEF Fits

-----------------------------------------------------------------------------
(* Storing a row                                                           *)

\* A new id leaves the other rows as they are, and the row refers to what is
\* there.
LEMMA InsertKeeps ==
  ASSUME RecordTypes, NothingDangles, NEW id \in Nat, id \notin DOMAIN stored,
         NEW row, IsRow(schema, row), Insert(id, row),
         schema' = schema, accounts' = accounts, owner' = owner
  PROVE  /\ DOMAIN stored' = DOMAIN stored \union {id}
         /\ \A i \in DOMAIN stored : stored'[i] = stored[i]
         /\ stored'[id] = row
         /\ NothingDangles'
  <1>1. /\ DOMAIN stored' = DOMAIN stored \union {id}
        /\ \A i \in DOMAIN stored : stored'[i] = stored[i]
        /\ stored'[id] = row
    BY DEF Insert
  <1>2. Live \subseteq Live'
    BY <1>1 DEF Live, Wallets
  <1>3. Fits(schema, Live, row)
    BY DEF Insert, RefersToLive, Fits
  <1>4. Fits(schema, Live', row)
    BY <1>2, <1>3, FitsMore
  <1>5. ASSUME NEW i \in DOMAIN stored PROVE Fits(schema, Live', stored[i])
    <2>1. Fits(schema, Live, stored[i])
      BY DanglingByRow
    <2>2. QED
      BY <2>1, <1>2, FitsMore
  <1>6. \A i \in DOMAIN stored' : Fits(schema', Live', stored'[i])
    BY <1>1, <1>4, <1>5
  <1>7. QED
    BY <1>1, <1>6, DanglingByRow

\* An action's row has the columns of its table.
LEMMA ActionRowIsRow ==
  ASSUME NEW s \in DOMAIN Schemas, NEW u
  PROVE  IsRow(s, ActionRow(u))
  <1>1. PICK source \in {"models", "sql"} : Schemas[s] = Declared(source)
    BY DEF Schemas
  <1>2. Declared(source).goodwill_actions = GoodwillAction
    BY DEF Declared
  <1>3. DOMAIN GoodwillAction.refs = {"performer_user_id"}
    BY DEF GoodwillAction
  <1>4. "goodwill_actions" \in Tables
    BY DEF Tables, Declared
  <1>5. QED
    BY <1>1, <1>2, <1>3, <1>4 DEF IsRow, ActionRow

\* So has what others store.
LEMMA CandidateIsRow ==
  ASSUME RecordTypes, NEW table, NEW row \in Candidates(table), RefersToLive(row),
         table \in Tables
  PROVE  IsRow(schema, row)
  BY DEF IsRow, Candidates

-----------------------------------------------------------------------------
(* What a deletion takes along                                             *)

\* What is in no closed set is not doomed.
LEMMA OutsideIsNotDoomed ==
  ASSUME NEW S \in SUBSET DOMAIN stored, Cascaded(S, Gone) \subseteq S
  PROVE  Doomed(Gone) \subseteq S
  BY DEF Doomed

\* The doomed rows take all rows along that cascade from them.
LEMMA DoomedIsClosed == Cascaded(Doomed(Gone), Gone) \subseteq Doomed(Gone)
  <1> SUFFICES ASSUME NEW i \in Cascaded(Doomed(Gone), Gone)
               PROVE  i \in Doomed(Gone)
    OBVIOUS
  <1>1. i \in DOMAIN stored
    BY DEF Cascaded
  <1>2. ASSUME NEW S \in SUBSET DOMAIN stored, Cascaded(S, Gone) \subseteq S
        PROVE  i \in S
    <2>1. Doomed(Gone) \subseteq S
      BY <1>2, OutsideIsNotDoomed
    <2>2. i \in Cascaded(S, Gone)
      BY <2>1 DEF Cascaded
    <2>3. QED
      BY <2>2, <1>2
  <1>3. QED
    BY <1>1, <1>2 DEF Doomed

\* What is not removed is there afterwards.
LEMMA RestLives ==
  ASSUME FollowDeletion(Gone), NEW x \in Live, x \notin Removed(Gone)
  PROVE  x \in Live'
  <1>1. /\ DOMAIN stored' = DOMAIN stored \ Doomed(Gone)
        /\ \A i \in DOMAIN stored' : stored'[i].table = stored[i].table
    BY DEF FollowDeletion
  <1>2. CASE x \in {"user_accounts"} \X accounts
    BY <1>2 DEF Live, Removed, Gone
  <1>3. CASE x \in {"user_wallets"} \X Wallets
    BY <1>3 DEF Live, Removed, Gone, Wallets
  <1>4. CASE x \in {<<stored[i].table, i>> : i \in DOMAIN stored}
    <2>1. PICK i \in DOMAIN stored : x = <<stored[i].table, i>>
      BY <1>4
    <2>2. i \notin Doomed(Gone)
      BY <2>1 DEF Removed
    <2>3. i \in DOMAIN stored' /\ x = <<stored'[i].table, i>>
      BY <2>1, <2>2, <1>1
    <2>4. QED
      BY <2>3 DEF Live
  <1>5. QED
    BY <1>2, <1>3, <1>4 DEF Live

\* A row that stays loses the references to what is removed, which may be
\* missing, and keeps the others.
LEMMA RowThatStays ==
  ASSUME RecordTypes, NothingDangles, FollowDeletion(Gone), schema' = schema,
         NEW i \in DOMAIN stored'
  PROVE  /\ i \in DOMAIN stored \ Doomed(Gone)
         /\ stored'[i] = [table |-> stored[i].table, refs |-> Cleared(i, Gone)]
         /\ IsRow(schema, stored'[i])
         /\ Fits(schema, Live', stored'[i])
  <1>1. /\ i \in DOMAIN stored \ Doomed(Gone)
        /\ stored'[i] = [table |-> stored[i].table, refs |-> Cleared(i, Gone)]
    BY DEF FollowDeletion
  <1>2. IsRow(schema, stored[i]) /\ Fits(schema, Live, stored[i])
    BY <1>1, DanglingByRow DEF RecordTypes
  <1>3. IsSound(Table(i))
    BY <1>1, <1>2, SchemaIsSound DEF RecordTypes, IsRow, Table
  <1>4. IsRow(schema, stored'[i])
    BY <1>1, <1>2 DEF IsRow, Cleared, Refs
  <1>5. ASSUME NEW k \in Refs(i)
        PROVE  \/ <<Table(i).refs[k].to, Cleared(i, Gone)[k]>> \in Live'
               \/ Table(i).refs[k].optional /\ Cleared(i, Gone)[k] = Null
    <2>1. k \in DOMAIN Table(i).refs
      BY <1>5, <1>2 DEF IsRow, Refs, Table
    <2>2. CASE Target(i, k) \in Removed(Gone)
      <3>1. Rule(i, k) # "RESTRICT" /\ Rule(i, k) # "NO_ACTION"
        BY <2>2, <1>1, <1>5 DEF FollowDeletion, Refused
      <3>2. Rule(i, k) # "CASCADE"
        <4>1. SUFFICES ASSUME Rule(i, k) = "CASCADE" PROVE FALSE
          OBVIOUS
        <4>2. i \in Cascaded(Doomed(Gone), Gone)
          BY <4>1, <2>2, <1>1, <1>5 DEF Cascaded, Removed
        <4>3. QED
          BY <4>2, <1>1, DoomedIsClosed
      <3>3. Table(i).refs[k].optional
        BY <3>1, <3>2, <1>3, <2>1 DEF IsSound, Rules, Rule
      <3>4. Cleared(i, Gone)[k] = Null
        BY <2>2, <1>5 DEF Cleared
      <3>5. QED
        BY <3>3, <3>4
    <2>3. CASE Target(i, k) \notin Removed(Gone)
      <3>1. Cleared(i, Gone)[k] = stored[i].refs[k]
        BY <2>3, <1>5 DEF Cleared
      <3>2. \/ Target(i, k) \in Live
            \/ Table(i).refs[k].optional /\ stored[i].refs[k] = Null
        BY <1>2, <1>5 DEF Fits, Target, Table, Refs
      <3>3. Target(i, k) \in Live => Target(i, k) \in Live'
        BY <2>3, RestLives
      <3>4. Target(i, k) = <<Table(i).refs[k].to, stored[i].refs[k]>>
        BY DEF Target
      <3>5. QED
        BY <3>1, <3>2, <3>3, <3>4
    <2>4. QED
      BY <2>2, <2>3
  <1>6. DOMAIN Cleared(i, Gone) = Refs(i)
    BY DEF Cleared
  <1>7. Fits(schema, Live', [table |-> stored[i].table, refs |-> Cleared(i, Gone)])
    BY <1>5, <1>6 DEF Fits, Table
  <1>8. QED
    BY <1>1, <1>4, <1>7

-----------------------------------------------------------------------------
(* The steps                                                               *)

\* A call on accounts, with what the foreign keys make of it.
LEMMA AccountStepKeeps ==
  ASSUME RecordsInv, AccountStep, UNCHANGED pending
  PROVE  RecordsInv'
  <1> USE DEF RecordsInv
  <1>1. FollowDeletion(Gone) /\ schema' = schema /\ stamp' = stamp
    BY DEF AccountStep
  <1>2. ASSUME NEW i \in DOMAIN stored'
        PROVE  /\ i \in DOMAIN stored
               /\ IsRow(schema, stored'[i]) /\ Fits(schema, Live', stored'[i])
    BY <1>1, RowThatStays
  <1>3. RecordTypes'
    BY <1>1, <1>2 DEF RecordTypes
  <1>4. IdsAreFree'
    BY <1>1, <1>2 DEF IdsAreFree
  <1>5. NothingDangles'
    BY <1>1, <1>2, DanglingByRow
  <1>6. QED
    BY <1>3, <1>4, <1>5

\* The replacement of the chain: nothing refers to the rows it deletes.
LEMMA ReplaceLedgerKeeps ==
  ASSUME RecordsInv, ReplaceLedger, UNCHANGED pending
  PROVE  RecordsInv'
  <1> USE DEF RecordsInv
  <1>1. /\ schema' = schema /\ stamp' = stamp /\ accounts' = accounts /\ owner' = owner
        /\ DOMAIN stored' = DOMAIN stored \ LedgerRows
        /\ \A i \in DOMAIN stored' : stored'[i] = stored[i]
    BY DEF ReplaceLedger, ReplaceChain
  <1>2. RecordTypes' /\ IdsAreFree'
    BY <1>1 DEF RecordTypes, IdsAreFree
  <1>3. ASSUME NEW i \in DOMAIN stored' PROVE Fits(schema, Live', stored'[i])
    <2>1. i \in DOMAIN stored /\ IsRow(schema, stored[i]) /\ Fits(schema, Live, stored[i])
      BY <1>1, <1>3, DanglingByRow DEF RecordTypes
    <2>2. IsSound(Schemas[schema][stored[i].table])
      BY <2>1, SchemaIsSound DEF RecordTypes, IsRow
    <2>3. ASSUME NEW x \in Live, x[1] # "ledger_entries" PROVE x \in Live'
      <3>1. CASE x \in {"user_accounts"} \X accounts \/ x \in {"user_wallets"} \X Wallets
        BY <3>1, <1>1 DEF Live, Wallets
      <3>2. ASSUME NEW j \in DOMAIN stored, x = <<stored[j].table, j>>
            PROVE  x \in Live'
        BY <3>2, <2>3, <1>1 DEF Live, LedgerRows
      <3>3. QED
        BY <3>1, <3>2 DEF Live
    <2>4. ASSUME NEW k \in DOMAIN stored[i].refs
          PROVE  Schemas[schema][stored[i].table].refs[k].to # "ledger_entries"
      BY <2>1, <2>2 DEF IsSound, IsRow
    <2>5. Fits(schema, Live', stored[i])
      BY <2>1, <2>3, <2>4 DEF Fits
    <2>6. QED
      BY <2>5, <1>1
  <1>4. QED
    BY <1>1, <1>2, <1>3, DanglingByRow

\* A row of whichever table.
LEMMA OthersStoreKeeps ==
  ASSUME RecordsInv, OthersStore, UNCHANGED pending
  PROVE  RecordsInv'
  <1> USE DEF RecordsInv
  <1>1. PICK table \in UNION Families : \E row \in Candidates(table) : Store(row)
    BY DEF OthersStore
  <1> table \in Tables
    BY <1>1, RecordsAssumption DEF Families
  <1>2. PICK row \in Candidates(table) : Store(row)
    BY <1>1
  <1>3. /\ Insert(stamp + 1, row) /\ stamp' = stamp + 1
        /\ schema' = schema /\ accounts' = accounts /\ owner' = owner
    BY <1>2 DEF Store, NextStamp, vars, rows
  <1>4. IsRow(schema, row)
    BY <1>2, <1>3, CandidateIsRow DEF Insert
  <1>5. stamp + 1 \in Nat /\ stamp + 1 \notin DOMAIN stored
    BY DEF RecordTypes
  <1>6. /\ DOMAIN stored' = DOMAIN stored \union {stamp + 1}
        /\ \A i \in DOMAIN stored : stored'[i] = stored[i]
        /\ stored'[stamp + 1] = row
        /\ NothingDangles'
    BY <1>3, <1>4, <1>5, InsertKeeps
  <1>7. RecordTypes'
    BY <1>3, <1>4, <1>6 DEF RecordTypes
  <1>8. IdsAreFree'
    BY <1>3, <1>6 DEF IdsAreFree, RecordTypes
  <1>9. QED
    BY <1>6, <1>7, <1>8

\* The row of a submission, under the id it has got.
LEMMA SubmitStoredKeeps ==
  ASSUME RecordsInv, NEW p \in pending, SubmitStored(p)
  PROVE  RecordsInv'
  <1> USE DEF RecordsInv
  <1>1. /\ Insert(p.id, ActionRow(p.user)) /\ pending' = pending \ {p}
        /\ stamp' = stamp /\ schema' = schema /\ accounts' = accounts /\ owner' = owner
    BY DEF SubmitStored, vars, rows
  <1>2. IsRow(schema, ActionRow(p.user))
    BY ActionRowIsRow DEF RecordTypes
  <1>3. p.id \in Nat /\ p.id \in 1 .. stamp /\ p.id \notin DOMAIN stored
    BY DEF IdsAreFree, RecordTypes
  <1>4. /\ DOMAIN stored' = DOMAIN stored \union {p.id}
        /\ \A i \in DOMAIN stored : stored'[i] = stored[i]
        /\ stored'[p.id] = ActionRow(p.user)
        /\ NothingDangles'
    BY <1>1, <1>2, <1>3, InsertKeeps
  <1>5. RecordTypes'
    BY <1>1, <1>2, <1>3, <1>4 DEF RecordTypes
  <1>6. IdsAreFree'
    BY <1>1, <1>4 DEF IdsAreFree
  <1>7. QED
    BY <1>4, <1>5, <1>6

\* Nothing dangles while rows, accounts and wallets stay as they are.
LEMMA SameRows ==
  ASSUME NothingDangles, UNCHANGED <<stored, schema, accounts, owner>>
  PROVE  NothingDangles'
  <1>1. Live' = Live
    BY DEF Live, Wallets
  <1>2. QED
    BY <1>1, DanglingByRow

\* A submission that begins or ends without a row.
LEMMA SubmitKeeps ==
  ASSUME RecordsInv,
         \/ \E u \in Users : Submit(u)
         \/ \E p \in pending : SubmitFails(p)
  PROVE  RecordsInv'
  <1> USE DEF RecordsInv
  <1>1. /\ stored' = stored /\ schema' = schema /\ accounts' = accounts /\ owner' = owner
        /\ \/ \E u \in Users : pending' = pending \union {[id |-> stamp + 1, user |-> u]} /\ stamp' = stamp + 1
           \/ pending' \subseteq pending /\ stamp' = stamp
    BY DEF Submit, SubmitFails, NextStamp, recordsVars, recordVars, vars, rows
  <1>2. RecordTypes'
    BY <1>1 DEF RecordTypes
  <1>3. IdsAreFree'
    BY <1>1 DEF RecordTypes, IdsAreFree
  <1>4. NothingDangles'
    BY <1>1, SameRows
  <1>5. QED
    BY <1>2, <1>3, <1>4

\* Steps that leave the rows alone.
LEMMA UnchangedKeeps ==
  ASSUME RecordsInv, UNCHANGED <<recordsVars, pending>>
  PROVE  RecordsInv'
  BY SameRows DEF RecordsInv, RecordTypes, IdsAreFree, recordsVars, recordVars, vars, rows

\* The invariant is inductive.
LEMMA RecordsInvNext == RecordsInv /\ [GoodwillNext]_goodwillVars => RecordsInv'
  <1> SUFFICES ASSUME RecordsInv, [GoodwillNext]_goodwillVars
               PROVE  RecordsInv'
    OBVIOUS
  <1>1. CASE RecordsStep
    BY <1>1, AccountStepKeeps, ReplaceLedgerKeeps, OthersStoreKeeps DEF RecordsStep, RecordsNext
  <1>2. CASE (\E u \in Users : Submit(u)) \/ (\E p \in pending : SubmitFails(p))
    BY <1>2, SubmitKeeps
  <1>3. CASE \E p \in pending : SubmitStored(p)
    BY <1>3, SubmitStoredKeeps
  <1>4. CASE (\E u \in Users : StartReading(u)) \/ FetchPage \/ AskForNextPage \/ StopReading
    BY <1>4, UnchangedKeeps DEF StartReading, FetchPage, AskForNextPage, StopReading
  <1>5. CASE UNCHANGED goodwillVars
    BY <1>5, UnchangedKeeps DEF goodwillVars
  <1>6. QED
    BY <1>1, <1>2, <1>3, <1>4, <1>5 DEF GoodwillNext

\* Types, free ids and references, in every reachable state.
THEOREM RecordsInvariance == GoodwillSpec => []RecordsInv
  <1>1. QED
    BY RecordsInvInit, RecordsInvNext, PTL DEF GoodwillSpec

\* Whoever deletes, stores or submits at the same time, no row refers to what
\* is gone: the deletion of an account (api_routes.py, lines 86-89) is followed
\* by what the foreign keys say, and a row whose user has gone is not stored.
THEOREM NoRowDangles == GoodwillSpec => []NothingDangles
  BY RecordsInvariance, PTL DEF RecordsInv

-----------------------------------------------------------------------------
(* LastingTables                                                                *)

LastingRows == {i \in DOMAIN stored : stored[i].table \in LastingTables}

\* No deletion of accounts or wallets dooms a row of a lasting table: it could only
\* go with another one.
LEMMA LastingIsNotDoomed ==
  ASSUME RecordTypes
  PROVE  Doomed(Gone) \intersect LastingRows = {}
  <1> DEFINE S == DOMAIN stored \ LastingRows
  <1>1. ASSUME NEW i \in Cascaded(S, Gone), i \notin S PROVE FALSE
    <2>1. i \in DOMAIN stored /\ stored[i].table \in LastingTables /\ IsRow(schema, stored[i])
      BY <1>1 DEF Cascaded, LastingRows, RecordTypes
    <2>2. PICK k \in Refs(i) :
            /\ Rule(i, k) = "CASCADE"
            /\ Target(i, k) \in Gone \union {<<stored[j].table, j>> : j \in S}
      BY <1>1 DEF Cascaded
    <2>3. GoesWithLasting(Table(i))
      BY <2>1, SchemaIsSound DEF RecordTypes, Table
    <2>4. Target(i, k)[1] \in LastingTables
      BY <2>1, <2>2, <2>3 DEF GoesWithLasting, Target, Rule, Refs, IsRow, Table
    <2>5. CASE Target(i, k) \in Gone
      BY <2>4, <2>5 DEF Gone, LastingTables
    <2>6. CASE \E j \in S : Target(i, k) = <<stored[j].table, j>>
      BY <2>4, <2>6 DEF LastingRows
    <2>7. QED
      BY <2>2, <2>5, <2>6
  <1>2. Doomed(Gone) \subseteq S
    BY <1>1, OutsideIsNotDoomed
  <1>3. QED
    BY <1>2

\* Nor a row of the ledger, whose accounts cannot be deleted, and whose actions
\* last.
LEMMA LedgerIsNotTouched ==
  ASSUME RecordTypes, FollowDeletion(Gone), NEW i \in LedgerRows
  PROVE  i \in DOMAIN stored' /\ stored'[i] = stored[i]
  <1>1. i \in DOMAIN stored /\ stored[i].table = "ledger_entries" /\ IsRow(schema, stored[i])
    BY DEF LedgerRows, RecordTypes
  <1>2. GoesWithNothing(Table(i))
    BY <1>1, SchemaIsSound DEF RecordTypes, Table
  <1>3. \A k \in Refs(i) : k \in DOMAIN Table(i).refs
    BY <1>1 DEF IsRow, Refs, Table
  <1> DEFINE S == DOMAIN stored \ {i}
  <1>4. i \notin Cascaded(S, Gone)
    BY <1>2, <1>3 DEF Cascaded, GoesWithNothing, Rule
  <1>5. Cascaded(S, Gone) \subseteq S
    BY <1>4 DEF Cascaded
  <1>6. i \notin Doomed(Gone)
    BY <1>5, OutsideIsNotDoomed
  <1>7. ASSUME NEW k \in Refs(i) PROVE Target(i, k) \notin Removed(Gone)
    <2>1. SUFFICES ASSUME Target(i, k) \in Removed(Gone) PROVE FALSE
      OBVIOUS
    <2>2. Rule(i, k) # "RESTRICT" /\ Rule(i, k) # "NO_ACTION" /\ Rule(i, k) # "CASCADE"
      BY <2>1, <1>1, <1>2, <1>3, <1>6 DEF FollowDeletion, Refused, GoesWithNothing, Rule
    <2>3. Rule(i, k) = "SET_NULL"
      BY <2>2, <1>1, <1>3, SchemaIsSound DEF RecordTypes, IsRow, IsSound, Rules, Rule, Table
    <2>4. Target(i, k)[1] = "goodwill_actions"
      BY <2>3, <1>2, <1>3 DEF GoesWithNothing, Rule, Target
    <2>5. CASE Target(i, k) \in Gone
      BY <2>4, <2>5 DEF Gone
    <2>6. ASSUME NEW j \in Doomed(Gone), Target(i, k) = <<stored[j].table, j>> PROVE FALSE
      <3>1. j \in LastingRows
        BY <2>4, <2>6 DEF Doomed, LastingRows, LastingTables
      <3>2. QED
        BY <3>1, LastingIsNotDoomed
    <2>7. QED
      BY <2>1, <2>5, <2>6 DEF Removed
  <1>8. Cleared(i, Gone) = stored[i].refs
    BY <1>1, <1>7 DEF Cleared, Refs, IsRow
  <1>9. /\ i \in DOMAIN stored'
        /\ stored'[i] = [table |-> stored[i].table, refs |-> Cleared(i, Gone)]
    BY <1>1, <1>6 DEF FollowDeletion
  <1>10. QED
    BY <1>1, <1>8, <1>9 DEF IsRow

\* What RecordsStand says of one row.
Stands(i) ==
  /\ stored[i].table \in LastingTables => i \in DOMAIN stored'
  /\ stored[i].table = "ledger_entries" /\ schema = "sql"
       => i \in DOMAIN stored' /\ stored'[i] = stored[i]

\* No step takes a row of a lasting table along.
LEMMA StepStands ==
  ASSUME RecordsInv, [GoodwillNext]_goodwillVars, NEW i \in DOMAIN stored
  PROVE  Stands(i)
  <1> USE DEF RecordsInv
  <1>1. CASE AccountStep
    <2>1. FollowDeletion(Gone)
      BY <1>1 DEF AccountStep
    <2>2. stored[i].table \in LastingTables => i \in DOMAIN stored'
      BY <2>1, LastingIsNotDoomed DEF FollowDeletion, LastingRows
    <2>3. stored[i].table = "ledger_entries" => i \in DOMAIN stored' /\ stored'[i] = stored[i]
      BY <2>1, LedgerIsNotTouched DEF LedgerRows
    <2>4. QED
      BY <2>2, <2>3 DEF Stands
  <1>2. CASE ReplaceLedger
    BY <1>2 DEF ReplaceLedger, LedgerRows, Stands, LastingTables
  <1>3. ASSUME NEW id, NEW row, Insert(id, row), id \notin DOMAIN stored PROVE Stands(i)
    BY <1>3 DEF Insert, Stands
  <1>4. CASE OthersStore
    <2>1. stamp + 1 \notin DOMAIN stored
      BY DEF RecordTypes
    <2>2. QED
      BY <2>1, <1>3, <1>4 DEF OthersStore, Store
  <1>5. ASSUME NEW p \in pending, SubmitStored(p) PROVE Stands(i)
    BY <1>3, <1>5 DEF SubmitStored, IdsAreFree
  <1>6. CASE stored' = stored
    BY <1>6 DEF Stands
  <1>7. stored' = stored \/ RecordsNext \/ \E p \in pending : SubmitStored(p)
    BY DEF GoodwillNext, RecordsStep, Submit, SubmitFails, StartReading, FetchPage, AskForNextPage,
           StopReading, goodwillVars, recordsVars, recordVars
  <1>8. QED
    BY <1>1, <1>2, <1>4, <1>5, <1>6, <1>7 DEF RecordsNext

\* A user who leaves takes no lasting record along, and the ledger stays as it is
\* where its trigger is deployed, although the models declare cascades of the
\* ORM (api_routes.py, lines 86-89; consensus.py, replace_chain).
THEOREM LastingRecordsStay == GoodwillSpec => RecordsStand
  <1>1. RecordsInv /\ [GoodwillNext]_goodwillVars
          => [\A i \in DOMAIN stored : Stands(i)]_recordsVars
    BY StepStands
  <1>2. [\A i \in DOMAIN stored : Stands(i)]_recordsVars
          <=> [\A i \in DOMAIN stored :
                 /\ stored[i].table \in LastingTables => i \in DOMAIN stored'
                 /\ stored[i].table = "ledger_entries" /\ schema = "sql"
                      => i \in DOMAIN stored' /\ stored'[i] = stored[i]]_recordsVars
    BY DEF Stands
  <1>3. QED
    BY <1>1, <1>2, RecordsInvariance, PTL DEF GoodwillSpec, RecordsStand

-----------------------------------------------------------------------------
(* The history of a user, page by page                                     *)

\* The place of an action in the list, the newest first, counted from 0.
Place(u, i) == Cardinality({j \in ActionsOf(u) : j > i})

\* The pages a client has been shown.
PagesShown == IF reading.at = "counted" THEN reading.page - 1 ELSE reading.page

StoredActions == {i \in DOMAIN stored : stored[i].table = "goodwill_actions"}

\* The record of a reading; the actions counted and wanted have numbers given
\* out, and the wanted ones are still stored.
ReadingType ==
  \/ reading = Idle
  \/ /\ reading = [at |-> reading.at, user |-> reading.user, page |-> reading.page,
                   counted |-> reading.counted, wanted |-> reading.wanted,
                   shown |-> reading.shown]
     /\ reading.at \in {"counted", "fetched"}
     /\ reading.user \in Users
     /\ reading.page \in Nat \ {0}
     /\ reading.counted \subseteq 1 .. stamp
     /\ reading.wanted \subseteq StoredActions

\* A wanted action that has not been shown comes after the pages shown.
NoneIsSkipped ==
  reading # Idle =>
    \A i \in reading.wanted \intersect ActionsOf(reading.user) :
      i \in reading.shown \/ PagesShown * PerPage <= Place(reading.user, i)

\* With a wanted action every newer one has been shown.
ShownAreNewest ==
  reading # Idle =>
    \A i, j \in reading.wanted \intersect ActionsOf(reading.user) :
      i \in reading.shown /\ j > i => j \in reading.shown

ReadingInv == ReadingType /\ NoneIsSkipped /\ ShownAreNewest

\* No one reads initially.
LEMMA ReadingInit == GoodwillInit => ReadingInv
  BY DEF GoodwillInit, ReadingInv, ReadingType, NoneIsSkipped, ShownAreNewest

\* A user's actions are finitely many, and so are those after one of them.
LEMMA ActionsAreFinite ==
  ASSUME RecordTypes, NEW u
  PROVE  /\ IsFiniteSet(ActionsOf(u)) /\ ActionsOf(u) \subseteq 1 .. stamp
         /\ \A i : IsFiniteSet({j \in ActionsOf(u) : j > i}) /\ Place(u, i) \in Nat
  <1>1. stamp \in Nat /\ ActionsOf(u) \subseteq 1 .. stamp
    BY DEF RecordTypes, ActionsOf
  <1>2. IsFiniteSet(1 .. stamp)
    BY <1>1, FS_Interval
  <1>3. IsFiniteSet(ActionsOf(u))
    BY <1>1, <1>2, FS_Subset
  <1>4. ASSUME NEW i PROVE IsFiniteSet({j \in ActionsOf(u) : j > i}) /\ Place(u, i) \in Nat
    <2>1. IsFiniteSet({j \in ActionsOf(u) : j > i})
      BY <1>3, FS_Subset
    <2> QED
      BY <2>1, FS_CardinalityType DEF Place
  <1> QED
    BY <1>1, <1>3, <1>4

\* An action stored before a step is its user's afterwards only if it was
\* before; and all of a user's actions stay the user's, or none does, when the
\* account is deleted.
LEMMA ActionsMove ==
  ASSUME RecordsInv, [GoodwillNext]_goodwillVars, NEW u \in Users
  PROVE  /\ \A i \in ActionsOf(u)' : i \in DOMAIN stored => i \in ActionsOf(u)
         /\ ActionsOf(u) \subseteq ActionsOf(u)' \/ ActionsOf(u)' \intersect DOMAIN stored = {}
  <1> DEFINE Moves ==
        /\ \A i \in ActionsOf(u)' : i \in DOMAIN stored => i \in ActionsOf(u)
        /\ ActionsOf(u) \subseteq ActionsOf(u)' \/ ActionsOf(u)' \intersect DOMAIN stored = {}
  <1>1. RecordTypes
    BY DEF RecordsInv
  <1>2. ASSUME \A i \in DOMAIN stored : stored[i].table = "goodwill_actions"
                 => i \in DOMAIN stored' /\ stored'[i] = stored[i],
               \A i \in DOMAIN stored' \intersect DOMAIN stored : stored'[i] = stored[i]
        PROVE  Moves
    BY <1>2 DEF ActionsOf
  <1>3. CASE AccountStep
    <2>1. FollowDeletion(Gone) /\ schema' = schema
      BY <1>3 DEF AccountStep
    <2>2. ASSUME NEW i \in DOMAIN stored'
          PROVE  /\ i \in DOMAIN stored /\ stored'[i].table = stored[i].table
                 /\ stored'[i].refs = Cleared(i, Gone)
      BY <2>1, <2>2 DEF FollowDeletion
    <2>3. ASSUME NEW i \in DOMAIN stored, stored[i].table = "goodwill_actions"
          PROVE  /\ i \in DOMAIN stored'
                 /\ Refs(i) = {"performer_user_id"}
                 /\ Target(i, "performer_user_id")
                      = <<"user_accounts", stored[i].refs.performer_user_id>>
      <3>1. i \in LastingRows
        BY <2>3 DEF LastingRows, LastingTables
      <3>2. i \notin Doomed(Gone)
        BY <1>1, <3>1, LastingIsNotDoomed
      <3>3. Table(i) = GoodwillAction
        <4>1. PICK source \in {"models", "sql"} : Schemas[schema] = Declared(source)
          BY <1>1 DEF RecordTypes, Schemas
        <4>2. Declared(source).goodwill_actions = GoodwillAction
          BY DEF Declared
        <4> QED
          BY <2>3, <4>1, <4>2 DEF Table
      <3>4. IsRow(schema, stored[i])
        BY <1>1 DEF RecordTypes
      <3>5. DOMAIN GoodwillAction.refs = {"performer_user_id"}
            /\ GoodwillAction.refs["performer_user_id"].to = "user_accounts"
        BY DEF GoodwillAction, Optional
      <3>6. Refs(i) = {"performer_user_id"}
        BY <3>3, <3>4, <3>5 DEF IsRow, Refs, Table
      <3>7. Target(i, "performer_user_id")
              = <<"user_accounts", stored[i].refs.performer_user_id>>
        BY <3>3, <3>5 DEF Target
      <3>8. i \in DOMAIN stored'
        BY <2>1, <3>2 DEF FollowDeletion
      <3> QED
        BY <3>6, <3>7, <3>8
    <2> DEFINE Left == <<"user_accounts", u>> \in Removed(Gone)
    <2>4. ASSUME NEW i \in DOMAIN stored, stored[i].table = "goodwill_actions"
          PROVE  stored'[i].refs.performer_user_id
                   = IF <<"user_accounts", stored[i].refs.performer_user_id>> \in Removed(Gone)
                     THEN Null ELSE stored[i].refs.performer_user_id
      <3>1. Cleared(i, Gone)["performer_user_id"]
              = IF Target(i, "performer_user_id") \in Removed(Gone)
                THEN Null ELSE stored[i].refs["performer_user_id"]
        BY <2>3, <2>4 DEF Cleared
      <3> QED
        BY <2>2, <2>3, <2>4, <3>1
    <2>5. u # Null
      BY RecordsAssumption
    <2>6. ASSUME NEW i \in ActionsOf(u)' PROVE i \in ActionsOf(u) /\ ~Left
      <3>1. /\ i \in DOMAIN stored' /\ stored'[i].table = "goodwill_actions"
            /\ stored'[i].refs.performer_user_id = u
        BY <2>6 DEF ActionsOf
      <3>2. i \in DOMAIN stored /\ stored[i].table = "goodwill_actions"
        BY <2>2, <3>1
      <3> QED
        BY <2>4, <2>5, <3>1, <3>2 DEF ActionsOf
    <2>7. ASSUME ~Left, NEW i \in ActionsOf(u) PROVE i \in ActionsOf(u)'
      <3>1. /\ i \in DOMAIN stored /\ stored[i].table = "goodwill_actions"
            /\ stored[i].refs.performer_user_id = u
        BY <2>7 DEF ActionsOf
      <3>2. i \in DOMAIN stored' /\ stored'[i].table = "goodwill_actions"
        BY <2>2, <2>3, <3>1
      <3> QED
        BY <2>4, <2>7, <3>1, <3>2 DEF ActionsOf
    <2> HIDE DEF Left
    <2> QED
      BY <2>6, <2>7
  <1>4. CASE ReplaceLedger
    BY <1>2, <1>4 DEF ReplaceLedger, LedgerRows
  <1>5. ASSUME NEW id, NEW row, Insert(id, row), id \notin DOMAIN stored PROVE Moves
    BY <1>2, <1>5 DEF Insert
  <1>6. CASE OthersStore
    <2>1. stamp + 1 \notin DOMAIN stored
      BY <1>1 DEF RecordTypes
    <2> QED
      BY <2>1, <1>5, <1>6 DEF OthersStore, Store
  <1>7. ASSUME NEW p \in pending, SubmitStored(p) PROVE Moves
    BY <1>5, <1>7 DEF SubmitStored, IdsAreFree, RecordsInv
  <1>8. CASE stored' = stored
    BY <1>2, <1>8
  <1>9. stored' = stored \/ RecordsNext \/ \E p \in pending : SubmitStored(p)
    BY DEF GoodwillNext, RecordsStep, Submit, SubmitFails, StartReading, FetchPage, AskForNextPage,
           StopReading, goodwillVars, recordsVars, recordVars
  <1> QED
    BY <1>3, <1>4, <1>6, <1>7, <1>8, <1>9 DEF RecordsNext

\* What is stored meanwhile pushes an action down the list, never up.
LEMMA PlacesGrow ==
  ASSUME RecordsInv, RecordsInv', [GoodwillNext]_goodwillVars, NEW u \in Users,
         NEW i \in ActionsOf(u)', i \in DOMAIN stored
  PROVE  i \in ActionsOf(u) /\ Place(u, i)' \in Nat /\ Place(u, i) <= Place(u, i)'
  <1>1. i \in ActionsOf(u) /\ ActionsOf(u) \subseteq ActionsOf(u)'
    BY ActionsMove
  <1> DEFINE before == {j \in ActionsOf(u) : j > i}
             after == {j \in ActionsOf(u)' : j > i}
  <1>2. before \subseteq after
    BY <1>1
  <1>3. RecordTypes'
    BY DEF RecordsInv
  <1>4. IsFiniteSet(ActionsOf(u)')
    <2>1. stamp' \in Nat /\ ActionsOf(u)' \subseteq 1 .. stamp'
      BY <1>3 DEF RecordTypes, ActionsOf
    <2>2. IsFiniteSet(1 .. stamp')
      BY <2>1, FS_Interval
    <2> QED
      BY <2>1, <2>2, FS_Subset
  <1>5. IsFiniteSet(after)
    BY <1>4, FS_Subset
  <1>6. Cardinality(before) <= Cardinality(after)
    BY <1>2, <1>5, FS_Subset
  <1>7. Cardinality(after) \in Nat
    BY <1>5, FS_CardinalityType
  <1> QED
    BY <1>1, <1>6, <1>7 DEF Place

\* As many pages as TotalPages says hold all there is.
LEMMA PagesSuffice ==
  ASSUME NEW n \in Nat, NEW page \in Nat, page >= TotalPages(n)
  PROVE  n <= page * PerPage
  <1> DEFINE m == n + PerPage - 1
             q == m \div PerPage
  <1>1. PerPage \in Nat \ {0} /\ m \in Nat
    BY GoodwillAssumption
  <1> HIDE DEF m
  <1>2. q \in Int /\ m < (q + 1) * PerPage
    BY <1>1
  <1>3. page >= q
    BY DEF TotalPages, m
  <1> HIDE DEF q
  <1>4. page * PerPage >= q * PerPage
    BY <1>1, <1>2, <1>3
  <1>5. (q + 1) * PerPage = q * PerPage + PerPage
    BY <1>1, <1>2
  <1> QED
    BY <1>1, <1>2, <1>4, <1>5 DEF m

\* The page fetched closes the gap between the pages shown and the next.
LEMMA FetchSkipsNone ==
  ASSUME RecordsInv, ReadingInv, FetchPage
  PROVE  /\ reading'.at = "fetched" /\ reading'.user = reading.user
         /\ reading'.page = reading.page /\ reading'.wanted = reading.wanted
         /\ reading'.counted = reading.counted
         /\ \A i \in reading.wanted \intersect ActionsOf(reading.user) :
              i \in reading'.shown \/ reading.page * PerPage <= Place(reading.user, i)
  <1>1. reading # Idle /\ reading.at = "counted"
    BY DEF FetchPage, Idle
  <1>2. /\ reading = [at |-> reading.at, user |-> reading.user, page |-> reading.page,
                      counted |-> reading.counted, wanted |-> reading.wanted,
                      shown |-> reading.shown]
        /\ reading.page \in Nat \ {0}
    BY <1>1 DEF ReadingInv, ReadingType
  <1>3. /\ reading'.at = "fetched" /\ reading'.user = reading.user
        /\ reading'.page = reading.page /\ reading'.wanted = reading.wanted
        /\ reading'.counted = reading.counted
        /\ reading'.shown = reading.shown \union PageOf(reading.user, reading.page)
    BY <1>2 DEF FetchPage
  <1>4. ASSUME NEW i \in reading.wanted \intersect ActionsOf(reading.user), i \notin reading'.shown
        PROVE  reading.page * PerPage <= Place(reading.user, i)
    <2>1. (reading.page - 1) * PerPage <= Place(reading.user, i)
      BY <1>1, <1>3, <1>4 DEF ReadingInv, NoneIsSkipped, PagesShown
    <2>2. ~(Place(reading.user, i) < reading.page * PerPage)
      BY <1>3, <1>4, <2>1 DEF PageOf, Place
    <2>3. Place(reading.user, i) \in Nat
      BY ActionsAreFinite DEF RecordsInv
    <2>4. reading.page * PerPage \in Nat
      BY <1>2, GoodwillAssumption
    <2> QED
      BY <2>2, <2>3, <2>4
  <1> QED
    BY <1>3, <1>4

\* So that what is shown stays the newest.
LEMMA FetchShowsNewest ==
  ASSUME RecordsInv, ReadingInv, FetchPage,
         NEW i \in reading.wanted \intersect ActionsOf(reading.user),
         NEW j \in reading.wanted \intersect ActionsOf(reading.user),
         i \in reading'.shown, j > i
  PROVE  j \in reading'.shown
  <1>1. reading # Idle /\ reading.at = "counted"
    BY DEF FetchPage, Idle
  <1>2. reading'.shown = reading.shown \union PageOf(reading.user, reading.page)
    BY <1>1 DEF FetchPage, ReadingInv, ReadingType
  <1>3. CASE i \in reading.shown \/ j \in reading.shown
    BY <1>1, <1>2, <1>3 DEF ReadingInv, ShownAreNewest
  <1>4. CASE i \notin reading.shown /\ j \notin reading.shown
    <2>1. i \in Nat /\ j \in Nat /\ reading.page \in Nat \ {0} /\ reading.page * PerPage \in Nat
      <3>1. RecordTypes /\ ActionsOf(reading.user) \subseteq 1 .. stamp
        BY ActionsAreFinite DEF RecordsInv
      <3>2. stamp \in Nat
        BY <3>1 DEF RecordTypes
      <3> QED
        BY <1>1, <3>1, <3>2, GoodwillAssumption DEF ReadingInv, ReadingType
    <2>2. Place(reading.user, i) < reading.page * PerPage
      BY <1>2, <1>4 DEF PageOf, Place
    <2>3. (reading.page - 1) * PerPage <= Place(reading.user, j)
      BY <1>1, <1>4 DEF ReadingInv, NoneIsSkipped, PagesShown
    <2>4. /\ Place(reading.user, j) <= Place(reading.user, i)
          /\ Place(reading.user, i) \in Nat /\ Place(reading.user, j) \in Nat
      <3> DEFINE newer(k) == {l \in ActionsOf(reading.user) : l > k}
      <3>0. RecordTypes /\ stamp \in Nat
        BY DEF RecordsInv, RecordTypes
      <3>1. /\ IsFiniteSet(newer(i)) /\ ActionsOf(reading.user) \subseteq 1 .. stamp
            /\ Place(reading.user, i) \in Nat /\ Place(reading.user, j) \in Nat
        BY <3>0, ActionsAreFinite
      <3>2. newer(j) \subseteq newer(i)
        <4> SUFFICES ASSUME NEW l \in ActionsOf(reading.user), l > j PROVE l > i
          OBVIOUS
        <4>1. l \in Int
          BY <3>0, <3>1
        <4> QED
          BY <2>1, <4>1
      <3>3. Cardinality(newer(j)) <= Cardinality(newer(i))
        BY <3>1, <3>2, FS_Subset
      <3> QED
        BY <3>1, <3>3 DEF Place
    <2>5. Place(reading.user, j) < reading.page * PerPage
      BY <2>1, <2>2, <2>4
    <2> QED
      BY <1>2, <2>3, <2>5 DEF PageOf, Place
  <1> QED
    BY <1>3, <1>4

\* Actions stay actions, and numbers are given out in order.
LEMMA ActionsStay ==
  ASSUME RecordsInv, [GoodwillNext]_goodwillVars
  PROVE  /\ \A i \in StoredActions : i \in StoredActions'
         /\ stamp <= stamp'
  <1>1. RecordTypes
    BY DEF RecordsInv
  <1>2. ASSUME NEW i \in StoredActions PROVE i \in StoredActions'
    <2>1. i \in DOMAIN stored /\ stored[i].table = "goodwill_actions" /\ i \in DOMAIN stored'
      BY StepStands DEF StoredActions, Stands, LastingTables
    <2>2. CASE AccountStep
      BY <2>1, <2>2 DEF AccountStep, FollowDeletion, StoredActions
    <2>3. CASE ReplaceLedger
      BY <2>1, <2>3 DEF ReplaceLedger, StoredActions
    <2>4. ASSUME NEW id, NEW row, Insert(id, row), id \notin DOMAIN stored PROVE i \in StoredActions'
      BY <2>1, <2>4 DEF Insert, StoredActions
    <2>5. CASE OthersStore
      <3>1. stamp + 1 \notin DOMAIN stored
        BY <1>1 DEF RecordTypes
      <3> QED
        BY <3>1, <2>4, <2>5 DEF OthersStore, Store
    <2>6. ASSUME NEW p \in pending, SubmitStored(p) PROVE i \in StoredActions'
      BY <2>4, <2>6 DEF SubmitStored, IdsAreFree, RecordsInv
    <2>7. CASE stored' = stored
      BY <2>1, <2>7 DEF StoredActions
    <2>8. stored' = stored \/ RecordsNext \/ \E p \in pending : SubmitStored(p)
      BY DEF GoodwillNext, RecordsStep, Submit, SubmitFails, StartReading, FetchPage,
             AskForNextPage, StopReading, goodwillVars, recordsVars, recordVars
    <2> QED
      BY <2>2, <2>3, <2>5, <2>6, <2>7, <2>8 DEF RecordsNext
  <1>3. stamp' = stamp \/ stamp' = stamp + 1
    BY DEF GoodwillNext, RecordsStep, RecordsNext, AccountStep, ReplaceLedger, OthersStore, Store,
           NextStamp, Submit, SubmitStored, SubmitFails, StartReading, FetchPage,
           AskForNextPage, StopReading, goodwillVars, recordsVars, recordVars
  <1> QED
    BY <1>1, <1>2, <1>3 DEF RecordTypes

\* Steps that leave the reading alone leave no action behind.
LEMMA ReadingStands ==
  ASSUME RecordsInv, RecordsInv', ReadingInv, [GoodwillNext]_goodwillVars, reading' = reading
  PROVE  ReadingInv'
  <1>1. CASE reading = Idle
    BY <1>1 DEF ReadingInv, ReadingType, NoneIsSkipped, ShownAreNewest
  <1>2. CASE reading # Idle
    <2>1. /\ reading.at \in {"counted", "fetched"}
          /\ reading.user \in Users /\ reading.page \in Nat \ {0}
          /\ reading.counted \subseteq 1 .. stamp
          /\ reading.wanted \subseteq StoredActions
      BY <1>2 DEF ReadingInv, ReadingType
    <2>2. reading.wanted \subseteq StoredActions' /\ stamp <= stamp'
      BY <2>1, ActionsStay
    <2>3. reading.counted \subseteq 1 .. stamp'
      BY <2>1, <2>2 DEF RecordsInv, RecordTypes
    <2>4. ReadingType'
      BY <1>2, <2>2, <2>3 DEF ReadingInv, ReadingType
    <2>5. ASSUME NEW i \in reading.wanted \intersect ActionsOf(reading.user)',
                 i \notin reading.shown
          PROVE  PagesShown * PerPage <= Place(reading.user, i)'
      <3>1. i \in DOMAIN stored
        BY <2>1 DEF StoredActions
      <3>2. /\ i \in ActionsOf(reading.user) /\ Place(reading.user, i)' \in Nat
            /\ Place(reading.user, i) <= Place(reading.user, i)'
        BY <2>1, <3>1, PlacesGrow
      <3>3. PagesShown * PerPage <= Place(reading.user, i)
        BY <1>2, <2>5, <3>2 DEF ReadingInv, NoneIsSkipped
      <3>4. Place(reading.user, i) \in Nat
        BY ActionsAreFinite DEF RecordsInv
      <3>5. PagesShown * PerPage \in Nat
        BY <2>1, GoodwillAssumption DEF PagesShown
      <3> QED
        BY <3>2, <3>3, <3>4, <3>5
    <2>6. NoneIsSkipped'
      BY <2>5 DEF NoneIsSkipped, PagesShown
    <2>7. ASSUME NEW i \in reading.wanted \intersect ActionsOf(reading.user)'
          PROVE  i \in ActionsOf(reading.user)
      <3>1. i \in DOMAIN stored
        BY <2>1 DEF StoredActions
      <3> QED
        BY <2>1, <3>1, ActionsMove
    <2>8. ShownAreNewest'
      BY <1>2, <2>7 DEF ReadingInv, ShownAreNewest
    <2> QED
      BY <2>4, <2>6, <2>8 DEF ReadingInv
  <1> QED
    BY <1>1, <1>2

\* The invariant of the reading is kept by every step.
LEMMA ReadingStep ==
  RecordsInv /\ RecordsInv' /\ ReadingInv /\ [GoodwillNext]_goodwillVars => ReadingInv'
  <1> SUFFICES ASSUME RecordsInv, RecordsInv', ReadingInv, [GoodwillNext]_goodwillVars
               PROVE  ReadingInv'
    OBVIOUS
  <1>1. RecordTypes
    BY DEF RecordsInv
  <1>2. ASSUME NEW u \in Users, StartReading(u) PROVE ReadingInv'
    <2>1. /\ reading' = [at |-> "counted", user |-> u, page |-> 1, counted |-> ActionsOf(u),
                         wanted |-> ActionsOf(u), shown |-> {}]
          /\ stored' = stored /\ stamp' = stamp
      BY <1>2 DEF StartReading, recordsVars, recordVars
    <2>2. ActionsOf(u) \subseteq 1 .. stamp /\ ActionsOf(u) \subseteq StoredActions
      BY <1>1, ActionsAreFinite DEF ActionsOf, StoredActions
    <2>3. ReadingType'
      BY <2>1, <2>2 DEF ReadingType, StoredActions
    <2>4. \A i : Place(u, i)' = Place(u, i) /\ Place(u, i) \in Nat
      BY <1>1, <2>1, ActionsAreFinite DEF Place, ActionsOf
    <2>5. PagesShown' * PerPage = 0
      BY <2>1, GoodwillAssumption DEF PagesShown
    <2>6. reading'.user = u
      BY <2>1
    <2>7. NoneIsSkipped'
      BY <2>4, <2>5, <2>6 DEF NoneIsSkipped
    <2>8. ShownAreNewest'
      BY <2>1 DEF ShownAreNewest
    <2> QED
      BY <2>3, <2>7, <2>8 DEF ReadingInv
  <1>3. CASE FetchPage
    <2>1. /\ reading'.at = "fetched" /\ reading'.user = reading.user
          /\ reading'.page = reading.page /\ reading'.wanted = reading.wanted
          /\ reading'.counted = reading.counted
          /\ \A i \in reading.wanted \intersect ActionsOf(reading.user) :
               i \in reading'.shown \/ reading.page * PerPage <= Place(reading.user, i)
      BY <1>3, FetchSkipsNone
    <2>2. reading # Idle /\ stored' = stored /\ stamp' = stamp
      BY <1>3 DEF FetchPage, Idle, recordsVars, recordVars
    <2>3. ReadingType'
      <3>1. /\ reading = [at |-> reading.at, user |-> reading.user, page |-> reading.page,
                          counted |-> reading.counted, wanted |-> reading.wanted,
                          shown |-> reading.shown]
            /\ reading' = [reading EXCEPT !.at = "fetched",
                             !.shown = @ \union PageOf(reading.user, reading.page)]
        BY <1>3, <2>2 DEF FetchPage, ReadingInv, ReadingType
      <3>2. reading' = [at |-> reading'.at, user |-> reading'.user, page |-> reading'.page,
                        counted |-> reading'.counted, wanted |-> reading'.wanted,
                        shown |-> reading'.shown]
        BY <3>1
      <3> QED
        BY <2>1, <2>2, <3>2 DEF ReadingInv, ReadingType, StoredActions
    <2>4. PagesShown' = reading.page
      BY <2>1 DEF PagesShown
    <2>5. NoneIsSkipped'
      BY <2>1, <2>2, <2>4 DEF NoneIsSkipped, Place, ActionsOf
    <2>6. ASSUME NEW i \in reading.wanted \intersect ActionsOf(reading.user),
                 NEW j \in reading.wanted \intersect ActionsOf(reading.user),
                 i \in reading'.shown, j > i
          PROVE  j \in reading'.shown
      BY <1>3, <2>6, FetchShowsNewest
    <2>7. ShownAreNewest'
      BY <2>1, <2>2, <2>6 DEF ShownAreNewest, ActionsOf
    <2> QED
      BY <2>3, <2>5, <2>7 DEF ReadingInv
  <1>4. CASE AskForNextPage
    <2>1. reading # Idle /\ reading.at = "fetched" /\ stored' = stored /\ stamp' = stamp
      BY <1>4 DEF AskForNextPage, Idle, recordsVars, recordVars
    <2>2. /\ reading = [at |-> reading.at, user |-> reading.user, page |-> reading.page,
                        counted |-> reading.counted, wanted |-> reading.wanted,
                        shown |-> reading.shown]
          /\ reading.user \in Users /\ reading.page \in Nat \ {0}
          /\ reading.wanted \subseteq StoredActions
      BY <2>1 DEF ReadingInv, ReadingType
    <2>3. reading' = [at |-> "counted", user |-> reading.user, page |-> reading.page + 1,
                      counted |-> ActionsOf(reading.user), wanted |-> reading.wanted,
                      shown |-> reading.shown]
      BY <1>4, <2>2 DEF AskForNextPage
    <2>4. ActionsOf(reading.user) \subseteq 1 .. stamp
      BY <1>1, ActionsAreFinite
    <2>5. ReadingType'
      BY <2>1, <2>2, <2>3, <2>4 DEF ReadingType, StoredActions
    <2>6. PagesShown' = PagesShown
      BY <2>1, <2>2, <2>3 DEF PagesShown
    <2>7. NoneIsSkipped'
      BY <2>1, <2>3, <2>6 DEF ReadingInv, NoneIsSkipped, Place, ActionsOf
    <2>8. ShownAreNewest'
      BY <2>1, <2>3 DEF ReadingInv, ShownAreNewest, ActionsOf
    <2> QED
      BY <2>5, <2>7, <2>8 DEF ReadingInv
  <1>5. CASE StopReading
    BY <1>5 DEF StopReading, ReadingInv, ReadingType, NoneIsSkipped, ShownAreNewest
  <1>6. CASE reading' = reading
    BY <1>6, ReadingStands
  <1>7. \/ reading' = reading
        \/ \E u \in Users : StartReading(u)
        \/ FetchPage \/ AskForNextPage \/ StopReading
    BY DEF GoodwillNext, RecordsStep, Submit, SubmitStored, SubmitFails, goodwillVars
  <1> QED
    BY <1>2, <1>3, <1>4, <1>5, <1>6, <1>7

\* A set of numbers up to a bound has a greatest.
LEMMA GreatestExists ==
  ASSUME NEW n \in Nat, NEW S \in SUBSET (1 .. n), S # {}
  PROVE  \E m \in S : \A i \in S : i <= m
  <1> DEFINE less == OpToRel(<, Nat)
             T == {n - i : i \in S}
  <1>1. T \subseteq Nat /\ T # {}
    <2>1. ASSUME NEW i \in S PROVE n - i \in Nat
      <3>1. i \in 1 .. n
        OBVIOUS
      <3> QED
        BY <3>1
    <2> QED
      BY <2>1
  <1>2. \E x \in T : \A y \in T : ~(<<y, x>> \in less)
    <2> HIDE DEF T, less
    <2> QED
      BY <1>1, NatLessThanWellFounded, WFMin DEF less
  <1>3. PICK x \in T : \A y \in T : ~(y < x)
    BY <1>1, <1>2 DEF OpToRel
  <1>4. PICK m \in S : x = n - m
    OBVIOUS
  <1>5. ASSUME NEW i \in S PROVE i <= m
    <2>1. n - i \in T /\ ~(n - i < n - m)
      BY <1>3, <1>4
    <2> QED
      BY <2>1
  <1> QED
    BY <1>5

\* The last page leaves no more than were committed since it was counted.
LEMMA LastPageLeaves ==
  ASSUME RecordsInv, ReadingInv, FetchPage, IsLastPage(reading)
  PROVE  LET missed == (reading.wanted \intersect ActionsOf(reading.user)) \ reading'.shown
             late == ActionsOf(reading.user) \ reading.counted
         IN  Cardinality(missed) <= Cardinality(late)
  <1> DEFINE actions == ActionsOf(reading.user)
             missed == (reading.wanted \intersect actions) \ reading'.shown
             late == actions \ reading.counted
             n == Cardinality(reading.counted)
  <1>1. RecordTypes /\ reading # Idle /\ stamp \in Nat
    BY DEF RecordsInv, RecordTypes, FetchPage, Idle
  <1>2. /\ reading.page \in Nat /\ reading.counted \subseteq 1 .. stamp
        /\ actions \subseteq 1 .. stamp /\ IsFiniteSet(actions)
    BY <1>1, ActionsAreFinite DEF ReadingInv, ReadingType
  <1>3. IsFiniteSet(reading.counted) /\ n \in Nat
    <2>1. IsFiniteSet(1 .. stamp)
      BY <1>1, FS_Interval
    <2> QED
      BY <1>2, <2>1, FS_Subset, FS_CardinalityType
  <1>4. n <= reading.page * PerPage
    BY <1>2, <1>3, PagesSuffice DEF IsLastPage
  <1>5. /\ IsFiniteSet(late) /\ Cardinality(late) \in Nat
        /\ Cardinality(late) = Cardinality(actions) - Cardinality(actions \intersect reading.counted)
        /\ Cardinality(actions \intersect reading.counted) <= n
        /\ Cardinality(actions \intersect reading.counted) \in Nat
        /\ Cardinality(actions) \in Nat
    <2>1. IsFiniteSet(actions \intersect reading.counted)
      BY <1>2, FS_Subset
    <2>2. Cardinality(late) = Cardinality(actions) - Cardinality(actions \intersect reading.counted)
      BY <1>2, FS_Difference
    <2>3. IsFiniteSet(late)
      BY <1>2, FS_Subset
    <2>4. Cardinality(actions \intersect reading.counted) <= n
      BY <1>3, FS_Subset
    <2> HIDE DEF late, actions, n
    <2> QED
      BY <1>2, <2>1, <2>2, <2>3, <2>4, FS_CardinalityType
  <1>6. CASE missed = {}
    <2>1. Cardinality(missed) = 0
      BY ONLY <1>6, FS_EmptySet
    <2> QED
      BY <1>5, <2>1
  <1>7. CASE missed # {}
    <2>1. PICK m \in missed : \A i \in missed : i <= m
      <3>1. missed \in SUBSET (1 .. stamp)
        BY <1>2
      <3> HIDE DEF missed
      <3> QED
        BY <1>1, <1>7, <3>1, GreatestExists
    <2> DEFINE newer == {j \in actions : j > m}
    <2>2. n <= Cardinality(newer) /\ Cardinality(newer) \in Nat /\ IsFiniteSet(newer)
      <3>1. reading.page * PerPage <= Place(reading.user, m)
        BY <2>1, FetchSkipsNone
      <3>2. Place(reading.user, m) \in Nat /\ reading.page * PerPage \in Nat /\ IsFiniteSet(newer)
        BY <1>1, <1>2, ActionsAreFinite, GoodwillAssumption
      <3>3. Place(reading.user, m) = Cardinality(newer)
        BY DEF Place
      <3> HIDE DEF newer, n
      <3> QED
        BY <1>3, <1>4, <3>1, <3>2, <3>3
    <2>3. missed \subseteq actions \ newer
      <3> SUFFICES ASSUME NEW i \in missed PROVE i \in actions /\ ~(i > m)
        OBVIOUS
      <3>1. i <= m /\ i \in actions /\ i \in Int /\ m \in Int
        BY <1>2, <2>1
      <3> QED
        BY <3>1
    <2>4. /\ IsFiniteSet(actions \ newer)
          /\ Cardinality(actions \ newer) = Cardinality(actions) - Cardinality(actions \intersect newer)
      BY <1>2, FS_Difference, FS_Subset
    <2>5. actions \intersect newer = newer
      OBVIOUS
    <2>6. Cardinality(missed) <= Cardinality(late)
      <3> HIDE DEF missed, late, newer, actions, n
      <3>1. Cardinality(missed) <= Cardinality(actions \ newer) /\ Cardinality(missed) \in Nat
        BY <2>3, <2>4, FS_Subset, FS_CardinalityType
      <3> QED
        BY <1>3, <1>5, <2>2, <2>4, <2>5, <3>1
    <2> QED
      BY <2>6
  <1> QED
    BY <1>6, <1>7

\* And what it leaves is older than all that was shown.
LEMMA LastPageLeavesOldest ==
  ASSUME RecordsInv, ReadingInv, FetchPage,
         NEW i \in (reading.wanted \intersect ActionsOf(reading.user)) \ reading'.shown,
         NEW j \in reading.wanted \intersect ActionsOf(reading.user), j \in reading'.shown
  PROVE  i < j
  <1>0. RecordTypes /\ stamp \in Nat
    BY DEF RecordsInv, RecordTypes
  <1>1. ActionsOf(reading.user) \subseteq 1 .. stamp
    BY <1>0, ActionsAreFinite
  <1>2. i \in Int /\ j \in Int /\ i # j
    BY <1>0, <1>1
  <1>3. ~(i > j)
    BY FetchShowsNewest
  <1> QED
    BY <1>2, <1>3

\* A client that gets to the last page of a user's history has missed no more
\* of the actions that were there at the start and still are than were
\* committed between the count of that page and its cut, and only the oldest,
\* for any page size and whatever is submitted, stored or deleted meanwhile
\* (get_user_history, lines 166-192).
THEOREM HistoryLosesFew == GoodwillSpec => HistoryLosesOnlyOvertaken
  <1> DEFINE Few ==
        reading.at = "counted" /\ reading'.at = "fetched" /\ IsLastPage(reading) =>
          LET there == reading.wanted \intersect ActionsOf(reading.user)
              missed == there \ reading'.shown
              late == ActionsOf(reading.user) \ reading.counted
          IN  /\ Cardinality(missed) <= Cardinality(late)
              /\ \A i \in missed, j \in there \ missed : i < j
  <1>1. RecordsInv /\ ReadingInv /\ [GoodwillNext]_goodwillVars => [Few]_goodwillVars
    <2> SUFFICES ASSUME RecordsInv, ReadingInv, [GoodwillNext]_goodwillVars,
                        reading.at = "counted", reading'.at = "fetched", IsLastPage(reading)
                 PROVE  Few
      OBVIOUS
    <2>1. FetchPage
      BY DEF GoodwillNext, RecordsStep, Submit, SubmitStored, SubmitFails, StartReading,
             AskForNextPage, StopReading, Idle, goodwillVars
    <2> QED
      BY <2>1, LastPageLeaves, LastPageLeavesOldest
  <1> QED
    BY <1>1, RecordsInvInit, RecordsInvNext, ReadingInit, ReadingStep, PTL
    DEF GoodwillSpec, HistoryLosesOnlyOvertaken

-----------------------------------------------------------------------------
(* Accounts among the records                                              *)

\* Rows that refer to accounts forbid some of their deletions and add none.
THEOREM GoodwillImplementsAccounts == GoodwillSpec => Spec
  <1>1. GoodwillInit => Init
    BY DEF GoodwillInit, RecordsInit
  <1>2. [GoodwillNext]_goodwillVars => [Next]_vars
    <2>1. AccountStep => Next
      BY DEF AccountStep, Next
    <2>2. ReplaceLedger => Next
      BY DEF ReplaceLedger, Next
    <2>3. OthersStore => UNCHANGED vars
      BY DEF OthersStore, Store
    <2>4. (\E u \in Users : Submit(u) \/ StartReading(u)) => UNCHANGED vars
      BY DEF Submit, StartReading, recordsVars
    <2>5. (\E p \in pending : SubmitStored(p) \/ SubmitFails(p)) => UNCHANGED vars
      BY DEF SubmitStored, SubmitFails, recordsVars
    <2>6. FetchPage \/ AskForNextPage \/ StopReading \/ UNCHANGED goodwillVars => UNCHANGED vars
      BY DEF FetchPage, AskForNextPage, StopReading, goodwillVars, recordsVars
    <2>7. QED
      BY <2>1, <2>2, <2>3, <2>4, <2>5, <2>6 DEF GoodwillNext, RecordsStep, RecordsNext
  <1>3. QED
    BY <1>1, <1>2, PTL DEF GoodwillSpec, Spec

\* What holds of the accounts by themselves holds among the records.
THEOREM AccountsAmongRecords ==
  GoodwillSpec => [](NoUpdateLost /\ WalletsFollowSchema /\ FirebaseGoesFirst) /\ PrimaryIsKept
  BY GoodwillImplementsAccounts, UpdatesAreKept, WalletsAreInOrder, FirebaseIsFirst, PrimaryStays, PTL
=============================================================================
