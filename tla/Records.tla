------------------------------ MODULE Records ------------------------------
(***************************************************************************)
(* The calls of Accounts in a database whose other tables refer to the     *)
(* accounts: what the deletion of an account (routes/api_routes.py) and    *)
(* the replacement of the chain (consensus.py) do to the rows of those     *)
(* tables, and what those rows do to them.                                 *)
(*                                                                         *)
(* The deletions are bulk statements (Query.delete), so that the cascades  *)
(* of the ORM's relationships do not run: the foreign keys of the database *)
(* decide.  Rows are stored by the services or by whoever else uses the    *)
(* database.                                                               *)
(***************************************************************************)
EXTENDS Accounts, Schema

CONSTANT
  Limits         \* bound: how many calls and rows there may be together, and
                 \* of which families of tables

Null == 0

ASSUME RecordsAssumption ==
  /\ Null \notin Users /\ Null \notin Addresses
  /\ Limits \subseteq [calls : Nat, rows : Nat, families : SUBSET (SUBSET Tables)]

VARIABLES
  stored,        \* the rows, by id; ids grow with created_at
  stamp          \* the last created_at given out

recordVars == <<stored, stamp>>
recordsVars == <<vars, recordVars>>

Table(i) == Schemas[schema][stored[i].table]
Refs(i) == DOMAIN stored[i].refs

\* What a column of a row refers to.
Target(i, k) == <<Table(i).refs[k].to, stored[i].refs[k]>>
Rule(i, k) == Table(i).refs[k].onDelete

Wallets == {a \in Addresses : owner[a] # Nobody}

\* What can be referred to.
Live ==
  ({"user_accounts"} \X accounts) \union ({"user_wallets"} \X Wallets)
    \union {<<stored[i].table, i>> : i \in DOMAIN stored}

Families == UNION {l.families : l \in Limits}

\* Bound: so many calls, so many rows, and these tables beside those with rows.
WithinLimits(calls, number, tables) ==
  \E l \in Limits :
    /\ calls <= l.calls /\ number <= l.rows
    /\ \E F \in l.families : tables \union {stored[i].table : i \in DOMAIN stored} \subseteq F

RecordsInit ==
  /\ Init
  /\ stored = [i \in {} |-> Null]
  /\ stamp = 0

-----------------------------------------------------------------------------
(* Storing a row                                                           *)

\* The user whose row lock the check of a foreign key needs, shared.
Unlocked(row) ==
  \A k \in DOMAIN row.refs :
    Schemas[schema][row.table].refs[k].to = "user_accounts" => ~Locked(row.refs[k])

\* Foreign keys and NOT NULL.
RefersToLive(row) ==
  LET refs == Schemas[schema][row.table].refs
  IN  /\ DOMAIN row.refs = DOMAIN refs
      /\ \A k \in DOMAIN refs :
           \/ <<refs[k].to, row.refs[k]>> \in Live
           \/ refs[k].optional /\ row.refs[k] = Null

\* Unique keys, in which a NULL is equal to nothing.
IsUnique(row) ==
  \A key \in Schemas[schema][row.table].keys : \A i \in DOMAIN stored :
    stored[i].table = row.table
      => \E k \in key : row.refs[k] = Null \/ stored[i].refs[k] # row.refs[k]

\* chk_comment_has_one_target.
HasOneTarget(row) ==
  row.table = "comments" =>
    (row.refs.proposal_id = Null) # (row.refs.goodwill_action_id = Null)

\* Faulty variant: no foreign key stands behind the read of an action's user.
InsertUnchecked(id, row) ==
  /\ row.table = "goodwill_actions" \/ RefersToLive(row)
  /\ Unlocked(row) /\ IsUnique(row) /\ HasOneTarget(row)
  /\ stored' = [i \in DOMAIN stored \union {id} |-> IF i = id THEN row ELSE stored[i]]

\* An INSERT that commits.
Insert(id, row) ==
  /\ RefersToLive(row) /\ Unlocked(row) /\ IsUnique(row) /\ HasOneTarget(row)
  /\ stored' = [i \in DOMAIN stored \union {id} |-> IF i = id THEN row ELSE stored[i]]

NextStamp(table) == WithinLimits(made, stamp + 1, {table}) /\ stamp' = stamp + 1

\* A row is stored in a transaction of its own.
Store(row) ==
  /\ NextStamp(row.table)
  /\ Insert(stamp + 1, row)
  /\ UNCHANGED vars

-----------------------------------------------------------------------------
(* Deletions                                                               *)

\* The rows that ON DELETE CASCADE removes with what is gone.
Cascaded(S, gone) ==
  {i \in DOMAIN stored : \E k \in Refs(i) :
     /\ Rule(i, k) = "CASCADE"
     /\ Target(i, k) \in gone \union {<<stored[j].table, j>> : j \in S}}

Doomed(gone) ==
  {i \in DOMAIN stored : \A S \in SUBSET DOMAIN stored : Cascaded(S, gone) \subseteq S => i \in S}

\* All that disappears.
Removed(gone) == gone \union {<<stored[i].table, i>> : i \in Doomed(gone)}

\* A reference with RESTRICT, or one without a rule in a row that stays, makes
\* the statement fail.
Refused(gone) ==
  \E i \in DOMAIN stored : \E k \in Refs(i) :
    /\ Target(i, k) \in Removed(gone)
    /\ Rule(i, k) = "RESTRICT" \/ (Rule(i, k) = "NO_ACTION" /\ i \notin Doomed(gone))

\* The references that ON DELETE SET NULL clears.
Cleared(i, gone) ==
  [k \in Refs(i) |-> IF Target(i, k) \in Removed(gone) THEN Null ELSE stored[i].refs[k]]

\* What the foreign keys make of a step that deletes accounts and wallets.
FollowDeletion(gone) ==
  /\ ~Refused(gone)
  /\ stored' = [i \in DOMAIN stored \ Doomed(gone) |->
                  [table |-> stored[i].table, refs |-> Cleared(i, gone)]]

\* The accounts and wallets a step deletes.
Gone ==
  ({"user_accounts"} \X (accounts \ accounts'))
    \union ({"user_wallets"} \X {a \in Wallets : owner'[a] = Nobody})

AccountStep ==
  /\ \E c \in Calls : CallStep(c)
  /\ WithinLimits(made', stamp, {})
  /\ FollowDeletion(Gone)
  /\ UNCHANGED <<schema, stamp>>

LedgerRows == {i \in DOMAIN stored : stored[i].table = "ledger_entries"}

\* Faulty variant: the trigger is not there.
ReplaceLedgerAnyway ==
  /\ ReplaceChain
  /\ WithinLimits(made', stamp, {})
  /\ stored' = [i \in DOMAIN stored \ LedgerRows |-> stored[i]]
  /\ UNCHANGED <<schema, stamp>>

\* replace_chain deletes the ledger's rows first, which the trigger of
\* schema.sql forbids if there are any.
ReplaceLedger ==
  /\ ReplaceChain
  /\ WithinLimits(made', stamp, {})
  /\ schema = "sql" => LedgerRows = {}
  /\ stored' = [i \in DOMAIN stored \ LedgerRows |-> stored[i]]
  /\ UNCHANGED <<schema, stamp>>

-----------------------------------------------------------------------------
\* What a row of a table may refer to.
Referable(table) ==
  LET refs == Schemas[schema][table].refs
  IN  {Null} \union {x[2] : x \in {y \in Live : \E k \in DOMAIN refs : refs[k].to = y[1]}}

\* The rows of a table, of which Store takes those whose references are right.
Candidates(table) ==
  {[table |-> table, refs |-> r] :
     r \in [DOMAIN Schemas[schema][table].refs -> Referable(table)]}

OthersStore ==
  \E table \in {t \in UNION Families : WithinLimits(made, stamp + 1, {t})} :
    \E row \in Candidates(table) : Store(row)

RecordsNext == AccountStep \/ ReplaceLedger \/ OthersStore

RecordsSpec == RecordsInit /\ [][RecordsNext]_recordsVars

-----------------------------------------------------------------------------
(* Properties                                                              *)

\* Whatever is deleted and whoever stores rows meanwhile, a row refers to what
\* is there (delete_user_account, lines 86-89).
NothingDangles ==
  \A i \in DOMAIN stored : \A k \in Refs(i) :
    Target(i, k) \in Live \/ (Table(i).refs[k].optional /\ stored[i].refs[k] = Null)

\* The records that outlive the accounts they name: what was done and is to be
\* minted, proposals and votes, who acted in the system.  Not among them, and
\* gone with an account in both declarations, are its rows of goodwill_ledger,
\* though schema.sql calls it the audit trail of the coins, and the reports of
\* content it made.
LastingTables ==
  {"goodwill_actions", "mint_intents", "mint_outbox", "proposals", "votes",
   "bounties", "tags", "audit_log", "controller_actions", "system_settings"}

\* A user who leaves takes none of these along (delete_user_account, lines
\* 86-89, where the ORM's relationships say otherwise of most), and the ledger
\* stays as it is where its trigger is deployed ("Ledger entries are immutable").
RecordsStand ==
  [][\A i \in DOMAIN stored :
       /\ stored[i].table \in LastingTables => i \in DOMAIN stored'
       /\ stored[i].table = "ledger_entries" /\ schema = "sql"
            => i \in DOMAIN stored' /\ stored'[i] = stored[i]]_recordsVars
=============================================================================
