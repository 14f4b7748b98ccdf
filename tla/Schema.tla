------------------------------- MODULE Schema -------------------------------
(***************************************************************************)
(* The tables whose rows refer to accounts, to wallets or to each other:   *)
(* for each its foreign keys, what the deletion of the row a key names     *)
(* does to the row that has it, and its unique keys.  Columns that refer   *)
(* to nothing are left out.  models/*.py and models/schema.sql declare     *)
(* them, three of them with other keys.                                    *)
(***************************************************************************)

\* A foreign key: the table it names, ON DELETE, and whether it may be NULL.
Required(table, rule) == [to |-> table, onDelete |-> rule, optional |-> FALSE]
Optional(table, rule) == [to |-> table, onDelete |-> rule, optional |-> TRUE]

-----------------------------------------------------------------------------
(* Accounts and what they own                                              *)

UserTokenAsset ==
  [keys |-> {},
   refs |-> [user_id        |-> Required("user_accounts", "CASCADE"),
             user_wallet_id |-> Required("user_wallets", "CASCADE")]]

ApiKey ==
  [keys |-> {}, refs |-> [user_id |-> Required("user_accounts", "CASCADE")]]

Notification ==
  [keys |-> {}, refs |-> [recipient_user_id |-> Required("user_accounts", "CASCADE")]]

-----------------------------------------------------------------------------
(* Goodwill, the ledger, minting                                           *)

\* Faulty variant: the actions go with the account, as the ORM's cascade says.
GoodwillActionOwned ==
  [keys |-> {}, refs |-> [performer_user_id |-> Optional("user_accounts", "CASCADE")]]

GoodwillAction ==
  [keys |-> {}, refs |-> [performer_user_id |-> Optional("user_accounts", "SET_NULL")]]

LedgerEntry ==
  [keys |-> {{"goodwill_action_id"}},
   refs |-> [goodwill_action_id |-> Optional("goodwill_actions", "SET_NULL"),
             initiator_user_id  |-> Optional("user_accounts", "NO_ACTION"),
             receiver_user_id   |-> Optional("user_accounts", "NO_ACTION")]]

GoodwillLedger ==
  [keys |-> {},
   refs |-> [user_id                    |-> Required("user_accounts", "CASCADE"),
             related_goodwill_action_id |-> Optional("goodwill_actions", "SET_NULL")]]

MintIntent ==
  [keys |-> {{"goodwill_action_id"}},
   refs |-> [goodwill_action_id |-> Required("goodwill_actions", "RESTRICT")]]

MintOutbox ==
  [keys |-> {{"mint_intent_id"}},
   refs |-> [mint_intent_id |-> Required("mint_intents", "CASCADE")]]

-----------------------------------------------------------------------------
(* Governance                                                              *)

Proposal ==
  [keys |-> {}, refs |-> [proposer_user_id |-> Optional("user_accounts", "SET_NULL")]]

\* The models say nothing of a voter who is deleted.
Vote(source) ==
  [keys |-> {{"voter_user_id", "proposal_id"}},
   refs |-> [voter_user_id |-> Optional("user_accounts",
                                        IF source = "sql" THEN "SET_NULL" ELSE "NO_ACTION"),
             proposal_id   |-> Required("proposals", "CASCADE")]]

CouncilMember ==
  [keys |-> {{"user_id"}}, refs |-> [user_id |-> Required("user_accounts", "CASCADE")]]

\* Only schema.sql has a bounty's proposal.
Bounty(source) ==
  [keys |-> {},
   refs |-> IF source = "sql"
            THEN [created_by_user_id  |-> Optional("user_accounts", "SET_NULL"),
                  related_proposal_id |-> Optional("proposals", "SET_NULL")]
            ELSE [created_by_user_id  |-> Optional("user_accounts", "SET_NULL")]]

-----------------------------------------------------------------------------
(* What users say to each other                                            *)

Follower ==
  [keys |-> {{"follower_user_id", "followed_user_id"}},
   refs |-> [follower_user_id |-> Required("user_accounts", "CASCADE"),
             followed_user_id |-> Required("user_accounts", "CASCADE")]]

ActionLove ==
  [keys |-> {{"user_id", "goodwill_action_id"}},
   refs |-> [user_id            |-> Required("user_accounts", "CASCADE"),
             goodwill_action_id |-> Required("goodwill_actions", "CASCADE")]]

Comment ==
  [keys |-> {},
   refs |-> [author_user_id     |-> Optional("user_accounts", "SET_NULL"),
             proposal_id        |-> Optional("proposals", "CASCADE"),
             goodwill_action_id |-> Optional("goodwill_actions", "CASCADE"),
             parent_comment_id  |-> Optional("comments", "CASCADE")]]

GoodwillActionTag ==
  [keys |-> {{"goodwill_action_id", "tag_id"}},
   refs |-> [goodwill_action_id |-> Required("goodwill_actions", "CASCADE"),
             tag_id             |-> Required("tags", "CASCADE")]]

ProposalTag ==
  [keys |-> {{"proposal_id", "tag_id"}},
   refs |-> [proposal_id |-> Required("proposals", "CASCADE"),
             tag_id      |-> Required("tags", "CASCADE")]]

\* A name of its own is all a tag has.
Tag == [keys |-> {}, refs |-> [c \in {} |-> Optional("tags", "NO_ACTION")]]

-----------------------------------------------------------------------------
(* Records about the system                                                *)

AuditEntry ==
  [keys |-> {}, refs |-> [actor_user_id |-> Optional("user_accounts", "SET_NULL")]]

ContentReport ==
  [keys |-> {},
   refs |-> [reporter_user_id |-> Required("user_accounts", "CASCADE"),
             reviewer_user_id |-> Optional("user_accounts", "SET_NULL")]]

ControllerAction ==
  [keys |-> {}, refs |-> [user_id |-> Optional("user_accounts", "SET_NULL")]]

\* Only schema.sql has who changed a setting.
SystemSetting(source) ==
  [keys |-> {},
   refs |-> [k \in IF source = "sql" THEN {"last_updated_by_user_id"} ELSE {} |->
               Optional("user_accounts", "SET_NULL")]]

-----------------------------------------------------------------------------
\* Every table by its name.
Declared(source) ==
  [user_token_assets    |-> UserTokenAsset,
   api_keys             |-> ApiKey,
   notifications        |-> Notification,
   goodwill_actions     |-> GoodwillAction,
   ledger_entries       |-> LedgerEntry,
   goodwill_ledger      |-> GoodwillLedger,
   mint_intents         |-> MintIntent,
   mint_outbox          |-> MintOutbox,
   proposals            |-> Proposal,
   votes                |-> Vote(source),
   council_members      |-> CouncilMember,
   bounties             |-> Bounty(source),
   followers            |-> Follower,
   action_loves         |-> ActionLove,
   comments             |-> Comment,
   goodwill_action_tags |-> GoodwillActionTag,
   proposal_tags        |-> ProposalTag,
   tags                 |-> Tag,
   audit_log            |-> AuditEntry,
   content_reports      |-> ContentReport,
   controller_actions   |-> ControllerAction,
   system_settings      |-> SystemSetting(source)]

Schemas == [models |-> Declared("models"), sql |-> Declared("sql")]

Tables == DOMAIN Declared("models")
=============================================================================
