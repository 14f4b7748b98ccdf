----------------------------- MODULE MCGoodwill -----------------------------
(***************************************************************************)
(* An instance of Goodwill, with Records and Accounts in it, for TLC, and  *)
(* what the validation and the routes answer over small inputs.            *)
(***************************************************************************)
EXTENDS Goodwill, Routes, TLC

CONSTANTS u1, u2, c1, c2, c3, a1, a2, a3

TwoUsers == {u1, u2}
ThreeCalls == {c1, c2, c3}
ThreeAddresses == {a1, a2, a3}
OneMoreOrLess == {-1, 1}
OneCoin == {-1, 1}

\* Tables that refer to each other.
RelatedTables ==
  {{"goodwill_actions", "ledger_entries", "goodwill_ledger"},
   {"goodwill_actions", "mint_intents", "mint_outbox"},
   {"goodwill_actions", "comments", "action_loves"},
   {"goodwill_actions", "tags", "goodwill_action_tags"},
   {"proposals", "votes", "council_members"},
   {"proposals", "comments"},
   {"proposals", "tags", "proposal_tags"},
   {"user_token_assets", "followers", "api_keys"},
   {"notifications", "audit_log", "content_reports"},
   {"proposals", "bounties"},
   {"controller_actions", "system_settings"}}

Limit(calls, number, families) == [calls |-> calls, rows |-> number, families |-> families]

\* Calls alone; few calls and rows of tables that refer to each other; and the
\* long history of a user, with a call that may end it.
CallsAndRows ==
  {Limit(4, 0, {{}}),
   Limit(2, 1, RelatedTables), Limit(1, 2, RelatedTables), Limit(0, 3, RelatedTables),
   Limit(1, 3, {{"goodwill_actions"}}), Limit(0, 5, {{"goodwill_actions"}})}

Symmetry == Permutations(TwoUsers) \union Permutations(ThreeCalls) \union Permutations(ThreeAddresses)
-----------------------------------------------------------------------------
(* Validation                                                              *)

Now == 1000

\* Every kind of body, for an action that needs a signature and one that does
\* not, with times at the edge of the skew.
SomeBodies ==
  [given : {NeededFields, ActionFields, ActionFields \union {"user_id"}, TransactionFields,
            NeededFields \union {"user_id", "signature", "public_key_pem"}},
   empty : {{}, {"description"}, {"signature"}}, mistyped : {{}, {"loves_value"}},
   user_id : {"u1", "u2"}, action_type : {"help", "treasury_spend"},
   loves_value : {0, 1, 100, 101},
   timestamp : {Now - 301, Now - 300, Now + 300}, naive : BOOLEAN,
   signed : {<<>>, <<"u1", "treasury_spend", Now - 300, 1>>,
             <<"u1", "treasury_spend", Now - 300, 1, "correlation_id">>,
             <<"u1", "treasury_spend", Now - 301, 1>>, <<"u1", "treasury_spend", Now, 1>>}]

\* A transaction passes with an amount in range, under its own user's name and
\* with a time that is not stale; one of high value only with what was signed
\* (validate_transaction).
ASSUME OnlySoundTransactionsPass ==
  \A d \in SomeBodies : \A authenticated, allowed \in {"u1", "u2"} :
    TransactionErrors(d, authenticated, {allowed}, Now) = {} =>
      LET timed == Timed(d, Now)
      IN  /\ d.loves_value \in 1 .. 100
          /\ d.user_id = authenticated /\ d.user_id = allowed
          /\ timed.timestamp \in Now - 300 .. Now + 300
          /\ d.action_type = "treasury_spend" => d.signed = SignedPayload(timed)

\* Each kind of transaction can pass.
ASSUME SoundTransactionsPass ==
  \A type \in {"help", "treasury_spend"} : \E d \in SomeBodies :
    d.action_type = type /\ TransactionErrors(d, "u1", {"u1"}, Now) = {}

\* The schema of the routes refuses the time that a signature has to cover: what
\* a client signs is right only for the very time the server fills in.
ASSUME RouteCannotCarryTime ==
  \A d \in SomeBodies :
    LET sent == [d EXCEPT !.given = @ \union {"user_id"}]
    IN  MeetsActionSchema(d) /\ d.action_type = "treasury_spend"
          /\ TransactionErrors(sent, d.user_id, {d.user_id}, Now) = {}
        => d.signed[3] = Now

SomeContributions ==
  [given : {ContributionFields, ContributionFields \ {"tags"}, ContributionFields \union {"extra"}},
   mistyped : {{}}, contributor : {"", "c"}, tags : {0, 1}, value : {0, 1, 1000, 1001},
   timestamp : {-1, 0, Now + 60, Now + 61}]

\* A batch is split in two, each item as by itself, however the clock moves.
ASSUME BatchIsSplit ==
  \A a, b \in SomeContributions :
    LET items == <<a, b>>
        nows == <<Now, Now + 1>>
        batch == ValidateBatch(items, nows)
    IN  /\ batch.valid_items \intersect batch.invalid_items = {}
        /\ batch.valid_items \union batch.invalid_items = DOMAIN items
        /\ \A i \in DOMAIN items : i \in batch.valid_items <=> MeetsContribution(items[i], nows[i])
        /\ batch.all_valid <=> batch.invalid_items = {}

-----------------------------------------------------------------------------
(* Routes                                                                  *)

SomeRequests ==
  [header : {"none", "bearer"}, uid : {"u1", "u2", NoUser}, typed : BOOLEAN, form : Forms,
   body : {d \in SomeBodies : d.user_id = "u1" /\ d.timestamp = Now - 300 /\ d.loves_value \in {0, 1}}]

\* Whoever submits what, no submission is accepted by a route, or stored by the
\* service.
ASSUME NoSubmissionIsStored ==
  /\ \A r \in SomeRequests : \A known, later \in {{}, {"u1"}} :
       /\ SubmitGoodwill(r, Now, known, later) \in {400, 401, 404}
       /\ SubmitMetabolic(r, known) \in {400, 401, 404, 415, 500}
  /\ \E d \in SomeBodies : SubmitToService(d, Now, {"u1"}) = "internal error"

\* A profile is shown to its user and nobody else, an action's status to the
\* user who did it.
ASSUME OnlyOwnIsShown ==
  \A r \in {q \in SomeRequests : q.form = "object" /\ q.typed} : \A known \in SUBSET {"u1", "u2"} :
    LET actionsOf == [u \in {"u1", "u2"} |-> IF u = "u1" THEN {1} ELSE {2}]
    IN  /\ \A id \in {"u1", "u2"} :
             GetUserById(r, id, known) = 200 <=> VerifyToken(r) = id /\ id \in known
        /\ \A id \in {1, 2} :
             ActionStatus(r, id, TRUE, known, actionsOf) = 200
               <=> VerifyToken(r) \in known /\ id \in actionsOf[VerifyToken(r)]

\* No key opens the summary or the history, and nobody can sign in as long as
\* no password is set.
ASSUME NoKeyOpens ==
  \A key \in [name : {"", "k"}, known : BOOLEAN, expires : {0, Now - 1, Now + 1}] :
    \A a \in [user_id : {"none", "uuid"}, page : {0, 1}, per_page : {1}] :
      GoodwillSummary(key, a, Now) >= 400 /\ GoodwillHistory(key, a, Now) >= 400

SomeForms ==
  [header : {"none", "bearer"}, uid : {"u1", NoUser}, typed : BOOLEAN, form : Forms,
   body : {[d EXCEPT !.given = given] :
             d \in {CHOOSE d \in SomeBodies : d.empty = {} /\ d.mistyped = {}},
             given \in SUBSET {"email", "username", "password", "token", "new_password", "recaptcha_token"}}]

\* Nobody registers, signs in, gets a key or resets a password.
ASSUME NobodyRegisters ==
  \A r \in SomeForms :
    /\ \A taken \in BOOLEAN : Signup(r, taken) \in {400, 409, 415, 500}
    /\ Signin(r, "u1", {}, TRUE) \in {400, 401, 415, 500}
    /\ {CreateUserAndWallet(r), CreateApiKey(r), PasswordResetRequest(r), PasswordResetConfirm(r),
        GetUserProfile(r)} \subseteq {400, 401, 415, 500}
=============================================================================
