------------------------------- MODULE Routes -------------------------------
(***************************************************************************)
(* What the routes of accounts and goodwill actions answer: utils/auth.py, *)
(* routes/goodwill_routes.py, routes/metabolic_routes.py,                  *)
(* routes/api_routes.py and routes/auth_routes.py, over the accounts there *)
(* are when each is read.  A failing database makes a 500 of any answer    *)
(* that needs it.                                                          *)
(*                                                                         *)
(* The deletion of an account, which changes tables, is in Accounts.  None *)
(* of these routes stores anything.                                        *)
(***************************************************************************)
EXTENDS Validation

NoUser == "nobody"

\* header: the scheme of Authorization.  uid: the user Firebase names for the
\* token, NoUser if it refuses the token; a deleted user's is not refused
\* before it expires.  typed: the content type is JSON.
Requests ==
  [header : {"none", "other", "bearer"}, uid : STRING, typed : BOOLEAN, form : Forms,
   body : Bodies]

\* require_firebase_token
VerifyToken(r) == IF r.header = "bearer" THEN r.uid ELSE NoUser

\* require_api_key: a key that is good is answered 500, since ApiKey has no
\* "user".
RequireApiKey(key, now) ==
  CASE key.name = "" -> 401
    [] key.name # "" /\ ~key.known -> 403
    [] key.name # "" /\ key.known /\ key.expires # 0 /\ key.expires < now -> 403
    [] OTHER -> 500

Keys == [name : STRING, known : BOOLEAN, expires : Nat]

-----------------------------------------------------------------------------
(* Submissions                                                             *)

\* submit_and_queue_goodwill_action of the service: the user of the data is
\* the one it authenticates and the only one it allows.  The row cannot be
\* made, since GoodwillAction has no correlation_id.
SubmitToService(d, now, known) ==
  CASE TransactionErrors(d, d.user_id, {d.user_id}, now) # {} -> "validation failed"
    [] TransactionErrors(d, d.user_id, {d.user_id}, now) = {} /\ d.user_id \notin known -> "no account"
    [] OTHER -> "internal error"

\* model_dump names every field of the schema, and user_id is the UUID of the
\* row, where the transaction's model takes a text.
Completed(d, user) ==
  [d EXCEPT !.given = ActionFields \union {"user_id"},
            !.empty = @ \union (ActionFields \ d.given),
            !.mistyped = (@ \intersect d.given) \union {"user_id"},
            !.user_id = user]

\* The route reads the account before the service does.
SubmitGoodwill(r, now, known, knownLater) ==
  LET uid == VerifyToken(r)
      refused == ValidateWith(r.form, MeetsActionSchema(r.body))
      result == SubmitToService(Completed(r.body, uid), now, knownLater)
  IN  CASE uid = NoUser -> 401
        [] uid # NoUser /\ refused # 0 -> refused
        [] uid # NoUser /\ refused = 0 /\ uid \notin known -> 404
        [] uid # NoUser /\ refused = 0 /\ uid \in known ->
             IF result \in {"validation failed", "no account", "internal error"} THEN 400 ELSE 202

\* /metabolic/submit_goodwill: the schema has no performer_user_id to be set.
SubmitMetabolic(r, known) ==
  LET uid == VerifyToken(r)
      parsed == r.form = "object"
      meets == MeetsActionSchema(r.body)
  IN  CASE uid = NoUser -> 401
        [] uid # NoUser /\ ~r.typed -> 415
        [] uid # NoUser /\ r.typed /\ ~parsed -> 500
        [] uid # NoUser /\ r.typed /\ parsed /\ ~meets -> 400
        [] uid # NoUser /\ r.typed /\ parsed /\ meets /\ uid \notin known -> 404
        [] OTHER -> 500

-----------------------------------------------------------------------------
(* Readers                                                                 *)

\* get_action_status, for the ids of the actions of each user; an id that is
\* no UUID makes the query raise.
ActionStatus(r, id, isUuid, known, actionsOf) ==
  LET uid == VerifyToken(r)
  IN  CASE uid = NoUser -> 401
        [] uid # NoUser /\ uid \notin known -> 404
        [] uid \in known /\ ~isUuid -> 500
        [] OTHER -> IF id \in actionsOf[uid] THEN 200 ELSE 404

\* A page that is no number counts as the default.
Arguments == [user_id : {"none", "text", "uuid"}, page : Int, per_page : Int]

GoodwillSummary(key, a, now) ==
  LET refused == RequireApiKey(key, now)
  IN  IF refused # 0 THEN refused ELSE IF a.user_id # "uuid" THEN 400 ELSE 200

GoodwillHistory(key, a, now) ==
  LET refused == RequireApiKey(key, now)
  IN  IF refused # 0 THEN refused
      ELSE IF a.user_id # "uuid" \/ a.page < 1 \/ a.per_page < 1 THEN 400 ELSE 200

\* GET /users/<id>: only one's own.
GetUserById(r, id, known) ==
  LET uid == VerifyToken(r)
  IN  CASE uid = NoUser -> 401
        [] uid # NoUser /\ uid \notin known -> 404
        [] uid \in known /\ uid # id -> 403
        [] OTHER -> 200

\* GET /profile: what the token check sets has no to_dict.
GetUserProfile(r) == IF VerifyToken(r) = NoUser THEN 401 ELSE 500

-----------------------------------------------------------------------------
(* Registration and passwords                                              *)

\* create_user_and_wallet: verify_recaptcha takes no "action".
CreateUserAndWallet(r) ==
  CASE VerifyToken(r) = NoUser -> 401
    [] VerifyToken(r) # NoUser /\ r.typed /\ r.form = "null" -> 400
    [] VerifyToken(r) # NoUser /\ r.typed /\ r.form = "object"
         /\ ("recaptcha_token" \notin r.body.given \/ "recaptcha_token" \in r.body.empty) -> 400
    [] OTHER -> 500

\* The answer that request.get_json() and a body that lacks some fields lead
\* to, or 0.  Where a body may be absent, null counts as {}.
MissesFields(r, fields) ==
  CASE ~r.typed -> 415
    [] r.typed /\ r.form \in {"malformed", "null"} -> 400
    [] r.typed /\ r.form = "other" -> 500
    [] r.typed /\ r.form = "object" ->
         IF \A field \in fields : Given(r.body, field) THEN 0 ELSE 400

\* The new row has no firebase_uid, which may not be null.
Signup(r, isTaken) ==
  LET refused == MissesFields(r, {"email", "username", "password"})
      isText == {"email", "username"} \intersect r.body.mistyped = {}
  IN  IF refused # 0 THEN refused ELSE IF isText /\ isTaken THEN 409 ELSE 500

\* hashed: the users with a password; nothing that runs sets one.
Signin(r, user, hashed, isRight) ==
  LET refused == MissesFields(r, {"email", "password"})
  IN  IF refused # 0 THEN refused
      ELSE IF "email" \in r.body.mistyped THEN 500
      ELSE IF user \in hashed /\ isRight THEN 200 ELSE 401

\* What the token check sets has no id.
CreateApiKey(r) == IF VerifyToken(r) = NoUser THEN 401 ELSE 500

\* request_password_reset is not imported, nor is confirm_password_reset.
PasswordResetRequest(r) ==
  LET refused == MissesFields(r, {"email"}) IN IF refused # 0 THEN refused ELSE 500

PasswordResetConfirm(r) ==
  LET refused == MissesFields(r, {"token", "new_password"}) IN IF refused # 0 THEN refused ELSE 500
=============================================================================
