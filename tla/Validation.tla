----------------------------- MODULE Validation -----------------------------
(***************************************************************************)
(* What a submission of a goodwill action has to be:                       *)
(* validate/schemas.py, validate/validate_transaction.py and               *)
(* utils/validation/validation.py.                                         *)
(*                                                                         *)
(* A body is known by the fields it gives, which of them are empty or of   *)
(* the wrong type, and the values on which something depends.              *)
(***************************************************************************)
EXTENDS Integers, Sequences, FiniteSets

ActionFields ==
  {"action_type", "description", "loves_value", "contextual_data",
   "correlation_id", "signature", "public_key_pem"}

TransactionFields == ActionFields \union {"user_id", "timestamp"}
NeededFields == {"action_type", "description", "loves_value"}

\* signed: what the signature has been made for.  time is in seconds; a naive
\* one names no time zone.
Bodies ==
  [given : SUBSET STRING, empty : SUBSET STRING, mistyped : SUBSET STRING,
   user_id : STRING, action_type : STRING, loves_value : Int,
   timestamp : Int, naive : BOOLEAN, signed : Seq(STRING \union Int)]

Loves == 1 .. 100

\* GoodwillActionSchema forbids other fields: among them user_id and timestamp.
MeetsActionSchema(d) ==
  /\ NeededFields \subseteq d.given
  /\ d.given \subseteq ActionFields
  /\ d.mistyped \intersect d.given = {}
  /\ {"action_type", "description"} \intersect d.empty = {}
  /\ d.loves_value \in Loves

\* TransactionModel ignores other fields and takes empty texts.
MeetsTransactionModel(d) ==
  /\ NeededFields \union {"user_id"} \subseteq d.given
  /\ d.mistyped \intersect d.given \intersect TransactionFields = {}
  /\ d.loves_value \in Loves

-----------------------------------------------------------------------------
(* validate_transaction                                                    *)

MAX_TIMESTAMP_SKEW_SECONDS == 300

Given(d, field) == field \in d.given \ d.empty

\* The time is filled in where the body names none.
Timed(d, now) ==
  IF "timestamp" \in d.given THEN d ELSE [d EXCEPT !.timestamp = now, !.naive = FALSE]

IsSignatureRequired(type) == type \in {"treasury_spend", "protocol_change"}

IsTimestampValid(d, now) ==
  /\ now - d.timestamp <= MAX_TIMESTAMP_SKEW_SECONDS
  /\ d.timestamp - now <= MAX_TIMESTAMP_SKEW_SECONDS

\* The description and the context are as signed if the rest is.
SignedPayload(d) ==
  <<d.user_id, d.action_type, d.timestamp, d.loves_value>>
    \o (IF Given(d, "correlation_id") THEN <<"correlation_id">> ELSE <<>>)

\* A key of another kind, or a signature that is no base64, verifies nothing.
VerifySignature(d) == d.signed = SignedPayload(d)

SignatureErrors(d) ==
  IF ~IsSignatureRequired(d.action_type) THEN {}
  ELSE IF ~Given(d, "signature") \/ ~Given(d, "public_key_pem") THEN {"signature missing"}
  ELSE IF VerifySignature(d) THEN {} ELSE {"signature invalid"}

\* Every check is made, and all that fail are named.
CheckErrors(d, authenticated, allowed, now) ==
  (IF d.user_id # authenticated THEN {"not the authenticated user"} ELSE {})
    \union (IF d.user_id \notin allowed THEN {"not allowed"} ELSE {})
    \union (IF IsTimestampValid(d, now) THEN {} ELSE {"timestamp"})
    \union SignatureErrors(d)

\* A naive time cannot be subtracted from the clock's: the comparison raises.
TransactionErrors(d, authenticated, allowed, now) ==
  LET timed == Timed(d, now)
  IN  CASE ~MeetsTransactionModel(d) -> {"schema"}
        [] MeetsTransactionModel(d) /\ timed.naive -> {"internal_error"}
        [] OTHER -> CheckErrors(timed, authenticated, allowed, now)

-----------------------------------------------------------------------------
(* validation.py: contributions, which no route takes                      *)

MAX_FUTURE_DRIFT_SECONDS == 60

Contributions ==
  [given : SUBSET STRING, mistyped : SUBSET STRING, contributor : STRING,
   tags : Nat, value : Int, timestamp : Int]

ContributionFields == {"contributor", "tags", "value", "timestamp"}

MeetsContribution(d, now) ==
  /\ d.given = ContributionFields
  /\ d.mistyped = {}
  /\ d.contributor # "" /\ d.tags >= 1
  /\ d.value > 0 /\ d.value <= 1000
  /\ d.timestamp >= 0 /\ d.timestamp <= now + MAX_FUTURE_DRIFT_SECONDS

ValidateContribution(d, now) == [is_valid |-> MeetsContribution(d, now), data |-> d]

\* The clock is read for each item: nows are the times it returns.
ValidateBatch(items, nows) ==
  LET result(i) == ValidateContribution(items[i], nows[i])
      valid == {i \in DOMAIN items : result(i).is_valid}
  IN  [all_valid |-> valid = DOMAIN items, valid_items |-> valid,
       invalid_items |-> DOMAIN items \ valid]

\* What a request's body is once it is parsed.
Forms == {"malformed", "null", "other", "object"}

\* validate_with: the status of the answer that the decorator gives itself, or
\* 0 if it calls the route.
ValidateWith(form, meets) == IF form = "object" /\ meets THEN 0 ELSE 400
=============================================================================
