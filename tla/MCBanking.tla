----------------------------- MODULE MCBanking -----------------------------
(* Instances of Banking for TLC.                                           *)
EXTENDS Banking, TLC

CONSTANTS p1, p2, n1, k1, k2

TwoThreads == {p1, p2}
OneNonce == {n1}
TwoTokens == {k1, k2}

Plain ==
  [route |-> "other", signature |-> "none", timestamp |-> 0, nonce |-> n1, signs |-> {},
   body |-> {}, actor |-> "text", token |-> k1, grant |-> k1, role |-> "none"]

Signed(route, place, bodies, time) ==
  [Plain EXCEPT !.route = route, !.signature = place, !.signs = bodies, !.timestamp = time]

Granting(token, grant, role) ==
  [Plain EXCEPT !.route = "roles", !.token = token, !.grant = grant, !.role = role]

Leaf(path, kind, digits, pan, ssn, star) ==
  [path |-> path, kind |-> kind, empty |-> FALSE,
   digits |-> digits, pan |-> pan, ssn |-> ssn, star |-> star]

\* A card number in a text of a list that also holds a masked one.
CardInList ==
  {Leaf(<<"note", "item">>, "text", 16, TRUE, FALSE, "none"),
   Leaf(<<"note", "item">>, "text", 4, FALSE, FALSE, "first")}

\* Copies of one signed message: one that only the route checks and that names
\* its actor by a number, and one that the gate checks first.
Signing ==
  {[Signed("verify-signature", "body", {"route"}, 1) EXCEPT !.actor = "value"],
   Signed("verify-signature", "headers", {"gate", "route"}, 1)}

\* Copies of a message dated ahead of the first clock ...
Postdated == {Signed("other", "headers", {"gate"}, 1)}

\* ... and with them a message of the same nonce dated earlier.
Redated == Postdated \union {Signed("other", "headers", {"gate"}, 0)}

\* An admin's and a teller's requests for sessions.
Granted == {Granting(k1, k2, "admin"), Granting(k2, k1, "admin"), Granting(k1, k2, "teller")}

\* What is blocked, assessed or proved: the audit log's work.
Audited ==
  {[Plain EXCEPT !.body = CardInList], [Plain EXCEPT !.route = "fraud-score"],
   [Plain EXCEPT !.route = "audit-proof"]}

Work == {Signing, Redated, Granted, Audited}
Replay == {Postdated}

AdminAndTeller ==
  k1 :> [role |-> "admin", expires |-> 1, revoked |-> FALSE]
    @@ k2 :> [role |-> "teller", expires |-> 2, revoked |-> FALSE]

-----------------------------------------------------------------------------
(* The filter, over small data.                                            *)

Keys == {"pan", "cvv", "pin", "note", "item"}
Paths == {<<k>> : k \in Keys} \union (Keys \X Keys) \union (Keys \X Keys \X Keys)
Texts ==
  {[digits |-> 3, pan |-> FALSE, ssn |-> FALSE, star |-> "none"],
   [digits |-> 16, pan |-> TRUE, ssn |-> FALSE, star |-> "none"],
   [digits |-> 25, pan |-> TRUE, ssn |-> TRUE, star |-> "none"],
   [digits |-> 16, pan |-> TRUE, ssn |-> FALSE, star |-> "inside"]}
SomeLeaves ==
  {Leaf(path, "text", t.digits, t.pan, t.ssn, t.star) : path \in Paths, t \in Texts}
    \union {Leaf(path, "value", 0, FALSE, FALSE, "none") : path \in Paths}
    \union {EmptyAt(path) : path \in Paths}

\* validate_pci_compliance as it descends: what is under a key is judged with
\* the key first, then by itself.
RECURSIVE Descends(_, _)
Descends(leaf, depth) ==
  IF depth = Len(leaf.path)
  THEN leaf.kind = "text" => ~(leaf.pan /\ leaf.star = "none")
  ELSE LET key == leaf.path[depth + 1]
           isScalar == depth + 1 = Len(leaf.path)
       IN  /\ ~(/\ key \in CARD \union CODE /\ isScalar /\ leaf.kind = "text"
                /\ leaf.star # "first" /\ leaf.digits >= 13)
           /\ ~(key \in CODE /\ ~(isScalar /\ leaf.empty))
           /\ Descends(leaf, depth + 1)

\* The descent of the code and the filter agree.
ASSUME FilterDescends ==
  \A leaf \in SomeLeaves : Compliant({leaf}) <=> Descends(leaf, 0)

\* What is logged holds no sensitive key that the code can see, and logging it
\* once more strips nothing else (zero_log_dict).
ASSUME ZeroLogIsComplete ==
  \A a \in SomeLeaves, b \in {leaf \in SomeLeaves : leaf.kind = "value" /\ Len(leaf.path) < 3} :
    /\ \A leaf \in ZeroLogged({a, b}) : Caught(leaf.path) = {}
    /\ ZeroLogged(ZeroLogged({a, b})) = ZeroLogged({a, b})

\* What the filter still takes for a card number after the sanitation is a text
\* of a list, or under a list of a list, where sanitize_dict does not look.
ASSUME SanitationHasGaps ==
  \A leaf \in SomeLeaves :
    LET masked == SanitizedLeaf(leaf)
    IN  LooksLikePan(masked) =>
          /\ Caught(leaf.path) = {}
          /\ Len(leaf.path) \notin Examined(leaf.path)

\* A text with a card number and a social security number keeps the former.
ASSUME MaskedTextKeepsPan ==
  \E leaf \in SomeLeaves :
    leaf.ssn /\ leaf.path = <<"note">> /\ SanitizedLeaf(leaf).pan

\* Threads are interchangeable.
Symmetry == Permutations({p1, p2})
=============================================================================
