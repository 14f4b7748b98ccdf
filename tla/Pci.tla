-------------------------------- MODULE Pci --------------------------------
(***************************************************************************)
(* The filter of banking_plugin/pci.py: which data it takes for card data, *)
(* and what it strips or masks.                                            *)
(*                                                                         *)
(* JSON data is the set of its leaves: texts, other values, and containers *)
(* with nothing in them.  A leaf has its path of keys, in lower case, with *)
(* "item" for the place in a list, and what the patterns see of its text.  *)
(***************************************************************************)
EXTENDS Integers, Sequences

CARD == {"card_number", "pan"}
CODE == {"cvv", "cvc"}
SSN == {"ssn", "social_security_number"}
SENSITIVE_KEYS ==
  CARD \union CODE \union SSN
    \union {"pin", "password", "secret", "account_secret", "private_key"}

\* star: where the text has an asterisk.  pan, ssn: whether the patterns are
\* found in it.
Leaves ==
  [path : Seq(STRING), kind : {"text", "value", "container"}, empty : BOOLEAN,
   digits : Nat, pan : BOOLEAN, ssn : BOOLEAN, star : {"none", "first", "inside"}]

LastOf(path) == IF path = <<>> THEN "nothing" ELSE path[Len(path)]

-----------------------------------------------------------------------------
(* validate_pci_compliance                                                 *)

IsRawNumber(leaf) ==
  /\ leaf.kind = "text"
  /\ LastOf(leaf.path) \in CARD \union CODE
  /\ leaf.digits >= 13 /\ leaf.star # "first"

\* A container counts as soon as anything is in it.
HoldsCode(leaf) ==
  \E i \in DOMAIN leaf.path :
    leaf.path[i] \in CODE /\ (i = Len(leaf.path) => ~leaf.empty)

\* An asterisk anywhere excuses the whole text.
LooksLikePan(leaf) == leaf.kind = "text" /\ leaf.pan /\ leaf.star = "none"

Compliant(data) ==
  \A leaf \in data : ~IsRawNumber(leaf) /\ ~HoldsCode(leaf) /\ ~LooksLikePan(leaf)

-----------------------------------------------------------------------------
(* zero_log_dict, sanitize_dict                                            *)

\* The keys that both look at: they descend into dictionaries, and into those
\* of a list, but not into the lists of a list.
Examined(path) ==
  {i \in DOMAIN path :
     /\ path[1] # "item" /\ path[i] # "item"
     /\ \A j \in 1 .. i - 1 : path[j] = "item" => path[j + 1] # "item"}

Caught(path) == {i \in Examined(path) : path[i] \in SENSITIVE_KEYS}
FirstCaught(path) == CHOOSE i \in Caught(path) : \A j \in Caught(path) : i <= j

EmptyAt(path) ==
  [path |-> path, kind |-> "container", empty |-> TRUE,
   digits |-> 0, pan |-> FALSE, ssn |-> FALSE, star |-> "none"]

IsWithin(path, place) == Len(place) < Len(path) /\ SubSeq(path, 1, Len(place)) = place

\* A dictionary all of whose keys go stays, empty.
ZeroLogged(data) ==
  LET kept == {leaf \in data : Caught(leaf.path) = {}}
      places == {SubSeq(leaf.path, 1, FirstCaught(leaf.path) - 1) : leaf \in data \ kept}
  IN  kept \union
        {EmptyAt(place) : place \in {q \in places : ~\E leaf \in kept : IsWithin(leaf.path, q)}}

\* What mask_pan and mask_ssn return: asterisks and four digits at most.
Masked(path) ==
  [path |-> path, kind |-> "text", empty |-> FALSE,
   digits |-> 4, pan |-> FALSE, ssn |-> FALSE, star |-> "first"]

Redacted(path) == [Masked(path) EXCEPT !.digits = 0, !.star = "none"]

\* The text of a key is masked, one of a list is not.  The second substitution
\* starts from the text as it was: what the first one masked is back.
MaskedInside(leaf) ==
  CASE leaf.ssn -> [leaf EXCEPT !.ssn = FALSE, !.star = IF @ = "first" THEN @ ELSE "inside"]
    [] leaf.pan /\ ~leaf.ssn -> [leaf EXCEPT !.pan = FALSE, !.star = IF @ = "first" THEN @ ELSE "inside"]
    [] OTHER -> leaf

SanitizedLeaf(leaf) ==
  LET path == leaf.path
      upto == SubSeq(path, 1, FirstCaught(path))
  IN  CASE Caught(path) # {} /\ path[FirstCaught(path)] \in CARD \union SSN -> Masked(upto)
        [] Caught(path) # {} /\ path[FirstCaught(path)] \notin CARD \union SSN -> Redacted(upto)
        [] Caught(path) = {} /\ leaf.kind = "text" /\ Len(path) \in Examined(path) -> MaskedInside(leaf)
        [] OTHER -> leaf

Sanitized(data) == {SanitizedLeaf(leaf) : leaf \in data}
=============================================================================
