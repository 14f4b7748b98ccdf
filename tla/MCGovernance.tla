---------------------------- MODULE MCGovernance ----------------------------
(* Instances of Governance for TLC.                                        *)
EXTENDS Governance, TLC

CONSTANTS c1, c2, p1, u1, u2

TwoCallers == {c1, c2}
OneProposal == {p1}
TwoVoters == {u1, u2}

\* u1 can afford a vote of power 1 or 2, u2 one of power 1.
Balances == (u1 :> 4) @@ (u2 :> 3)
Roots == (1 :> 1) @@ (4 :> 2)

NoneOrTwo == {0, 2}
ZeroOrOne == {0, 1}
BothVocabularies == {"schema", "service"}

\* Callers are interchangeable.
Symmetry == Permutations({c1, c2})
=============================================================================
