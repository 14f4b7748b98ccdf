CONSTANTS
  c1 = c1
  c2 = c2
  p1 = p1
  u1 = u1
  u2 = u2
  Callers <- TwoCallers
  Proposals <- OneProposal
  Voters <- TwoVoters
  Balance <- Balances
  Root <- Roots
  Quorums <- NoneOrTwo
  Durations <- ZeroOrOne
  DEFAULT_DURATION = 2
  Vocabularies <- BothVocabularies
  MaxTime = 2
SPECIFICATION Spec
SYMMETRY Symmetry
CHECK_DEADLOCK FALSE
INVARIANTS
  OneVotePerVoter
  QuorumIsMet
  PassedHasLed
PROPERTIES
  DecidedIsFinal
