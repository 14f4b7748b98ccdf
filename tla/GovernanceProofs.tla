-------------------------- MODULE GovernanceProofs --------------------------
(***************************************************************************)
(* Proofs about Governance, for any number of callers, proposals, voters   *)
(* and any weights.                                                        *)
(***************************************************************************)
EXTENDS Governance, SumsProofs

(* The inductive strengthening.                                            *)

\* A call under way has a proposal, and the end of its voting is known to
\* whoever will leave it as it is.
EndIsKnown ==
  \A c \in Callers :
    /\ pc[c] # "idle" => status[target[c]] # "absent"
    /\ pc[c] = "open" /\ until[c] = NoEnd => vote_end[target[c]] \in Nat
    /\ pc[c] \in Administrative \ {"open"} => vote_end[target[c]] \in Nat

\* The sums an evaluation has read never exceed what is committed by now, and
\* when it has read NO after YES, a lead among them was a lead at that moment.
LowerBounds(c) ==
  /\ pc[c] \in {"count2", "count3", "decide"} =>
       tally[c]["YES"] <= PowerFor(target[c], "YES")
  /\ pc[c] \in {"count3", "decide"} =>
       /\ tally[c]["NO"] <= PowerFor(target[c], "NO")
       /\ tally[c]["YES"] > tally[c]["NO"] => target[c] \in led
  /\ pc[c] = "decide" => tally[c]["ABSTAIN"] <= PowerFor(target[c], "ABSTAIN")

TalliesAreLowerBounds == \A c \in Callers : LowerBounds(c)

\* The history variable misses no lead.
LeadsAreSeen ==
  \A p \in Proposals : PowerFor(p, "YES") > PowerFor(p, "NO") => p \in led

\* Two administrative calls under way on a proposal have overlapped.
OverlapIsSeen ==
  \A c, d \in Callers :
    c # d /\ pc[c] \in Administrative /\ pc[d] \in Administrative /\ target[c] = target[d]
      => target[c] \in overlapped

\* Without an overlap, the status a call has read is still the status.
StatusIsCurrent ==
  \A c \in Callers :
    target[c] \notin overlapped =>
      /\ pc[c] = "open" => status[target[c]] = "DRAFT"
      /\ pc[c] \in Administrative \ {"open"} => status[target[c]] = "VOTING"

IInv ==
  /\ TypeOK
  /\ EndIsKnown
  /\ OneVotePerVoter
  /\ TalliesAreLowerBounds
  /\ LeadsAreSeen
  /\ QuorumIsMet
  /\ PassedHasLed
  /\ OverlapIsSeen
  /\ StatusIsCurrent

-----------------------------------------------------------------------------
(* Sums of powers.                                                         *)

\* The power of a finite set of votes is a natural number, and no smaller than
\* that of a part of it.
LEMMA PowerGrows ==
  ASSUME NEW T \in SUBSET Vote, IsFiniteSet(T), NEW S \in SUBSET T
  PROVE  Power(S) \in Nat /\ Power(T) \in Nat /\ Power(S) <= Power(T)
  <1>1. \A v \in Vote : actual_vote_power[v] \in Nat
    BY GovernanceAssumption DEF actual_vote_power, Vote, Weights
  <1>2. IsFiniteSet(S)
    BY FS_Subset
  <1>3. \A v \in T : actual_vote_power[v] \in Nat /\ actual_vote_power[v] <= actual_vote_power[v]
    BY <1>1
  <1>4. \A v \in S : actual_vote_power[v] \in Nat /\ actual_vote_power[v] <= actual_vote_power[v]
    BY <1>3
  <1>5. SumOver(actual_vote_power, S) \in Nat /\ SumOver(actual_vote_power, T) \in Nat
    BY <1>2, <1>3, <1>4, SumIsNatural
  <1>6. SumOver(actual_vote_power, S) <= SumOver(actual_vote_power, T)
    BY <1>3, <1>4, SumsGrow
  <1> QED
    BY <1>5, <1>6 DEF Power

\* Insertions do not make a sum smaller.
LEMMA PowersGrow ==
  ASSUME votes \subseteq Vote, IsFiniteSet(votes), NEW b \in Vote, votes' = votes \union {b},
         NEW p \in Proposals, NEW x \in VALID_VOTE_CHOICES
  PROVE  PowerFor(p, x) \in Nat /\ PowerFor(p, x)' \in Nat /\ PowerFor(p, x) <= PowerFor(p, x)'
  <1>1. IsFiniteSet(votes')
    BY FS_AddElement
  <1>2. /\ For(p, x, votes') \in SUBSET votes' /\ votes' \subseteq Vote
        /\ For(p, x, votes) \in SUBSET For(p, x, votes')
    BY DEF For
  <1>3. IsFiniteSet(For(p, x, votes')) /\ For(p, x, votes') \in SUBSET Vote
    BY <1>1, <1>2, FS_Subset
  <1>4. /\ Power(For(p, x, votes)) \in Nat /\ Power(For(p, x, votes')) \in Nat
        /\ Power(For(p, x, votes)) <= Power(For(p, x, votes'))
    BY <1>2, <1>3, PowerGrows
  <1> QED
    BY <1>4 DEF PowerFor

\* Sums are natural numbers.
LEMMA PowersAreNatural ==
  ASSUME votes \subseteq Vote, IsFiniteSet(votes), NEW p \in Proposals, NEW x \in VALID_VOTE_CHOICES
  PROVE  PowerFor(p, x) \in Nat
  <1>1. For(p, x, votes) \in SUBSET votes /\ For(p, x, votes) \in SUBSET Vote
    BY DEF For
  <1>2. IsFiniteSet(For(p, x, votes)) /\ For(p, x, votes) \in SUBSET For(p, x, votes)
    BY <1>1, FS_Subset
  <1> QED
    BY <1>1, <1>2, PowerGrows DEF PowerFor

\* The constants that bound times and quorums.
LEMMA ConstantsAreNumbers ==
  /\ Durations \subseteq Nat /\ DEFAULT_DURATION \in Nat /\ Quorums \subseteq Nat
  /\ MaxTime \in Nat /\ Vocabularies \subseteq {"schema", "service"}
  BY GovernanceAssumption

-----------------------------------------------------------------------------
(* The initial states and the steps.                                       *)

\* Every step keeps the types of the tables.
LEMMA TableStep == TypeOK /\ EndIsKnown /\ [Next]_vars => TableOK'
  <1> SUFFICES ASSUME TypeOK, EndIsKnown, [Next]_vars PROVE TableOK'
    OBVIOUS
  <1> USE ConstantsAreNumbers DEF TypeOK, TableOK, table
  <1>1. CASE Tick
    BY <1>1 DEF Tick, Times
  <1>2. ASSUME NEW p \in Proposals, NEW d \in Durations, NEW q \in Quorums, CreateNewProposal(p, d, q)
        PROVE  TableOK'
    BY <1>2 DEF CreateNewProposal, Times, callVars, NoEnd
  <1>3. ASSUME NEW c \in Callers, NEW p \in Proposals, NEW d \in Durations \union {NoEnd}, OpenVoting(c, p, d)
        PROVE  TableOK'
    BY <1>3 DEF OpenVoting, Begin, Administer
  <1>4. ASSUME NEW c \in Callers, NEW p \in Proposals, CloseVoting(c, p) PROVE TableOK'
    BY <1>4 DEF CloseVoting, Begin, Administer
  <1>5. ASSUME NEW c \in Callers, NEW p \in Proposals, EvaluateProposal(c, p) PROVE TableOK'
    BY <1>5 DEF EvaluateProposal, Ready, Begin, Administer
  <1>6. ASSUME NEW c \in Callers, NEW b \in Vote, SubmitVote(c, b) PROVE TableOK'
    BY <1>6 DEF SubmitVote, Begin
  <1>7. ASSUME NEW c \in Callers, Opened(c) PROVE TableOK'
    <2>1. target[c] \in Proposals
      BY <1>7 DEF Opened, CallsOK
    <2>2. until[c] \in Nat \union {NoEnd}
      BY <1>7 DEF CallsOK
    <2>3. vote_end' \in [Proposals -> Nat \union {NoEnd}]
      BY <1>7, <2>2 DEF Opened
    <2>4. status' \in [Proposals -> {"absent", "DRAFT", "VOTING"} \union Decided]
      BY <1>7 DEF Opened
    <2>5. vote_end'[target[c]] \in Nat
      BY <1>7, <2>1, <2>2 DEF Opened, EndIsKnown
    <2>6. \A p \in Proposals : status'[p] \notin {"absent", "DRAFT"} => vote_end'[p] \in Nat
      BY <1>7, <2>5 DEF Opened
    <2> QED
      BY <1>7, <2>3, <2>4, <2>6 DEF Opened, End
  <1>8. ASSUME NEW c \in Callers, Closed(c) PROVE TableOK'
    BY <1>8 DEF Closed, CallsOK, NoEnd
  <1>9. ASSUME NEW c \in Callers, NotVoted(c) PROVE TableOK'
    BY <1>9 DEF NotVoted
  <1>10. ASSUME NEW c \in Callers, InsertVote(c) PROVE TableOK'
    <2>1. IsFiniteSet(votes \union {ballot[c]})
      BY FS_AddElement
    <2> QED
      BY <1>10, <2>1 DEF InsertVote, Inserted, End, CallsOK
  <1>11. ASSUME NEW c \in Callers, EvaluateClosed(c) PROVE TableOK'
    BY <1>11 DEF EvaluateClosed, Ready
  <1>12. ASSUME NEW c \in Callers, Count(c, "count1", "count2") PROVE TableOK'
    BY <1>12 DEF Count, Sum
  <1>13. ASSUME NEW c \in Callers, Count(c, "count2", "count3") PROVE TableOK'
    BY <1>13 DEF Count, Sum
  <1>14. ASSUME NEW c \in Callers, Count(c, "count3", "decide") PROVE TableOK'
    BY <1>14 DEF Count, Sum
  <1>15. ASSUME NEW c \in Callers, Decide(c) PROVE TableOK'
    <2>1. target[c] \in Proposals
      BY <1>15 DEF Decide, CallsOK, Administrative
    <2>2. vote_end[target[c]] \in Nat
      BY <1>15 DEF EndIsKnown, Decide, Administrative
    <2> QED
      BY <1>15, <2>1, <2>2 DEF Decide, End, Outcome, Decided
  <1>16. ASSUME NEW c \in Callers, Fails(c) PROVE TableOK'
    BY <1>16 DEF Fails, End
  <1>17. CASE UNCHANGED vars
    BY <1>17 DEF vars
  <1> QED
    BY <1>1, <1>2, <1>3, <1>4, <1>5, <1>6, <1>7, <1>8, <1>9, <1>10, <1>11, <1>12,
       <1>13, <1>14, <1>15, <1>16, <1>17
    DEF Next, CallNext

\* A call that begins is of the right type.
LEMMA BeginKeepsCalls ==
  ASSUME CallsOK, NEW c \in Callers, NEW p \in Proposals, NEW at \in {"check"} \union Administrative,
         NEW b \in Vote \union {NoVote}, NEW e \in Nat \union {NoEnd}, Begin(c, p, at, b, e),
         at = "check" => b \in Vote /\ b.proposal = p,
         at = "close" => e \in Nat
  PROVE  CallsOK'
  <1>1. /\ pc' = [pc EXCEPT ![c] = at] /\ target' = [target EXCEPT ![c] = p]
        /\ ballot' = [ballot EXCEPT ![c] = b] /\ until' = [until EXCEPT ![c] = e] /\ tally' = tally
    BY DEF Begin
  <1>2. at # "insert"
    BY DEF Administrative, Counting
  <1> QED
    BY <1>1, <1>2 DEF CallsOK

\* A call that ends is, too.
LEMMA EndKeepsCalls ==
  ASSUME CallsOK, NEW c \in Callers, End(c)
  PROVE  CallsOK'
  <1>1. Nothing \in [VALID_VOTE_CHOICES -> Nat]
    BY DEF Nothing
  <1> QED
    BY <1>1 DEF CallsOK, End

\* So is one that counts or goes on, and so are all when nothing happens to them.
LEMMA StepKeepsCalls ==
  ASSUME CallsOK, NEW c \in Callers, NEW at \in {"insert", "evaluate", "decide"} \union Counting,
         pc[c] # "idle", at = "insert" => pc[c] = "check",
         pc' = [pc EXCEPT ![c] = at], UNCHANGED <<target, ballot, until>>,
         tally' \in [Callers -> [VALID_VOTE_CHOICES -> Nat]]
  PROVE  CallsOK'
  <1>1. at \in {"idle", "check", "insert"} \union Administrative /\ at \notin {"idle", "check", "close"}
    BY DEF Administrative, Counting
  <1> QED
    BY <1>1 DEF CallsOK

\* Every step keeps the types of the calls.
LEMMA CallsStep == TypeOK /\ [Next]_vars => CallsOK'
  <1> SUFFICES ASSUME TypeOK, [Next]_vars PROVE CallsOK'
    OBVIOUS
  <1> USE ConstantsAreNumbers DEF TypeOK
  <1>1. CASE Tick
    BY <1>1 DEF Tick, callVars, CallsOK
  <1>2. ASSUME NEW p \in Proposals, NEW d \in Durations, NEW q \in Quorums, CreateNewProposal(p, d, q)
        PROVE  CallsOK'
    BY <1>2 DEF CreateNewProposal, callVars, CallsOK
  <1>3. ASSUME NEW c \in Callers, NEW p \in Proposals, NEW d \in Durations \union {NoEnd}, OpenVoting(c, p, d)
        PROVE  CallsOK'
    <2>1. PICK e \in Nat \union {NoEnd} : Begin(c, p, "open", NoVote, e)
      BY <1>3 DEF OpenVoting, TableOK, Times
    <2> QED
      BY <2>1, BeginKeepsCalls DEF Administrative
  <1>4. ASSUME NEW c \in Callers, NEW p \in Proposals, CloseVoting(c, p) PROVE CallsOK'
    <2>1. now \in Nat
      BY DEF TableOK, Times
    <2> QED
      BY <1>4, <2>1, BeginKeepsCalls DEF CloseVoting, Administrative
  <1>5. ASSUME NEW c \in Callers, NEW p \in Proposals, EvaluateProposal(c, p) PROVE CallsOK'
    BY <1>5, BeginKeepsCalls DEF EvaluateProposal, Administrative, Counting
  <1>6. ASSUME NEW c \in Callers, NEW b \in Vote, SubmitVote(c, b) PROVE CallsOK'
    <2>1. b.proposal \in Proposals
      BY DEF Vote
    <2>2. Begin(c, b.proposal, "check", b, NoEnd)
      BY <1>6 DEF SubmitVote
    <2>3. /\ CallsOK /\ b \in Vote \union {NoVote} /\ NoEnd \in Nat \union {NoEnd}
          /\ "check" \in {"check"} \union Administrative /\ "check" # "close"
      OBVIOUS
    <2> QED
      BY ONLY <2>1, <2>2, <2>3, BeginKeepsCalls, c \in Callers, b \in Vote
  <1>7. ASSUME NEW c \in Callers, Opened(c) PROVE CallsOK'
    BY <1>7, EndKeepsCalls DEF Opened
  <1>8. ASSUME NEW c \in Callers, Closed(c) PROVE CallsOK'
    BY <1>8, StepKeepsCalls DEF Closed, CallsOK
  <1>9. ASSUME NEW c \in Callers, NotVoted(c) PROVE CallsOK'
    BY <1>9, StepKeepsCalls DEF NotVoted, CallsOK
  <1>10. ASSUME NEW c \in Callers, InsertVote(c) PROVE CallsOK'
    BY <1>10, EndKeepsCalls DEF InsertVote, Inserted
  <1>11. ASSUME NEW c \in Callers, EvaluateClosed(c) PROVE CallsOK'
    BY <1>11, StepKeepsCalls DEF EvaluateClosed, CallsOK, Counting
  <1>12. ASSUME NEW c \in Callers, Count(c, "count1", "count2") PROVE CallsOK'
    <2>1. PowerFor(target[c], "YES") \in Nat
      BY <1>12, PowersAreNatural DEF Count, CallsOK, TableOK, VALID_VOTE_CHOICES
    <2>2. tally' = [tally EXCEPT ![c]["YES"] = PowerFor(target[c], "YES")]
      BY <1>12 DEF Count, Sum
    <2>3. tally' \in [Callers -> [VALID_VOTE_CHOICES -> Nat]]
      BY <2>1, <2>2 DEF CallsOK
    <2> QED
      BY <1>12, <2>3, StepKeepsCalls DEF Count, Counting
  <1>13. ASSUME NEW c \in Callers, Count(c, "count2", "count3") PROVE CallsOK'
    <2>1. PowerFor(target[c], "NO") \in Nat
      BY <1>13, PowersAreNatural DEF Count, CallsOK, TableOK, VALID_VOTE_CHOICES
    <2>2. tally' = [tally EXCEPT ![c]["NO"] = PowerFor(target[c], "NO")]
      BY <1>13 DEF Count, Sum
    <2>3. tally' \in [Callers -> [VALID_VOTE_CHOICES -> Nat]]
      BY <2>1, <2>2 DEF CallsOK
    <2> QED
      BY <1>13, <2>3, StepKeepsCalls DEF Count, Counting
  <1>14. ASSUME NEW c \in Callers, Count(c, "count3", "decide") PROVE CallsOK'
    <2>1. PowerFor(target[c], "ABSTAIN") \in Nat
      BY <1>14, PowersAreNatural DEF Count, CallsOK, TableOK, VALID_VOTE_CHOICES
    <2>2. tally' = [tally EXCEPT ![c]["ABSTAIN"] = PowerFor(target[c], "ABSTAIN")]
      BY <1>14 DEF Count, Sum
    <2>3. tally' \in [Callers -> [VALID_VOTE_CHOICES -> Nat]]
      BY <2>1, <2>2 DEF CallsOK
    <2> QED
      BY <1>14, <2>3, StepKeepsCalls DEF Count, Counting
  <1>15. ASSUME NEW c \in Callers, Decide(c) PROVE CallsOK'
    BY <1>15, EndKeepsCalls DEF Decide
  <1>16. ASSUME NEW c \in Callers, Fails(c) PROVE CallsOK'
    BY <1>16, EndKeepsCalls DEF Fails
  <1>17. CASE UNCHANGED vars
    BY <1>17 DEF vars, callVars, CallsOK
  <1> QED
    BY <1>1, <1>2, <1>3, <1>4, <1>5, <1>6, <1>7, <1>8, <1>9, <1>10, <1>11, <1>12,
       <1>13, <1>14, <1>15, <1>16, <1>17
    DEF Next, CallNext

\* The history variables stay sets of proposals.
LEMMA HistoryStep == TypeOK /\ [Next]_vars => HistoryOK'
  <1> SUFFICES ASSUME TypeOK, [Next]_vars PROVE HistoryOK'
    OBVIOUS
  <1> USE DEF TypeOK, CallsOK, HistoryOK, history
  <1>1. CASE Tick
    BY <1>1 DEF Tick
  <1>2. ASSUME NEW p \in Proposals, NEW d \in Durations, NEW q \in Quorums, CreateNewProposal(p, d, q)
        PROVE  HistoryOK'
    BY <1>2 DEF CreateNewProposal
  <1>3. ASSUME NEW c \in Callers, NEW p \in Proposals, NEW d \in Durations \union {NoEnd}, OpenVoting(c, p, d)
        PROVE  HistoryOK'
    BY <1>3 DEF OpenVoting, Begin, Administer
  <1>4. ASSUME NEW c \in Callers, NEW p \in Proposals, CloseVoting(c, p) PROVE HistoryOK'
    BY <1>4 DEF CloseVoting, Begin, Administer
  <1>5. ASSUME NEW c \in Callers, NEW p \in Proposals, EvaluateProposal(c, p) PROVE HistoryOK'
    BY <1>5 DEF EvaluateProposal, Ready, Begin, Administer
  <1>6. ASSUME NEW c \in Callers, NEW b \in Vote, SubmitVote(c, b) PROVE HistoryOK'
    BY <1>6 DEF SubmitVote, Begin
  <1>7. ASSUME NEW c \in Callers, Opened(c) PROVE HistoryOK'
    BY <1>7 DEF Opened, End
  <1>8. ASSUME NEW c \in Callers, Closed(c) PROVE HistoryOK'
    BY <1>8 DEF Closed
  <1>9. ASSUME NEW c \in Callers, NotVoted(c) PROVE HistoryOK'
    BY <1>9 DEF NotVoted
  <1>10. ASSUME NEW c \in Callers, InsertVote(c) PROVE HistoryOK'
    BY <1>10 DEF InsertVote, Inserted, End
  <1>11. ASSUME NEW c \in Callers, EvaluateClosed(c) PROVE HistoryOK'
    BY <1>11 DEF EvaluateClosed, Ready
  <1>12. ASSUME NEW c \in Callers, Count(c, "count1", "count2") PROVE HistoryOK'
    BY <1>12 DEF Count, Sum
  <1>13. ASSUME NEW c \in Callers, Count(c, "count2", "count3") PROVE HistoryOK'
    BY <1>13 DEF Count, Sum
  <1>14. ASSUME NEW c \in Callers, Count(c, "count3", "decide") PROVE HistoryOK'
    BY <1>14 DEF Count, Sum
  <1>15. ASSUME NEW c \in Callers, Decide(c) PROVE HistoryOK'
    BY <1>15 DEF Decide, End
  <1>16. ASSUME NEW c \in Callers, Fails(c) PROVE HistoryOK'
    BY <1>16 DEF Fails, End
  <1>17. CASE UNCHANGED vars
    BY <1>17 DEF vars
  <1> QED
    BY <1>1, <1>2, <1>3, <1>4, <1>5, <1>6, <1>7, <1>8, <1>9, <1>10, <1>11, <1>12,
       <1>13, <1>14, <1>15, <1>16, <1>17
    DEF Next, CallNext

\* The end of an open voting stays known.
LEMMA EndStep == TypeOK /\ EndIsKnown /\ [Next]_vars => EndIsKnown'
  <1> SUFFICES ASSUME TypeOK, EndIsKnown, [Next]_vars PROVE EndIsKnown'
    OBVIOUS
  <1> USE DEF TypeOK, TableOK, CallsOK, EndIsKnown, table, callVars, Administrative, Counting
  <1>1. CASE Tick
    BY <1>1 DEF Tick
  <1>2. ASSUME NEW p \in Proposals, NEW d \in Durations, NEW q \in Quorums, CreateNewProposal(p, d, q)
        PROVE  EndIsKnown'
    BY <1>2 DEF CreateNewProposal
  <1>3. ASSUME NEW c \in Callers, NEW p \in Proposals, NEW d \in Durations \union {NoEnd}, OpenVoting(c, p, d)
        PROVE  EndIsKnown'
    <2>1. now \in Nat /\ now + DEFAULT_DURATION \in Nat /\ \A n \in Durations : now + n \in Nat
      BY ConstantsAreNumbers DEF Times
    <2>2. vote_end[p] \in Nat \union {NoEnd}
      OBVIOUS
    <2>3. /\ pc' = [pc EXCEPT ![c] = "open"] /\ target' = [target EXCEPT ![c] = p]
          /\ UNCHANGED <<status, vote_end>> /\ status[p] = "DRAFT"
      BY <1>3 DEF OpenVoting, Begin
    <2>4. until'[c] = NoEnd => vote_end[p] \in Nat
      BY <1>3, <2>1, <2>2 DEF OpenVoting, Begin, NoEnd
    <2>5. \A e \in Callers \ {c} : until'[e] = until[e]
      BY <1>3 DEF OpenVoting, Begin
    <2> QED
      BY <2>3, <2>4, <2>5
  <1>4. ASSUME NEW c \in Callers, NEW p \in Proposals, CloseVoting(c, p) PROVE EndIsKnown'
    BY <1>4 DEF CloseVoting, Begin, Administer
  <1>5. ASSUME NEW c \in Callers, NEW p \in Proposals, EvaluateProposal(c, p) PROVE EndIsKnown'
    BY <1>5 DEF EvaluateProposal, Ready, Begin, Administer
  <1>6. ASSUME NEW c \in Callers, NEW b \in Vote, SubmitVote(c, b) PROVE EndIsKnown'
    BY <1>6 DEF SubmitVote, Begin
  <1>7. ASSUME NEW c \in Callers, Opened(c) PROVE EndIsKnown'
    BY <1>7 DEF Opened, End
  <1>8. ASSUME NEW c \in Callers, Closed(c) PROVE EndIsKnown'
    BY <1>8 DEF Closed
  <1>9. ASSUME NEW c \in Callers, NotVoted(c) PROVE EndIsKnown'
    BY <1>9 DEF NotVoted
  <1>10. ASSUME NEW c \in Callers, InsertVote(c) PROVE EndIsKnown'
    BY <1>10 DEF InsertVote, Inserted, End
  <1>11. ASSUME NEW c \in Callers, EvaluateClosed(c) PROVE EndIsKnown'
    BY <1>11 DEF EvaluateClosed, Ready
  <1>12. ASSUME NEW c \in Callers, Count(c, "count1", "count2") PROVE EndIsKnown'
    BY <1>12 DEF Count, Sum
  <1>13. ASSUME NEW c \in Callers, Count(c, "count2", "count3") PROVE EndIsKnown'
    BY <1>13 DEF Count, Sum
  <1>14. ASSUME NEW c \in Callers, Count(c, "count3", "decide") PROVE EndIsKnown'
    BY <1>14 DEF Count, Sum
  <1>15. ASSUME NEW c \in Callers, Decide(c) PROVE EndIsKnown'
    <2>1. Outcome(tally[c], quorum[target[c]]) # "absent"
      BY DEF Outcome
    <2> QED
      BY <1>15, <2>1 DEF Decide, End
  <1>16. ASSUME NEW c \in Callers, Fails(c) PROVE EndIsKnown'
    BY <1>16 DEF Fails, End
  <1>17. CASE UNCHANGED vars
    BY <1>17 DEF vars
  <1> QED
    BY <1>1, <1>2, <1>3, <1>4, <1>5, <1>6, <1>7, <1>8, <1>9, <1>10, <1>11, <1>12,
       <1>13, <1>14, <1>15, <1>16, <1>17
    DEF Next, CallNext

\* A vote is inserted only where its voter has none.
LEMMA OneVoteStep == TypeOK /\ OneVotePerVoter /\ [Next]_vars => OneVotePerVoter'
  <1> SUFFICES ASSUME TypeOK, OneVotePerVoter, [Next]_vars PROVE OneVotePerVoter'
    OBVIOUS
  <1> USE DEF OneVotePerVoter, table
  <1>1. CASE Tick
    BY <1>1 DEF Tick
  <1>2. ASSUME NEW p \in Proposals, NEW d \in Durations, NEW q \in Quorums, CreateNewProposal(p, d, q)
        PROVE  OneVotePerVoter'
    BY <1>2 DEF CreateNewProposal
  <1>3. ASSUME NEW c \in Callers, NEW p \in Proposals, NEW d \in Durations \union {NoEnd}, OpenVoting(c, p, d)
        PROVE  OneVotePerVoter'
    BY <1>3 DEF OpenVoting, Begin, Administer
  <1>4. ASSUME NEW c \in Callers, NEW p \in Proposals, CloseVoting(c, p) PROVE OneVotePerVoter'
    BY <1>4 DEF CloseVoting, Begin, Administer
  <1>5. ASSUME NEW c \in Callers, NEW p \in Proposals, EvaluateProposal(c, p) PROVE OneVotePerVoter'
    BY <1>5 DEF EvaluateProposal, Ready, Begin, Administer
  <1>6. ASSUME NEW c \in Callers, NEW b \in Vote, SubmitVote(c, b) PROVE OneVotePerVoter'
    BY <1>6 DEF SubmitVote, Begin
  <1>7. ASSUME NEW c \in Callers, Opened(c) PROVE OneVotePerVoter'
    BY <1>7 DEF Opened, End
  <1>8. ASSUME NEW c \in Callers, Closed(c) PROVE OneVotePerVoter'
    BY <1>8 DEF Closed
  <1>9. ASSUME NEW c \in Callers, NotVoted(c) PROVE OneVotePerVoter'
    BY <1>9 DEF NotVoted
  <1>10. ASSUME NEW c \in Callers, InsertVote(c) PROVE OneVotePerVoter'
    <2>1. votes' = votes \union {ballot[c]} /\ ballot[c].proposal = target[c]
      BY <1>10 DEF InsertVote, Inserted, TypeOK, CallsOK
    <2>2. \A v \in votes : v.proposal = target[c] => v.voter # ballot[c].voter
      BY <1>10 DEF InsertVote, Cast
    <2> QED
      BY <2>1, <2>2
  <1>11. ASSUME NEW c \in Callers, EvaluateClosed(c) PROVE OneVotePerVoter'
    BY <1>11 DEF EvaluateClosed, Ready
  <1>12. ASSUME NEW c \in Callers, Count(c, "count1", "count2") PROVE OneVotePerVoter'
    BY <1>12 DEF Count, Sum
  <1>13. ASSUME NEW c \in Callers, Count(c, "count2", "count3") PROVE OneVotePerVoter'
    BY <1>13 DEF Count, Sum
  <1>14. ASSUME NEW c \in Callers, Count(c, "count3", "decide") PROVE OneVotePerVoter'
    BY <1>14 DEF Count, Sum
  <1>15. ASSUME NEW c \in Callers, Decide(c) PROVE OneVotePerVoter'
    BY <1>15 DEF Decide, End
  <1>16. ASSUME NEW c \in Callers, Fails(c) PROVE OneVotePerVoter'
    BY <1>16 DEF Fails, End
  <1>17. CASE UNCHANGED vars
    BY <1>17 DEF vars
  <1> QED
    BY <1>1, <1>2, <1>3, <1>4, <1>5, <1>6, <1>7, <1>8, <1>9, <1>10, <1>11, <1>12,
       <1>13, <1>14, <1>15, <1>16, <1>17
    DEF Next, CallNext

\* What a step does with the sums: they are natural numbers and do not shrink.
TotalsGrow ==
  \A p \in Proposals, x \in VALID_VOTE_CHOICES :
    /\ Power(For(p, x, votes)) \in Nat /\ Power(For(p, x, votes')) \in Nat
    /\ Power(For(p, x, votes)) <= Power(For(p, x, votes'))

\* What a step does with a call's count: nothing, or the call is not counting
\* afterwards, or has read a sum.
Counts(c) ==
  \/ UNCHANGED <<pc[c], target[c], tally[c]>>
  \/ pc'[c] \notin {"count2", "count3", "decide"}
  \/ Count(c, "count1", "count2") \/ Count(c, "count2", "count3") \/ Count(c, "count3", "decide")

\* Committed sums grow.
LEMMA SumsStep == TypeOK /\ [Next]_vars => TotalsGrow /\ led \subseteq led'
  <1> SUFFICES ASSUME TypeOK, [Next]_vars PROVE TotalsGrow /\ led \subseteq led'
    OBVIOUS
  <1>1. CASE UNCHANGED <<votes, led>>
    <2>1. \A p \in Proposals, x \in VALID_VOTE_CHOICES : Power(For(p, x, votes)) \in Nat
      BY PowersAreNatural DEF TypeOK, TableOK, PowerFor
    <2> QED
      BY <1>1, <2>1 DEF TotalsGrow
  <1>2. ASSUME NEW c \in Callers, InsertVote(c) PROVE TotalsGrow /\ led \subseteq led'
    <2>1. /\ votes \subseteq Vote /\ IsFiniteSet(votes) /\ ballot[c] \in Vote
          /\ votes' = votes \union {ballot[c]} /\ led \subseteq led'
      BY <1>2 DEF InsertVote, Inserted, TypeOK, TableOK, CallsOK
    <2>2. ASSUME NEW p \in Proposals, NEW x \in VALID_VOTE_CHOICES
          PROVE  /\ Power(For(p, x, votes)) \in Nat /\ Power(For(p, x, votes')) \in Nat
                 /\ Power(For(p, x, votes)) <= Power(For(p, x, votes'))
      BY <2>1, PowersGrow DEF PowerFor
    <2> QED
      BY <2>1, <2>2 DEF TotalsGrow
  <1> QED
    BY <1>1, <1>2
    DEF Next, CallNext, vars, table, history, Tick, CreateNewProposal, OpenVoting, CloseVoting,
        EvaluateProposal, SubmitVote, Begin, Opened, Closed, NotVoted, EvaluateClosed, Count,
        Decide, Fails

\* Counts are touched by their call only.
LEMMA CountsStep == TypeOK /\ [Next]_vars => \A e \in Callers : Counts(e)
  <1> SUFFICES ASSUME TypeOK, [Next]_vars PROVE \A e \in Callers : Counts(e)
    OBVIOUS
  <1> USE DEF Counts, TypeOK, CallsOK, table, callVars, history, Administrative, Counting
  <1>1. CASE Tick
    BY <1>1 DEF Tick
  <1>2. ASSUME NEW p \in Proposals, NEW d \in Durations, NEW q \in Quorums, CreateNewProposal(p, d, q)
        PROVE  \A e \in Callers : Counts(e)
    BY <1>2 DEF CreateNewProposal
  <1>3. ASSUME NEW c \in Callers, NEW p \in Proposals, NEW d \in Durations \union {NoEnd}, OpenVoting(c, p, d)
        PROVE  \A e \in Callers : Counts(e)
    BY <1>3 DEF OpenVoting, Begin, Administer
  <1>4. ASSUME NEW c \in Callers, NEW p \in Proposals, CloseVoting(c, p) PROVE \A e \in Callers : Counts(e)
    BY <1>4 DEF CloseVoting, Begin, Administer
  <1>5. ASSUME NEW c \in Callers, NEW p \in Proposals, EvaluateProposal(c, p) PROVE \A e \in Callers : Counts(e)
    BY <1>5 DEF EvaluateProposal, Ready, Begin, Administer
  <1>6. ASSUME NEW c \in Callers, NEW b \in Vote, SubmitVote(c, b) PROVE \A e \in Callers : Counts(e)
    BY <1>6 DEF SubmitVote, Begin
  <1>7. ASSUME NEW c \in Callers, Opened(c) PROVE \A e \in Callers : Counts(e)
    BY <1>7 DEF Opened, End
  <1>8. ASSUME NEW c \in Callers, Closed(c) PROVE \A e \in Callers : Counts(e)
    BY <1>8 DEF Closed
  <1>9. ASSUME NEW c \in Callers, NotVoted(c) PROVE \A e \in Callers : Counts(e)
    BY <1>9 DEF NotVoted
  <1>10. ASSUME NEW c \in Callers, InsertVote(c) PROVE \A e \in Callers : Counts(e)
    BY <1>10 DEF InsertVote, Inserted, End
  <1>11. ASSUME NEW c \in Callers, EvaluateClosed(c) PROVE \A e \in Callers : Counts(e)
    BY <1>11 DEF EvaluateClosed, Ready
  <1>12. ASSUME NEW c \in Callers, Count(c, "count1", "count2") PROVE \A e \in Callers : Counts(e)
    BY <1>12 DEF Count, Sum
  <1>13. ASSUME NEW c \in Callers, Count(c, "count2", "count3") PROVE \A e \in Callers : Counts(e)
    BY <1>13 DEF Count, Sum
  <1>14. ASSUME NEW c \in Callers, Count(c, "count3", "decide") PROVE \A e \in Callers : Counts(e)
    BY <1>14 DEF Count, Sum
  <1>15. ASSUME NEW c \in Callers, Decide(c) PROVE \A e \in Callers : Counts(e)
    BY <1>15 DEF Decide, End
  <1>16. ASSUME NEW c \in Callers, Fails(c) PROVE \A e \in Callers : Counts(e)
    BY <1>16 DEF Fails, End
  <1>17. CASE UNCHANGED vars
    BY <1>17 DEF vars
  <1> QED
    BY <1>1, <1>2, <1>3, <1>4, <1>5, <1>6, <1>7, <1>8, <1>9, <1>10, <1>11, <1>12,
       <1>13, <1>14, <1>15, <1>16, <1>17
    DEF Next, CallNext

\* A sum is read when it is what is committed, and NO after YES.
LEMMA TallyStep ==
  TypeOK /\ TalliesAreLowerBounds /\ LeadsAreSeen /\ [Next]_vars => TalliesAreLowerBounds'
  <1> SUFFICES ASSUME TypeOK, TalliesAreLowerBounds, LeadsAreSeen, [Next]_vars, NEW c \in Callers
               PROVE  LowerBounds(c)'
    BY DEF TalliesAreLowerBounds
  <1>1. Counts(c) /\ TotalsGrow /\ led \subseteq led' /\ LowerBounds(c)
    BY CountsStep, SumsStep DEF TalliesAreLowerBounds
  <1>2. /\ pc[c] # "idle" => target[c] \in Proposals
        /\ tally[c]["YES"] \in Nat /\ tally[c]["NO"] \in Nat /\ tally[c]["ABSTAIN"] \in Nat
    BY DEF TypeOK, CallsOK, VALID_VOTE_CHOICES
  <1>3. \A p \in Proposals :
          /\ Power(For(p, "YES", votes)) \in Nat /\ Power(For(p, "YES", votes')) \in Nat
          /\ Power(For(p, "YES", votes)) <= Power(For(p, "YES", votes'))
          /\ Power(For(p, "NO", votes)) \in Nat /\ Power(For(p, "NO", votes')) \in Nat
          /\ Power(For(p, "NO", votes)) <= Power(For(p, "NO", votes'))
          /\ Power(For(p, "ABSTAIN", votes)) \in Nat /\ Power(For(p, "ABSTAIN", votes')) \in Nat
          /\ Power(For(p, "ABSTAIN", votes)) <= Power(For(p, "ABSTAIN", votes'))
    BY <1>1 DEF TotalsGrow, VALID_VOTE_CHOICES
  <1>4. CASE UNCHANGED <<pc[c], target[c], tally[c]>>
    BY <1>1, <1>2, <1>3, <1>4 DEF LowerBounds, PowerFor
  <1>5. CASE pc'[c] \notin {"count2", "count3", "decide"}
    BY <1>5 DEF LowerBounds
  <1>6. ASSUME NEW at \in Counting, NEW next \in {"count2", "count3", "decide"}, Count(c, at, next)
        PROVE  /\ pc[c] = at /\ pc'[c] = next /\ target'[c] = target[c] /\ votes' = votes /\ led' = led
               /\ tally'[c][Sum[at]] = Power(For(target[c], Sum[at], votes))
               /\ \A x \in VALID_VOTE_CHOICES \ {Sum[at]} : tally'[c][x] = tally[c][x]
               /\ target[c] \in Proposals
    <2>1. Sum[at] \in VALID_VOTE_CHOICES
      BY DEF Sum, Counting, VALID_VOTE_CHOICES
    <2> QED
      BY <1>2, <1>6, <2>1 DEF Count, PowerFor, TypeOK, CallsOK, table, history, Counting
  <1>7. CASE Count(c, "count1", "count2")
    BY <1>3, <1>6, <1>7 DEF LowerBounds, PowerFor, Sum, Counting, VALID_VOTE_CHOICES
  <1>8. CASE Count(c, "count2", "count3")
    <2>1. Sum["count2"] = "NO"
      BY DEF Sum
    <2>2. /\ pc[c] = "count2" /\ pc'[c] = "count3" /\ target'[c] = target[c] /\ votes' = votes
          /\ led' = led /\ tally'[c]["NO"] = Power(For(target[c], "NO", votes))
          /\ tally'[c]["YES"] = tally[c]["YES"] /\ target[c] \in Proposals
      BY <1>6, <1>8, <2>1 DEF Counting, VALID_VOTE_CHOICES
    <2>3. tally[c]["YES"] <= Power(For(target[c], "YES", votes))
      BY <1>1, <2>2 DEF LowerBounds, PowerFor
    <2>4. Power(For(target[c], "YES", votes)) > Power(For(target[c], "NO", votes)) => target[c] \in led
      BY <2>2 DEF LeadsAreSeen, PowerFor
    <2> QED
      BY <1>2, <1>3, <2>2, <2>3, <2>4 DEF LowerBounds, PowerFor
  <1>9. CASE Count(c, "count3", "decide")
    <2>1. Sum["count3"] = "ABSTAIN"
      BY DEF Sum
    <2>2. /\ pc[c] = "count3" /\ pc'[c] = "decide" /\ target'[c] = target[c] /\ votes' = votes
          /\ led' = led /\ tally'[c]["ABSTAIN"] = Power(For(target[c], "ABSTAIN", votes))
          /\ tally'[c]["YES"] = tally[c]["YES"] /\ tally'[c]["NO"] = tally[c]["NO"]
          /\ target[c] \in Proposals
      BY <1>6, <1>9, <2>1 DEF Counting, VALID_VOTE_CHOICES
    <2> QED
      BY <1>1, <1>3, <2>2 DEF LowerBounds, PowerFor
  <1> QED
    BY <1>1, <1>4, <1>5, <1>7, <1>8, <1>9 DEF Counts

\* Every lead is recorded by the insertion that makes it.
LEMMA LeadsStep == TypeOK /\ LeadsAreSeen /\ [Next]_vars => LeadsAreSeen'
  <1> SUFFICES ASSUME TypeOK, LeadsAreSeen, [Next]_vars PROVE LeadsAreSeen'
    OBVIOUS
  <1> USE DEF LeadsAreSeen, PowerFor, table, callVars, history
  <1>1. CASE Tick
    BY <1>1 DEF Tick
  <1>2. ASSUME NEW p \in Proposals, NEW d \in Durations, NEW q \in Quorums, CreateNewProposal(p, d, q)
        PROVE  LeadsAreSeen'
    BY <1>2 DEF CreateNewProposal
  <1>3. ASSUME NEW c \in Callers, NEW p \in Proposals, NEW d \in Durations \union {NoEnd}, OpenVoting(c, p, d)
        PROVE  LeadsAreSeen'
    BY <1>3 DEF OpenVoting, Begin, Administer
  <1>4. ASSUME NEW c \in Callers, NEW p \in Proposals, CloseVoting(c, p) PROVE LeadsAreSeen'
    BY <1>4 DEF CloseVoting, Begin, Administer
  <1>5. ASSUME NEW c \in Callers, NEW p \in Proposals, EvaluateProposal(c, p) PROVE LeadsAreSeen'
    BY <1>5 DEF EvaluateProposal, Ready, Begin, Administer
  <1>6. ASSUME NEW c \in Callers, NEW b \in Vote, SubmitVote(c, b) PROVE LeadsAreSeen'
    BY <1>6 DEF SubmitVote, Begin
  <1>7. ASSUME NEW c \in Callers, Opened(c) PROVE LeadsAreSeen'
    BY <1>7 DEF Opened, End
  <1>8. ASSUME NEW c \in Callers, Closed(c) PROVE LeadsAreSeen'
    BY <1>8 DEF Closed
  <1>9. ASSUME NEW c \in Callers, NotVoted(c) PROVE LeadsAreSeen'
    BY <1>9 DEF NotVoted
  <1>10. ASSUME NEW c \in Callers, InsertVote(c) PROVE LeadsAreSeen'
    BY <1>10 DEF InsertVote, Inserted, End
  <1>11. ASSUME NEW c \in Callers, EvaluateClosed(c) PROVE LeadsAreSeen'
    BY <1>11 DEF EvaluateClosed, Ready
  <1>12. ASSUME NEW c \in Callers, Count(c, "count1", "count2") PROVE LeadsAreSeen'
    BY <1>12 DEF Count, Sum
  <1>13. ASSUME NEW c \in Callers, Count(c, "count2", "count3") PROVE LeadsAreSeen'
    BY <1>13 DEF Count, Sum
  <1>14. ASSUME NEW c \in Callers, Count(c, "count3", "decide") PROVE LeadsAreSeen'
    BY <1>14 DEF Count, Sum
  <1>15. ASSUME NEW c \in Callers, Decide(c) PROVE LeadsAreSeen'
    BY <1>15 DEF Decide, End
  <1>16. ASSUME NEW c \in Callers, Fails(c) PROVE LeadsAreSeen'
    BY <1>16 DEF Fails, End
  <1>17. CASE UNCHANGED vars
    BY <1>17 DEF vars
  <1> QED
    BY <1>1, <1>2, <1>3, <1>4, <1>5, <1>6, <1>7, <1>8, <1>9, <1>10, <1>11, <1>12,
       <1>13, <1>14, <1>15, <1>16, <1>17
    DEF Next, CallNext

\* Without overlap there is one administrative call.
LEMMA OverlapStep == TypeOK /\ OverlapIsSeen /\ [Next]_vars => OverlapIsSeen'
  <1> SUFFICES ASSUME TypeOK, OverlapIsSeen, [Next]_vars PROVE OverlapIsSeen'
    OBVIOUS
  <1> USE DEF TypeOK, CallsOK, OverlapIsSeen, table, callVars, history, Administrative, Counting
  <1>1. CASE Tick
    BY <1>1 DEF Tick
  <1>2. ASSUME NEW p \in Proposals, NEW d \in Durations, NEW q \in Quorums, CreateNewProposal(p, d, q)
        PROVE  OverlapIsSeen'
    BY <1>2 DEF CreateNewProposal
  <1>3. ASSUME NEW c \in Callers, NEW p \in Proposals, NEW d \in Durations \union {NoEnd}, OpenVoting(c, p, d)
        PROVE  OverlapIsSeen'
    BY <1>3 DEF OpenVoting, Begin, Administer
  <1>4. ASSUME NEW c \in Callers, NEW p \in Proposals, CloseVoting(c, p) PROVE OverlapIsSeen'
    BY <1>4 DEF CloseVoting, Begin, Administer
  <1>5. ASSUME NEW c \in Callers, NEW p \in Proposals, EvaluateProposal(c, p) PROVE OverlapIsSeen'
    BY <1>5 DEF EvaluateProposal, Ready, Begin, Administer
  <1>6. ASSUME NEW c \in Callers, NEW b \in Vote, SubmitVote(c, b) PROVE OverlapIsSeen'
    BY <1>6 DEF SubmitVote, Begin
  <1>7. ASSUME NEW c \in Callers, Opened(c) PROVE OverlapIsSeen'
    BY <1>7 DEF Opened, End
  <1>8. ASSUME NEW c \in Callers, Closed(c) PROVE OverlapIsSeen'
    BY <1>8 DEF Closed
  <1>9. ASSUME NEW c \in Callers, NotVoted(c) PROVE OverlapIsSeen'
    BY <1>9 DEF NotVoted
  <1>10. ASSUME NEW c \in Callers, InsertVote(c) PROVE OverlapIsSeen'
    BY <1>10 DEF InsertVote, Inserted, End
  <1>11. ASSUME NEW c \in Callers, EvaluateClosed(c) PROVE OverlapIsSeen'
    BY <1>11 DEF EvaluateClosed, Ready
  <1>12. ASSUME NEW c \in Callers, Count(c, "count1", "count2") PROVE OverlapIsSeen'
    BY <1>12 DEF Count, Sum
  <1>13. ASSUME NEW c \in Callers, Count(c, "count2", "count3") PROVE OverlapIsSeen'
    BY <1>13 DEF Count, Sum
  <1>14. ASSUME NEW c \in Callers, Count(c, "count3", "decide") PROVE OverlapIsSeen'
    BY <1>14 DEF Count, Sum
  <1>15. ASSUME NEW c \in Callers, Decide(c) PROVE OverlapIsSeen'
    BY <1>15 DEF Decide, End
  <1>16. ASSUME NEW c \in Callers, Fails(c) PROVE OverlapIsSeen'
    BY <1>16 DEF Fails, End
  <1>17. CASE UNCHANGED vars
    BY <1>17 DEF vars
  <1> QED
    BY <1>1, <1>2, <1>3, <1>4, <1>5, <1>6, <1>7, <1>8, <1>9, <1>10, <1>11, <1>12,
       <1>13, <1>14, <1>15, <1>16, <1>17
    DEF Next, CallNext

\* The status only changes under an administrative call.
LEMMA CurrentStep == TypeOK /\ OverlapIsSeen /\ StatusIsCurrent /\ EndIsKnown /\ [Next]_vars => StatusIsCurrent'
  <1> SUFFICES ASSUME TypeOK, OverlapIsSeen, StatusIsCurrent, EndIsKnown, [Next]_vars PROVE StatusIsCurrent'
    OBVIOUS
  <1> USE DEF TypeOK, TableOK, CallsOK, StatusIsCurrent, table, callVars, history, Administrative, Counting
  <1>1. CASE Tick
    BY <1>1 DEF Tick
  <1>2. ASSUME NEW p \in Proposals, NEW d \in Durations, NEW q \in Quorums, CreateNewProposal(p, d, q)
        PROVE  StatusIsCurrent'
    BY <1>2 DEF CreateNewProposal
  <1>3. ASSUME NEW c \in Callers, NEW p \in Proposals, NEW d \in Durations \union {NoEnd}, OpenVoting(c, p, d)
        PROVE  StatusIsCurrent'
    BY <1>3 DEF OpenVoting, Begin, Administer
  <1>4. ASSUME NEW c \in Callers, NEW p \in Proposals, CloseVoting(c, p) PROVE StatusIsCurrent'
    BY <1>4 DEF CloseVoting, Begin, Administer
  <1>5. ASSUME NEW c \in Callers, NEW p \in Proposals, EvaluateProposal(c, p) PROVE StatusIsCurrent'
    BY <1>5 DEF EvaluateProposal, Ready, Begin, Administer
  <1>6. ASSUME NEW c \in Callers, NEW b \in Vote, SubmitVote(c, b) PROVE StatusIsCurrent'
    BY <1>6 DEF SubmitVote, Begin
  <1>7. ASSUME NEW c \in Callers, Opened(c) PROVE StatusIsCurrent'
    <2>1. target[c] \in Proposals /\ overlapped' = overlapped
      BY <1>7 DEF Opened, End
    <2>2. ASSUME NEW d \in Callers \ {c}, pc[d] \in Administrative, target[d] \notin overlapped
          PROVE  target[d] # target[c]
      BY <1>7, <2>2 DEF Opened, OverlapIsSeen
    <2>3. \A p \in Proposals \ {target[c]} : status'[p] = status[p]
      BY <1>7 DEF Opened
    <2>4. /\ pc' = [pc EXCEPT ![c] = "idle"]
          /\ \A d \in Callers \ {c} : target'[d] = target[d]
      BY <1>7 DEF Opened, End
    <2> QED
      BY <2>1, <2>2, <2>3, <2>4
  <1>8. ASSUME NEW c \in Callers, Closed(c) PROVE StatusIsCurrent'
    BY <1>8 DEF Closed
  <1>9. ASSUME NEW c \in Callers, NotVoted(c) PROVE StatusIsCurrent'
    BY <1>9 DEF NotVoted
  <1>10. ASSUME NEW c \in Callers, InsertVote(c) PROVE StatusIsCurrent'
    BY <1>10 DEF InsertVote, Inserted, End
  <1>11. ASSUME NEW c \in Callers, EvaluateClosed(c) PROVE StatusIsCurrent'
    BY <1>11 DEF EvaluateClosed, Ready
  <1>12. ASSUME NEW c \in Callers, Count(c, "count1", "count2") PROVE StatusIsCurrent'
    BY <1>12 DEF Count, Sum
  <1>13. ASSUME NEW c \in Callers, Count(c, "count2", "count3") PROVE StatusIsCurrent'
    BY <1>13 DEF Count, Sum
  <1>14. ASSUME NEW c \in Callers, Count(c, "count3", "decide") PROVE StatusIsCurrent'
    BY <1>14 DEF Count, Sum
  <1>15. ASSUME NEW c \in Callers, Decide(c) PROVE StatusIsCurrent'
    <2>1. target[c] \in Proposals /\ overlapped' = overlapped
      BY <1>15 DEF Decide, End
    <2>2. ASSUME NEW d \in Callers \ {c}, pc[d] \in Administrative, target[d] \notin overlapped
          PROVE  target[d] # target[c]
      BY <1>15, <2>2 DEF Decide, OverlapIsSeen
    <2>3. \A p \in Proposals \ {target[c]} : status'[p] = status[p]
      BY <1>15 DEF Decide
    <2>4. /\ pc' = [pc EXCEPT ![c] = "idle"]
          /\ \A d \in Callers \ {c} : target'[d] = target[d]
      BY <1>15 DEF Decide, End
    <2> QED
      BY <2>1, <2>2, <2>3, <2>4
  <1>16. ASSUME NEW c \in Callers, Fails(c) PROVE StatusIsCurrent'
    BY <1>16 DEF Fails, End
  <1>17. CASE UNCHANGED vars
    BY <1>17 DEF vars
  <1> QED
    BY <1>1, <1>2, <1>3, <1>4, <1>5, <1>6, <1>7, <1>8, <1>9, <1>10, <1>11, <1>12,
       <1>13, <1>14, <1>15, <1>16, <1>17
    DEF Next, CallNext

\* What a step does with the result of a proposal: nothing, or it does not
\* pass it, or an evaluation decides.
Passes(r) ==
  \/ UNCHANGED <<status[r], quorum[r]>>
  \/ status'[r] # "PASSED"
  \/ \E c \in Callers : Decide(c) /\ target[c] = r

\* Proposals pass by evaluation only.
LEMMA PassesStep == TypeOK /\ [Next]_vars => \A r \in Proposals : Passes(r)
  <1> SUFFICES ASSUME TypeOK, [Next]_vars PROVE \A r \in Proposals : Passes(r)
    OBVIOUS
  <1> USE DEF Passes, TypeOK, TableOK, table
  <1>1. CASE Tick
    BY <1>1 DEF Tick
  <1>2. ASSUME NEW p \in Proposals, NEW d \in Durations, NEW q \in Quorums, CreateNewProposal(p, d, q)
        PROVE  \A r \in Proposals : Passes(r)
    BY <1>2 DEF CreateNewProposal
  <1>3. ASSUME NEW c \in Callers, NEW p \in Proposals, NEW d \in Durations \union {NoEnd}, OpenVoting(c, p, d)
        PROVE  \A r \in Proposals : Passes(r)
    BY <1>3 DEF OpenVoting, Begin, Administer
  <1>4. ASSUME NEW c \in Callers, NEW p \in Proposals, CloseVoting(c, p) PROVE \A r \in Proposals : Passes(r)
    BY <1>4 DEF CloseVoting, Begin, Administer
  <1>5. ASSUME NEW c \in Callers, NEW p \in Proposals, EvaluateProposal(c, p) PROVE \A r \in Proposals : Passes(r)
    BY <1>5 DEF EvaluateProposal, Ready, Begin, Administer
  <1>6. ASSUME NEW c \in Callers, NEW b \in Vote, SubmitVote(c, b) PROVE \A r \in Proposals : Passes(r)
    BY <1>6 DEF SubmitVote, Begin
  <1>7. ASSUME NEW c \in Callers, Opened(c) PROVE \A r \in Proposals : Passes(r)
    BY <1>7 DEF Opened, End
  <1>8. ASSUME NEW c \in Callers, Closed(c) PROVE \A r \in Proposals : Passes(r)
    BY <1>8 DEF Closed
  <1>9. ASSUME NEW c \in Callers, NotVoted(c) PROVE \A r \in Proposals : Passes(r)
    BY <1>9 DEF NotVoted
  <1>10. ASSUME NEW c \in Callers, InsertVote(c) PROVE \A r \in Proposals : Passes(r)
    BY <1>10 DEF InsertVote, Inserted, End
  <1>11. ASSUME NEW c \in Callers, EvaluateClosed(c) PROVE \A r \in Proposals : Passes(r)
    BY <1>11 DEF EvaluateClosed, Ready
  <1>12. ASSUME NEW c \in Callers, Count(c, "count1", "count2") PROVE \A r \in Proposals : Passes(r)
    BY <1>12 DEF Count, Sum
  <1>13. ASSUME NEW c \in Callers, Count(c, "count2", "count3") PROVE \A r \in Proposals : Passes(r)
    BY <1>13 DEF Count, Sum
  <1>14. ASSUME NEW c \in Callers, Count(c, "count3", "decide") PROVE \A r \in Proposals : Passes(r)
    BY <1>14 DEF Count, Sum
  <1>15. ASSUME NEW c \in Callers, Decide(c) PROVE \A r \in Proposals : Passes(r)
    BY <1>15 DEF Decide
  <1>16. ASSUME NEW c \in Callers, Fails(c) PROVE \A r \in Proposals : Passes(r)
    BY <1>16 DEF Fails, End
  <1>17. CASE UNCHANGED vars
    BY <1>17 DEF vars
  <1> QED
    BY <1>1, <1>2, <1>3, <1>4, <1>5, <1>6, <1>7, <1>8, <1>9, <1>10, <1>11, <1>12,
       <1>13, <1>14, <1>15, <1>16, <1>17
    DEF Next, CallNext

\* Proposals pass with a quorum, and have led.
LEMMA OutcomeStep ==
  TypeOK /\ TalliesAreLowerBounds /\ QuorumIsMet /\ PassedHasLed /\ [Next]_vars
    => QuorumIsMet' /\ PassedHasLed'
  <1> SUFFICES ASSUME TypeOK, TalliesAreLowerBounds, QuorumIsMet, PassedHasLed, [Next]_vars,
                      NEW p \in Proposals, status'[p] = "PASSED"
               PROVE  /\ PowerFor(p, "YES")' + PowerFor(p, "NO")' + PowerFor(p, "ABSTAIN")' >= quorum'[p]
                      /\ p \in led'
    BY DEF QuorumIsMet, PassedHasLed
  <1>1. Passes(p) /\ TotalsGrow /\ led \subseteq led' /\ quorum[p] \in Nat
    <2>1. quorum[p] \in Quorums \union {0}
      BY DEF TypeOK, TableOK
    <2>2. quorum[p] \in Nat
      <3>1. \A q \in Quorums \union {0} : q \in Nat
        BY ConstantsAreNumbers
      <3> QED
        BY <2>1, <3>1
    <2> QED
      BY <2>2, PassesStep, SumsStep
  <1>2. /\ PowerFor(p, "YES") \in Nat /\ PowerFor(p, "YES")' \in Nat /\ PowerFor(p, "YES") <= PowerFor(p, "YES")'
        /\ PowerFor(p, "NO") \in Nat /\ PowerFor(p, "NO")' \in Nat /\ PowerFor(p, "NO") <= PowerFor(p, "NO")'
        /\ PowerFor(p, "ABSTAIN") \in Nat /\ PowerFor(p, "ABSTAIN")' \in Nat
        /\ PowerFor(p, "ABSTAIN") <= PowerFor(p, "ABSTAIN")'
    BY <1>1 DEF TotalsGrow, PowerFor, VALID_VOTE_CHOICES
  <1>3. CASE UNCHANGED <<status[p], quorum[p]>>
    <2>1. PowerFor(p, "YES") + PowerFor(p, "NO") + PowerFor(p, "ABSTAIN") >= quorum[p] /\ p \in led
      BY <1>3 DEF QuorumIsMet, PassedHasLed
    <2>2. quorum'[p] = quorum[p]
      BY <1>3
    <2> QED
      BY <1>1, <1>2, <2>1, <2>2
  <1>4. ASSUME NEW c \in Callers, Decide(c), target[c] = p
        PROVE  /\ PowerFor(p, "YES")' + PowerFor(p, "NO")' + PowerFor(p, "ABSTAIN")' >= quorum'[p]
               /\ p \in led'
    <2>1. Outcome(tally[c], quorum[p]) = "PASSED" /\ quorum' = quorum /\ pc[c] = "decide"
      BY <1>4 DEF Decide, TypeOK, TableOK
    <2>2. /\ tally[c]["YES"] + tally[c]["NO"] + tally[c]["ABSTAIN"] >= quorum[p]
          /\ tally[c]["YES"] > tally[c]["NO"]
      BY <2>1 DEF Outcome, QuorumMet
    <2>3. /\ tally[c]["YES"] <= PowerFor(p, "YES") /\ tally[c]["NO"] <= PowerFor(p, "NO")
          /\ tally[c]["ABSTAIN"] <= PowerFor(p, "ABSTAIN") /\ p \in led
      BY <1>4, <2>1, <2>2 DEF TalliesAreLowerBounds, LowerBounds
    <2>4. tally[c]["YES"] \in Nat /\ tally[c]["NO"] \in Nat /\ tally[c]["ABSTAIN"] \in Nat
      BY DEF TypeOK, CallsOK, VALID_VOTE_CHOICES
    <2> QED
      BY <1>1, <1>2, <2>1, <2>2, <2>3, <2>4
  <1> QED
    BY <1>1, <1>3, <1>4 DEF Passes

\* What a step may do with a decision.
DecisionStands ==
  \A r \in Proposals : status[r] \in Decided /\ r \notin overlapped => status'[r] = status[r]

\* Without overlap, whoever writes the status has read what it still is.
LEMMA FinalStep == TypeOK /\ StatusIsCurrent /\ [Next]_vars => DecisionStands
  <1> SUFFICES ASSUME TypeOK, StatusIsCurrent, [Next]_vars PROVE DecisionStands
    OBVIOUS
  <1> USE DEF DecisionStands, TypeOK, TableOK, StatusIsCurrent, Decided, Administrative, table
  <1>1. CASE Tick
    BY <1>1 DEF Tick
  <1>2. ASSUME NEW p \in Proposals, NEW d \in Durations, NEW q \in Quorums, CreateNewProposal(p, d, q)
        PROVE  DecisionStands
    BY <1>2 DEF CreateNewProposal
  <1>3. ASSUME NEW c \in Callers, NEW p \in Proposals, NEW d \in Durations \union {NoEnd}, OpenVoting(c, p, d)
        PROVE  DecisionStands
    BY <1>3 DEF OpenVoting, Begin, Administer
  <1>4. ASSUME NEW c \in Callers, NEW p \in Proposals, CloseVoting(c, p) PROVE DecisionStands
    BY <1>4 DEF CloseVoting, Begin, Administer
  <1>5. ASSUME NEW c \in Callers, NEW p \in Proposals, EvaluateProposal(c, p) PROVE DecisionStands
    BY <1>5 DEF EvaluateProposal, Ready, Begin, Administer
  <1>6. ASSUME NEW c \in Callers, NEW b \in Vote, SubmitVote(c, b) PROVE DecisionStands
    BY <1>6 DEF SubmitVote, Begin
  <1>7. ASSUME NEW c \in Callers, Opened(c) PROVE DecisionStands
    <2>1. target[c] \in overlapped \/ status[target[c]] = "DRAFT"
      BY <1>7 DEF Opened
    <2>2. \A r \in Proposals \ {target[c]} : status'[r] = status[r]
      BY <1>7 DEF Opened
    <2> QED
      BY <2>1, <2>2
  <1>8. ASSUME NEW c \in Callers, Closed(c) PROVE DecisionStands
    BY <1>8 DEF Closed
  <1>9. ASSUME NEW c \in Callers, NotVoted(c) PROVE DecisionStands
    BY <1>9 DEF NotVoted
  <1>10. ASSUME NEW c \in Callers, InsertVote(c) PROVE DecisionStands
    BY <1>10 DEF InsertVote, Inserted, End
  <1>11. ASSUME NEW c \in Callers, EvaluateClosed(c) PROVE DecisionStands
    BY <1>11 DEF EvaluateClosed, Ready
  <1>12. ASSUME NEW c \in Callers, Count(c, "count1", "count2") PROVE DecisionStands
    BY <1>12 DEF Count, Sum
  <1>13. ASSUME NEW c \in Callers, Count(c, "count2", "count3") PROVE DecisionStands
    BY <1>13 DEF Count, Sum
  <1>14. ASSUME NEW c \in Callers, Count(c, "count3", "decide") PROVE DecisionStands
    BY <1>14 DEF Count, Sum
  <1>15. ASSUME NEW c \in Callers, Decide(c) PROVE DecisionStands
    <2>1. target[c] \in overlapped \/ status[target[c]] = "VOTING"
      BY <1>15 DEF Decide
    <2>2. \A r \in Proposals \ {target[c]} : status'[r] = status[r]
      BY <1>15 DEF Decide
    <2> QED
      BY <2>1, <2>2
  <1>16. ASSUME NEW c \in Callers, Fails(c) PROVE DecisionStands
    BY <1>16 DEF Fails, End
  <1>17. CASE UNCHANGED vars
    BY <1>17 DEF vars
  <1> QED
    BY <1>1, <1>2, <1>3, <1>4, <1>5, <1>6, <1>7, <1>8, <1>9, <1>10, <1>11, <1>12,
       <1>13, <1>14, <1>15, <1>16, <1>17
    DEF Next, CallNext

-----------------------------------------------------------------------------
(* The theorems.                                                           *)

\* Nothing is there yet.
LEMMA InvInit == Init => IInv
  <1> SUFFICES ASSUME Init PROVE IInv
    OBVIOUS
  <1>1. TypeOK
    BY ConstantsAreNumbers, FS_EmptySet DEF Init, TypeOK, TableOK, CallsOK, HistoryOK, Times, NoEnd, Nothing,
        Administrative
  <1>2. \A p \in Proposals : For(p, "YES", votes) = {} /\ For(p, "NO", votes) = {}
    BY DEF Init, For
  <1>3. Power({}) \in Nat
    BY SumOfNone DEF Power
  <1>4. LeadsAreSeen
    BY <1>2, <1>3 DEF LeadsAreSeen, PowerFor
  <1> QED
    BY <1>1, <1>4
    DEF Init, IInv, EndIsKnown, OneVotePerVoter, TalliesAreLowerBounds, LowerBounds, QuorumIsMet,
        PassedHasLed, OverlapIsSeen, StatusIsCurrent, Administrative, Counting

\* Every step keeps the invariant.
LEMMA InvStep == IInv /\ [Next]_vars => IInv'
  <1> SUFFICES ASSUME IInv, [Next]_vars PROVE IInv'
    OBVIOUS
  <1>1. TypeOK'
    BY TableStep, CallsStep, HistoryStep DEF IInv, TypeOK
  <1>2. EndIsKnown' /\ OneVotePerVoter' /\ TalliesAreLowerBounds' /\ LeadsAreSeen'
    BY EndStep, OneVoteStep, TallyStep, LeadsStep DEF IInv
  <1>3. QuorumIsMet' /\ PassedHasLed' /\ OverlapIsSeen' /\ StatusIsCurrent'
    BY OutcomeStep, OverlapStep, CurrentStep DEF IInv
  <1> QED
    BY <1>1, <1>2, <1>3 DEF IInv

\* The invariant holds in every reachable state.
THEOREM Invariant == Spec => []IInv
  BY InvInit, InvStep, PTL DEF Spec

\* Type correctness.
THEOREM TypeCorrect == Spec => []TypeOK
  <1>1. IInv => TypeOK
    BY DEF IInv
  <1> QED
    BY Invariant, <1>1, PTL

\* However many calls of a voter run at once, one vote is recorded
\* (submit_user_vote and the constraint unique_voter_proposal).
THEOREM OneVote == Spec => []OneVotePerVoter
  <1>1. IInv => OneVotePerVoter
    BY DEF IInv
  <1> QED
    BY Invariant, <1>1, PTL

\* What passes has its quorum, whatever commits between the three sums of
\* evaluate_proposal_results (lines 269-282).
THEOREM QuorumsAreMet == Spec => []QuorumIsMet
  <1>1. IInv => QuorumIsMet
    BY DEF IInv
  <1> QED
    BY Invariant, <1>1, PTL

\* What passes has led when its NO votes were summed, although more may have
\* committed since (lines 269-272 and 288).
THEOREM PassingIsEarned == Spec => []PassedHasLed
  <1>1. IInv => PassedHasLed
    BY DEF IInv
  <1> QED
    BY Invariant, <1>1, PTL

\* Decisions are final as long as administrative calls do not overlap.
THEOREM DecisionsAreFinal == Spec => DecidedIsFinal
  <1>1. IInv /\ [Next]_vars => DecisionStands
    BY FinalStep DEF IInv
  <1>2. DecisionStands =>
          (\A p \in Proposals : status[p] \in Decided /\ p \notin overlapped => status'[p] = status[p])
    BY DEF DecisionStands
  <1> QED
    BY Invariant, <1>1, <1>2, PTL DEF Spec, DecidedIsFinal
=============================================================================
