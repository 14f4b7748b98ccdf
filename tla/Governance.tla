----------------------------- MODULE Governance -----------------------------
(***************************************************************************)
(* Proposals and quadratic votes:                                          *)
(* peoples_coin/services/governance_service.py.                            *)
(*                                                                         *)
(* A call reads a proposal, decides, and writes in the same READ COMMITTED *)
(* transaction without having locked the row: whatever other calls commit  *)
(* in between, its UPDATE goes through.  A step is a statement that reads, *)
(* or the flush and commit at the end.  Creating, opening, closing and     *)
(* evaluating have no single caller in the repository, so that any caller  *)
(* may do them at any time.                                                *)
(***************************************************************************)
EXTENDS Sums

CONSTANTS
  Callers,             \* concurrent calls of the service
  Proposals, Voters,
  Balance,             \* user_accounts.balance, by voter
  Root,                \* by vote_weight: its square root, as the column stores it
  Quorums,             \* required_quorum times the eligible power, in votes' power
  Durations,           \* durations a call may ask for, in days
  DEFAULT_DURATION,    \* 7 days
  Vocabularies,        \* what the status column can store; see Storable
  MaxTime              \* bound on the clock

VALID_VOTE_CHOICES == {"YES", "NO", "ABSTAIN"}
Weights == DOMAIN Root
Vote == [proposal : Proposals, voter : Voters, choice : VALID_VOTE_CHOICES, weight : Weights]

actual_vote_power == [v \in Vote |-> Root[v.weight]]

\* The sum of actual_vote_power over a set of votes.
Power(S) == SumOver(actual_vote_power, S)

\* Powers are square roots of positive weights.
ASSUME GovernanceAssumption ==
  /\ Root \in [Weights -> Nat]
  /\ Quorums \subseteq Nat
  /\ Durations \subseteq Nat /\ DEFAULT_DURATION \in Nat
  /\ MaxTime \in Nat
  /\ Vocabularies \subseteq {"schema", "service"}

VARIABLES
  vocabulary,          \* the status column of this deployment
  now,
  status,              \* proposals.status; "absent" before the row is there
  vote_end,            \* proposals.vote_end_time
  quorum,              \* proposals.required_quorum
  votes,               \* the table votes
  pc,                  \* where a call is
  target,              \* the proposal it loaded
  ballot,              \* the vote it is about to insert
  until,               \* the vote_end_time it is about to write
  tally,               \* the sums it has read
  led,                 \* history: proposals whose YES power has exceeded NO
  overlapped           \* history: proposals with two administrative calls at once

table == <<status, vote_end, quorum, votes>>
callVars == <<pc, target, ballot, until, tally>>
history == <<led, overlapped>>
vars == <<vocabulary, now, table, callVars, history>>

Times == 0 .. MaxTime
NoEnd == -1
NoProposal == "no proposal"
NoVote == [proposal |-> NoProposal, voter |-> "no voter", choice |-> "none", weight |-> 0]
Nothing == [x \in VALID_VOTE_CHOICES |-> 0]

Decided == {"PASSED", "FAILED"}

\* The enumeration proposal_status of schema.sql and models/proposal.py shares
\* only DRAFT with the words the service uses.
Storable(s) == vocabulary = "service" \/ s = "DRAFT"

Counting == {"count1", "count2", "count3"}
Administrative == {"open", "close", "evaluate", "decide"} \union Counting

TableOK ==
  /\ vocabulary \in Vocabularies
  /\ now \in Times
  /\ status \in [Proposals -> {"absent", "DRAFT", "VOTING"} \union Decided]
  /\ vote_end \in [Proposals -> Nat \union {NoEnd}]
  /\ \A p \in Proposals : status[p] \notin {"absent", "DRAFT"} => vote_end[p] \in Nat
  /\ quorum \in [Proposals -> Quorums \union {0}]
  /\ votes \subseteq Vote /\ IsFiniteSet(votes)

CallsOK ==
  /\ pc \in [Callers -> {"idle", "check", "insert"} \union Administrative]
  /\ target \in [Callers -> Proposals \union {NoProposal}]
  /\ ballot \in [Callers -> Vote \union {NoVote}]
  /\ until \in [Callers -> Nat \union {NoEnd}]
  /\ tally \in [Callers -> [VALID_VOTE_CHOICES -> Nat]]
  /\ \A c \in Callers :
       /\ pc[c] # "idle" => target[c] \in Proposals
       /\ pc[c] \in {"check", "insert"} => ballot[c] \in Vote /\ ballot[c].proposal = target[c]
       /\ pc[c] = "close" => until[c] \in Nat

HistoryOK == led \subseteq Proposals /\ overlapped \subseteq Proposals

TypeOK == TableOK /\ CallsOK /\ HistoryOK

Init ==
  /\ vocabulary \in Vocabularies
  /\ now = 0
  /\ status = [p \in Proposals |-> "absent"]
  /\ vote_end = [p \in Proposals |-> NoEnd]
  /\ quorum = [p \in Proposals |-> 0]
  /\ votes = {}
  /\ pc = [c \in Callers |-> "idle"]
  /\ target = [c \in Callers |-> NoProposal]
  /\ ballot = [c \in Callers |-> NoVote]
  /\ until = [c \in Callers |-> NoEnd]
  /\ tally = [c \in Callers |-> Nothing]
  /\ led = {}
  /\ overlapped = {}

Tick ==
  /\ now < MaxTime
  /\ now' = now + 1
  /\ UNCHANGED <<vocabulary, table, callVars, history>>

-----------------------------------------------------------------------------
(* Calls and their ends.                                                   *)

\* A call that found what it needs goes on at "at", with b and e in hand.
Begin(c, p, at, b, e) ==
  /\ pc[c] = "idle"
  /\ pc' = [pc EXCEPT ![c] = at]
  /\ target' = [target EXCEPT ![c] = p]
  /\ ballot' = [ballot EXCEPT ![c] = b]
  /\ until' = [until EXCEPT ![c] = e]
  /\ UNCHANGED <<vocabulary, now, table, tally, led>>

\* History: another administrative call on the proposal is on its way.
Administer(c, p) ==
  overlapped' = IF \E d \in Callers \ {c} : target[d] = p /\ pc[d] \in Administrative
                THEN overlapped \union {p} ELSE overlapped

End(c) ==
  /\ pc' = [pc EXCEPT ![c] = "idle"]
  /\ target' = [target EXCEPT ![c] = NoProposal]
  /\ ballot' = [ballot EXCEPT ![c] = NoVote]
  /\ until' = [until EXCEPT ![c] = NoEnd]
  /\ tally' = [tally EXCEPT ![c] = Nothing]
  /\ UNCHANGED <<vocabulary, now, overlapped>>

\* The database or the process fails: the open transaction is rolled back.
Fails(c) == pc[c] # "idle" /\ End(c) /\ UNCHANGED <<table, led>>

-----------------------------------------------------------------------------
(* create_new_proposal, open_voting, close_voting                          *)

CreateNewProposal(p, d, q) ==
  /\ status[p] = "absent"
  /\ status' = [status EXCEPT ![p] = "DRAFT"]
  /\ vote_end' = [vote_end EXCEPT ![p] = IF d = 0 THEN NoEnd ELSE now + d]
  /\ quorum' = [quorum EXCEPT ![p] = q]
  /\ UNCHANGED <<vocabulary, now, votes, callVars, history>>

\* Without a duration, the end set at the creation stays, even if it is over.
OpenVoting(c, p, d) ==
  /\ status[p] = "DRAFT"
  /\ Begin(c, p, "open", NoVote,
           IF d # NoEnd THEN now + d
           ELSE IF vote_end[p] = NoEnd THEN now + DEFAULT_DURATION ELSE NoEnd)
  /\ Administer(c, p)

\* The flush fails if the column does not know the word.
Opened(c) ==
  LET p == target[c] IN
  /\ pc[c] = "open"
  /\ Storable("VOTING")
  /\ status' = [status EXCEPT ![p] = "VOTING"]
  /\ vote_end' = [vote_end EXCEPT ![p] = IF until[c] = NoEnd THEN @ ELSE until[c]]
  /\ End(c)
  /\ UNCHANGED <<quorum, votes, led>>

CloseVoting(c, p) ==
  /\ status[p] = "VOTING"
  /\ Begin(c, p, "close", NoVote, now)
  /\ Administer(c, p)

\* The evaluation that follows is a transaction of its own.
Closed(c) ==
  /\ pc[c] = "close"
  /\ vote_end' = [vote_end EXCEPT ![target[c]] = until[c]]
  /\ pc' = [pc EXCEPT ![c] = "evaluate"]
  /\ UNCHANGED <<vocabulary, now, status, quorum, votes, target, ballot, until, tally, history>>

-----------------------------------------------------------------------------
(* submit_user_vote                                                        *)

SubmitVote(c, b) ==
  LET p == b.proposal IN
  /\ status[p] = "VOTING"
  /\ vote_end[p] # NoEnd => now <= vote_end[p]
  /\ Balance[b.voter] >= b.weight
  /\ Begin(c, p, "check", b, NoEnd)
  /\ UNCHANGED overlapped

Cast(p, u) == {v \in votes : v.proposal = p /\ v.voter = u}

\* A voter with a vote is refused in any case; here or by the constraint.
NotVoted(c) ==
  /\ pc[c] = "check"
  /\ Cast(target[c], ballot[c].voter) = {}
  /\ pc' = [pc EXCEPT ![c] = "insert"]
  /\ UNCHANGED <<vocabulary, now, table, target, ballot, until, tally, history>>

\* The votes for a choice, and how much they weigh.
For(p, x, S) == {v \in S : v.proposal = p /\ v.choice = x}
PowerFor(p, x) == Power(For(p, x, votes))

Inserted(c) ==
  /\ votes' = votes \union {ballot[c]}
  /\ LET ahead == {p \in Proposals : Power(For(p, "YES", votes')) > Power(For(p, "NO", votes'))}
     IN  led' = led \union ahead
  /\ End(c)
  /\ UNCHANGED <<status, vote_end, quorum>>

\* Faulty variant: the table has no constraint.
InsertVoteUnconstrained(c) == pc[c] = "insert" /\ Inserted(c)

\* UNIQUE (voter_user_id, proposal_id) refuses a second vote.
InsertVote(c) ==
  /\ pc[c] = "insert"
  /\ Cast(target[c], ballot[c].voter) = {}
  /\ Inserted(c)

-----------------------------------------------------------------------------
(* evaluate_proposal_results                                               *)

\* Faulty variant: the status is not looked at.
ReadyUnchecked(p) == status[p] # "absent" /\ (vote_end[p] # NoEnd => now >= vote_end[p])

Ready(p) == status[p] = "VOTING" /\ (vote_end[p] # NoEnd => now >= vote_end[p])

EvaluateProposal(c, p) ==
  /\ Ready(p)
  /\ Begin(c, p, "count1", NoVote, NoEnd)
  /\ Administer(c, p)

\* The same, called by close_voting.
EvaluateClosed(c) ==
  /\ pc[c] = "evaluate"
  /\ Ready(target[c])
  /\ pc' = [pc EXCEPT ![c] = "count1"]
  /\ UNCHANGED <<vocabulary, now, table, target, ballot, until, tally, history>>

\* Faulty variant: the NO votes are counted first.
SumNoFirst == [count1 |-> "NO", count2 |-> "YES", count3 |-> "ABSTAIN"]

\* The order of the three queries.
Sum == [count1 |-> "YES", count2 |-> "NO", count3 |-> "ABSTAIN"]

\* Each sees what is committed when it runs.
Count(c, at, next) ==
  /\ pc[c] = at
  /\ tally' = [tally EXCEPT ![c][Sum[at]] = PowerFor(target[c], Sum[at])]
  /\ pc' = [pc EXCEPT ![c] = next]
  /\ UNCHANGED <<vocabulary, now, table, target, ballot, until, history>>

QuorumMet(t, q) == t["YES"] + t["NO"] + t["ABSTAIN"] >= q

\* Faulty variant: the quorum is only looked at when a proposal failed.
OutcomeWithoutQuorum(t, q) == IF t["YES"] > t["NO"] THEN "PASSED" ELSE "FAILED"

Outcome(t, q) == IF QuorumMet(t, q) /\ t["YES"] > t["NO"] THEN "PASSED" ELSE "FAILED"

Decide(c) ==
  LET p == target[c] IN
  /\ pc[c] = "decide"
  /\ status' = [status EXCEPT ![p] = Outcome(tally[c], quorum[p])]
  /\ End(c)
  /\ UNCHANGED <<vote_end, quorum, votes, led>>

-----------------------------------------------------------------------------
CallNext(c) ==
  \/ \E p \in Proposals : \/ \E d \in Durations \union {NoEnd} : OpenVoting(c, p, d)
                          \/ CloseVoting(c, p)
                          \/ EvaluateProposal(c, p)
  \/ \E b \in Vote : SubmitVote(c, b)
  \/ Opened(c) \/ Closed(c)
  \/ NotVoted(c) \/ InsertVote(c)
  \/ EvaluateClosed(c)
  \/ Count(c, "count1", "count2") \/ Count(c, "count2", "count3") \/ Count(c, "count3", "decide")
  \/ Decide(c)
  \/ Fails(c)

Next ==
  \/ Tick
  \/ \E p \in Proposals, d \in Durations, q \in Quorums : CreateNewProposal(p, d, q)
  \/ \E c \in Callers : CallNext(c)

Spec == Init /\ [][Next]_vars

-----------------------------------------------------------------------------
(* Properties.                                                             *)

\* Nobody has two votes on a proposal, although two calls may both find that
\* there is none yet (line 178).
OneVotePerVoter ==
  \A v, w \in votes : v.proposal = w.proposal /\ v.voter = w.voter => v = w

\* A proposal passes only if the votes on it reach its quorum, although they
\* are summed in three queries between which votes commit (lines 269-282).
QuorumIsMet ==
  \A p \in Proposals : status[p] = "PASSED" =>
    PowerFor(p, "YES") + PowerFor(p, "NO") + PowerFor(p, "ABSTAIN") >= quorum[p]

\* A proposal passes only if at some moment the committed YES power exceeded
\* the NO power: the order of the queries makes a torn count err towards
\* rejection (lines 269-272 and 288).
PassedHasLed == \A p \in Proposals : status[p] = "PASSED" => p \in led

\* A decision is final, whatever votes are still on their way, unless two
\* administrative calls on the proposal have overlapped: the status is written
\* without a look at what it is by then (lines 119, 283, 289 and 294).
DecidedIsFinal ==
  [][\A p \in Proposals :
       status[p] \in Decided /\ p \notin overlapped => status'[p] = status[p]]_vars
=============================================================================
