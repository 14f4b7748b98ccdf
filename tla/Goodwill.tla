------------------------------ MODULE Goodwill ------------------------------
(***************************************************************************)
(* Goodwill actions among the records: their submission                    *)
(* (systems/goodwill_system.py) and the history of a user, page by page    *)
(* (services/goodwill_service.py), while accounts and rows come and go.    *)
(***************************************************************************)
EXTENDS Records

CONSTANTS
  PerPage        \* per_page of get_user_history

ASSUME GoodwillAssumption == PerPage \in Nat \ {0}

VARIABLES
  pending,       \* the submissions whose transaction is open
  reading        \* a user's history being read, page by page

goodwillVars == <<recordsVars, pending, reading>>

Idle == [at |-> "idle"]

GoodwillInit == RecordsInit /\ pending = {} /\ reading = Idle

-----------------------------------------------------------------------------
(* submit_and_queue_goodwill_action                                        *)

ActionRow(u) == [table |-> "goodwill_actions", refs |-> [performer_user_id |-> u]]

\* The user is read without a lock.  created_at is the time the transaction
\* begins.
Submit(u) ==
  /\ pending = {}        \* bound
  /\ u \in accounts
  /\ NextStamp("goodwill_actions")
  /\ pending' = pending \union {[id |-> stamp + 1, user |-> u]}
  /\ UNCHANGED <<vars, stored, reading>>

SubmitStored(p) ==
  /\ p \in pending
  /\ WithinLimits(made, stamp, {"goodwill_actions"})
  /\ Insert(p.id, ActionRow(p.user))
  /\ pending' = pending \ {p}
  /\ UNCHANGED <<vars, stamp, reading>>

\* The account is gone, or the scope is left by another exception.
SubmitFails(p) ==
  /\ p \in pending
  /\ pending' = pending \ {p}
  /\ UNCHANGED <<recordsVars, reading>>

-----------------------------------------------------------------------------
(* get_user_summary, get_user_history                                      *)

ActionsOf(u) ==
  {i \in DOMAIN stored : stored[i].table = "goodwill_actions" /\ stored[i].refs.performer_user_id = u}

\* The page of the newest first: those with so many newer ones.
PageOf(u, page) ==
  {i \in ActionsOf(u) :
     (page - 1) * PerPage <= Cardinality({j \in ActionsOf(u) : j > i})
     /\ Cardinality({j \in ActionsOf(u) : j > i}) < page * PerPage}

\* Faulty variant: an incomplete page does not count.
FullPages(count) == count \div PerPage

TotalPages(count) == (count + PerPage - 1) \div PerPage

\* The first statement of get_user_history counts.
StartReading(u) ==
  /\ reading = Idle
  /\ ActionsOf(u) # {}
  /\ reading' = [at |-> "counted", user |-> u, page |-> 1, counted |-> ActionsOf(u),
                 wanted |-> ActionsOf(u), shown |-> {}]
  /\ UNCHANGED <<recordsVars, pending>>

\* The second one fetches the page; another transaction may have committed
\* between the two.
FetchPage ==
  /\ reading.at = "counted"
  /\ reading' = [reading EXCEPT !.at = "fetched",
                                !.shown = @ \union PageOf(reading.user, reading.page)]
  /\ UNCHANGED <<recordsVars, pending>>

IsLastPage(r) == r.page >= TotalPages(Cardinality(r.counted))

\* The client asks for the next page while there is one.
AskForNextPage ==
  /\ reading.at = "fetched" /\ ~IsLastPage(reading)
  /\ reading' = [reading EXCEPT !.at = "counted", !.page = @ + 1,
                                !.counted = ActionsOf(reading.user)]
  /\ UNCHANGED <<recordsVars, pending>>

StopReading ==
  /\ reading.at = "fetched" /\ IsLastPage(reading)
  /\ reading' = Idle
  /\ UNCHANGED <<recordsVars, pending>>

-----------------------------------------------------------------------------
RecordsStep == RecordsNext /\ UNCHANGED <<pending, reading>>

GoodwillNext ==
  \/ RecordsStep
  \/ \E u \in Users : Submit(u) \/ StartReading(u)
  \/ \E p \in pending : SubmitStored(p) \/ SubmitFails(p)
  \/ FetchPage \/ AskForNextPage \/ StopReading

GoodwillSpec == GoodwillInit /\ [][GoodwillNext]_goodwillVars

-----------------------------------------------------------------------------
(* Properties                                                              *)

\* A client that has been shown the last page has missed no more of the actions
\* that were there when the reading began and still are than were committed
\* between the count of that page and its cut, and the oldest only: what is
\* stored before, between two pages, costs none (get_user_history, lines
\* 166-192).
HistoryLosesOnlyOvertaken ==
  [][reading.at = "counted" /\ reading'.at = "fetched" /\ IsLastPage(reading) =>
       LET there == reading.wanted \intersect ActionsOf(reading.user)
           missed == there \ reading'.shown
           late == ActionsOf(reading.user) \ reading.counted
       IN  /\ Cardinality(missed) <= Cardinality(late)
           /\ \A i \in missed, j \in there \ missed : i < j]_goodwillVars
=============================================================================
