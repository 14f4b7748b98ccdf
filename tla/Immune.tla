------------------------------- MODULE Immune -------------------------------
(***************************************************************************)
(* The in-memory immune system: peoples_coin/systems/immune_system.py.     *)
(* Web threads and the cleaner thread share the blacklist, the greylist    *)
(* and the rate-limit deques under one threading.Lock, which its holder    *)
(* cannot take a second time.                                              *)
(*                                                                         *)
(* A step is one critical section.  Each reads the clock before it waits   *)
(* for the lock, so that the time it works with is anything between the    *)
(* end of the thread's last step and now.                                  *)
(***************************************************************************)
EXTENDS Sequences, Sums

CONSTANTS
  Threads,        \* web threads
  Clients,        \* who sends requests: [user, key, address]
  MAX_REQUESTS,   \* IMMUNE_MAX_REQUESTS_PER_WINDOW
  WINDOW,         \* IMMUNE_RATE_LIMIT_WINDOW_SEC
  MAX_INVALID,    \* IMMUNE_MAX_INVALID_ATTEMPTS
  DECAY,          \* IMMUNE_BLACKLIST_DECAY_SEC
  QUARANTINE,     \* IMMUNE_QUARANTINE_TIME_SEC
  MaxTime,        \* bound on the clock
  MaxQueue        \* bound: no check of a client starts with this many requests queued

Nobody == "nobody"
Cleaner == "cleaner"

\* A threshold of 0 would ban at the first attempt, as 1 does.
ASSUME ImmuneAssumption ==
  /\ {MAX_REQUESTS, WINDOW, DECAY, QUARANTINE, MaxTime} \subseteq Nat
  /\ {MAX_INVALID, MaxQueue} \subseteq Nat \ {0}
  /\ IsFiniteSet(Threads) /\ Nobody \notin Threads

VARIABLES
  clock,
  cleaning,       \* whether this process has the cleaner thread
  lock,           \* _in_memory_lock: its holder between two steps, or Nobody
  pc, client,     \* what a thread waits to do, and for whom
  since,          \* when a busy thread, or the cleaner, ended its last step
  blacklist,      \* expiry, 0 if absent
  greylist,       \* count and last_seen
  rate_limits,    \* timestamps of the counted requests, in the order they were counted
  admitted,       \* history: how many requests check let through, by timestamp
  ends, waited    \* history: the latest end given to a ban that still runs, and
                  \* the longest wait of a ban meanwhile, from its call to its lock

vars == <<clock, cleaning, lock, pc, client, since, blacklist, greylist, rate_limits, admitted,
          ends, waited>>

None == "none"
NoAttempts == [count |-> 0, last_seen |-> 0]
Times == 0 .. MaxTime

\* _get_identifier: an address counts only for who has neither user nor key.
Identifier(r) ==
  CASE r.user # None -> <<"user", r.user>>
    [] r.user = None /\ r.key # None -> <<"api_key", r.key>>
    [] OTHER -> <<"ip", r.address>>

Ids == {Identifier(r) : r \in Clients}

TypeOK ==
  /\ clock \in Times
  /\ cleaning \in BOOLEAN
  /\ lock \in Threads \union {Nobody}
  /\ pc \in [Threads -> {"idle", "checking", "reporting", "limiting", "counting", "banning"}]
  /\ client \in [Threads -> Ids]
  /\ since \in [Threads \union {Cleaner} -> Times]
  /\ blacklist \in [Ids -> 0 .. MaxTime + DECAY]
  /\ greylist \in [Ids -> [count : 0 .. MAX_INVALID, last_seen : Times]]
  /\ rate_limits \in [Ids -> Seq(Times)]
  /\ \A i \in Ids : Len(rate_limits[i]) < MaxQueue + Cardinality(Threads)
  /\ admitted \in [Ids -> [Times -> Nat]]
  /\ ends \in [Ids -> 0 .. MaxTime + DECAY]
  /\ waited \in [Ids -> Times]

\* start, called by create_app.  In a worker that was forked from the process
\* that called it the thread object is there, the thread is not.
StartCleaner(forked) == cleaning = ~forked

Init ==
  /\ clock = 0
  /\ \E forked \in BOOLEAN : StartCleaner(forked)
  /\ lock = Nobody
  /\ pc = [t \in Threads |-> "idle"]
  /\ client \in [Threads -> Ids]
  /\ since = [t \in Threads \union {Cleaner} |-> 0]
  /\ blacklist = [i \in Ids |-> 0]
  /\ greylist = [i \in Ids |-> NoAttempts]
  /\ rate_limits = [i \in Ids |-> <<>>]
  /\ admitted = [i \in Ids |-> [n \in Times |-> 0]]
  /\ ends = [i \in Ids |-> 0]
  /\ waited = [i \in Ids |-> 0]

Tick ==
  /\ clock < MaxTime
  /\ clock' = clock + 1
  /\ ends' = [i \in Ids |-> IF ends[i] > clock + 1 THEN ends[i] ELSE 0]
  /\ waited' = [i \in Ids |-> IF ends[i] > clock + 1 THEN waited[i] ELSE 0]
  /\ UNCHANGED <<cleaning, lock, pc, client, since, blacklist, greylist, rate_limits, admitted>>

\* The times time.time() may have returned to a thread that now has the lock.
Nows(t) == since[t] .. clock

Goto(t, label) ==
  /\ pc' = [pc EXCEPT ![t] = label]
  /\ since' = [since EXCEPT ![t] = IF label = "idle" THEN 0 ELSE clock]

\* A request to a protected route, a failed attempt, or a direct ban.
Start(t, r, label) ==
  /\ pc[t] = "idle"
  /\ label = "checking" => Len(rate_limits[Identifier(r)]) < MaxQueue
  /\ client' = [client EXCEPT ![t] = Identifier(r)]
  /\ Goto(t, label)
  /\ UNCHANGED <<clock, cleaning, lock, blacklist, greylist, rate_limits, admitted, ends, waited>>

\* is_blacklisted: a listed client is denied, or its attempt is not counted.
Listed(t) ==
  /\ pc[t] \in {"checking", "reporting"}
  /\ lock = Nobody
  /\ \E now \in Nows(t) : blacklist[client[t]] > now
  /\ Goto(t, "idle")
  /\ UNCHANGED <<clock, cleaning, lock, client, blacklist, greylist, rate_limits, admitted, ends, waited>>

\* is_blacklisted: an expired entry is removed.
NotListed(t) ==
  /\ pc[t] \in {"checking", "reporting"}
  /\ lock = Nobody
  /\ \E now \in Nows(t) : blacklist[client[t]] <= now
  /\ blacklist' = [blacklist EXCEPT ![client[t]] = 0]
  /\ Goto(t, IF pc[t] = "checking" THEN "limiting" ELSE "counting")
  /\ UNCHANGED <<clock, cleaning, lock, client, greylist, rate_limits, admitted, ends, waited>>

\* popleft while the head is not after the cutoff: later entries may be
\* older than the head.
PopExpired(q, cutoff) ==
  LET kept == {k \in 1 .. Len(q) : q[k] > cutoff} IN
    IF kept = {} THEN <<>>
    ELSE SubSeq(q, CHOOSE k \in kept : \A l \in kept : k <= l, Len(q))

\* Faulty variant: the limit is checked before the request is counted.
CountRequestLate(t) ==
  LET i == client[t] IN
    /\ pc[t] = "limiting"
    /\ lock = Nobody
    /\ \E now \in Nows(t) :
         LET fresh == PopExpired(rate_limits[i], now - WINDOW) IN
           /\ rate_limits' = [rate_limits EXCEPT ![i] = Append(fresh, now)]
           /\ admitted' = [admitted EXCEPT ![i][now] = @ + (IF Len(fresh) <= MAX_REQUESTS THEN 1 ELSE 0)]
    /\ Goto(t, "idle")
    /\ UNCHANGED <<clock, cleaning, lock, client, blacklist, greylist, ends, waited>>

\* _is_rate_limited, and the answer of check: a rejected request is counted too.
CountRequest(t) ==
  LET i == client[t] IN
    /\ pc[t] = "limiting"
    /\ lock = Nobody
    /\ \E now \in Nows(t) :
         LET queue == Append(PopExpired(rate_limits[i], now - WINDOW), now) IN
           /\ rate_limits' = [rate_limits EXCEPT ![i] = queue]
           /\ admitted' = [admitted EXCEPT ![i][now] = @ + (IF Len(queue) <= MAX_REQUESTS THEN 1 ELSE 0)]
    /\ Goto(t, "idle")
    /\ UNCHANGED <<clock, cleaning, lock, client, blacklist, greylist, ends, waited>>

\* Faulty variant: one attempt too many before the client is banned.
RecordAttemptLate(t) ==
  LET i == client[t]
      reached == greylist[i].count + 1 > MAX_INVALID
  IN
    /\ pc[t] = "counting"
    /\ lock = Nobody
    /\ greylist' = [greylist EXCEPT ![i] = [count |-> @.count + 1, last_seen |-> clock]]
    /\ lock' = IF reached THEN t ELSE Nobody
    /\ Goto(t, IF reached THEN "banning" ELSE "idle")
    /\ UNCHANGED <<clock, cleaning, client, blacklist, rate_limits, admitted, ends, waited>>

\* record_invalid_attempt.  At the threshold it calls add_to_blacklist inside
\* its own critical section; what would follow that call is never reached.
RecordAttempt(t) ==
  LET i == client[t]
      reached == greylist[i].count + 1 >= MAX_INVALID
  IN
    /\ pc[t] = "counting"
    /\ lock = Nobody
    /\ greylist' = [greylist EXCEPT ![i] = [count |-> @.count + 1, last_seen |-> clock]]
    /\ lock' = IF reached THEN t ELSE Nobody
    /\ Goto(t, IF reached THEN "banning" ELSE "idle")
    /\ UNCHANGED <<clock, cleaning, client, blacklist, rate_limits, admitted, ends, waited>>

Later(a, b) == IF a >= b THEN a ELSE b

\* add_to_blacklist waits for the lock whoever holds it, and then replaces what
\* is there, with an end that was computed before it waited.
AddToBlacklist(t) ==
  LET i == client[t] IN
    /\ pc[t] = "banning"
    /\ lock = Nobody
    /\ \E now \in Nows(t) :
         LET latest == Later(ends[i], now + DECAY) IN
           /\ blacklist' = [blacklist EXCEPT ![i] = now + DECAY]
           /\ ends' = [ends EXCEPT ![i] = IF latest > clock THEN latest ELSE 0]
           /\ waited' = [waited EXCEPT ![i] =
                           IF latest > clock THEN Later(@, clock - since[t]) ELSE 0]
    /\ Goto(t, "idle")
    /\ UNCHANGED <<clock, cleaning, lock, client, greylist, rate_limits, admitted>>

\* The bans in force and the greylist once the cleaner has run at time now.
BansAt(now) == [i \in Ids |-> IF blacklist[i] <= now THEN 0 ELSE blacklist[i]]
SuspectsAt(now) ==
  [i \in Ids |-> IF now - greylist[i].last_seen > QUARANTINE THEN NoAttempts ELSE greylist[i]]

\* Faulty variant: entries about to expire are cleaned with the expired ones.
CleanEarly ==
  /\ cleaning
  /\ lock = Nobody
  /\ \E now \in Nows(Cleaner) :
       /\ blacklist' = BansAt(now + 1)
       /\ greylist' = SuspectsAt(now + 1)
       /\ rate_limits' = [i \in Ids |-> PopExpired(rate_limits[i], now + 1 - WINDOW)]
  /\ since' = [since EXCEPT ![Cleaner] = clock]
  /\ UNCHANGED <<clock, cleaning, lock, pc, client, admitted, ends, waited>>

\* One round of the cleaner thread, which wakes every ten minutes.
Clean ==
  /\ cleaning
  /\ lock = Nobody
  /\ \E now \in Nows(Cleaner) :
       /\ blacklist' = BansAt(now)
       /\ greylist' = SuspectsAt(now)
       /\ rate_limits' = [i \in Ids |-> PopExpired(rate_limits[i], now - WINDOW)]
  /\ since' = [since EXCEPT ![Cleaner] = clock]
  /\ UNCHANGED <<clock, cleaning, lock, pc, client, admitted, ends, waited>>

ThreadNext(t) ==
  \/ \E r \in Clients, label \in {"checking", "reporting", "banning"} : Start(t, r, label)
  \/ Listed(t) \/ NotListed(t) \/ CountRequest(t)
  \/ RecordAttempt(t) \/ AddToBlacklist(t)

Next == Tick \/ Clean \/ \E t \in Threads : ThreadNext(t)

Spec == Init /\ [][Next]_vars

\* A thread that can enter its critical section enters it.
FairSpec ==
  /\ Spec
  /\ \A t \in Threads : WF_vars(ThreadNext(t) /\ pc[t] # "idle")

-----------------------------------------------------------------------------
(* Properties.                                                             *)

\* At every moment, at most MAX_REQUESTS requests of a client were let through
\* with a timestamp in the last WINDOW seconds, although threads count requests
\* in another order than they read the clock and the cleaner prunes the same
\* deques (_is_rate_limited, lines 167-179).
AdmittedAreBounded ==
  \A i \in Ids : SumOver(admitted[i], {n \in Times : n > clock - WINDOW}) <= MAX_REQUESTS

\* "Blacklist an identifier for `duration` seconds" (add_to_blacklist, line
\* 142) holds only so far: a client is on the list until the latest end it was
\* given, less the longest that one of its bans waited for the lock.  That is how
\* much a ban computed before the wait can shorten a later one, because it
\* replaces what is there.  Nothing else shortens a ban: neither
\* a check nor the cleaner, whose times may be older still (lines 129-147 and
\* 205-212).
BansAreServed == \A i \in Ids : clock < ends[i] - waited[i] => blacklist[i] > clock

\* "Track a failed attempt, blacklist if threshold exceeded"
\* (record_invalid_attempt, line 150).
ThresholdBlacklists ==
  \A i \in Ids : greylist[i].count >= MAX_INVALID ~> blacklist[i] > 0
=============================================================================
