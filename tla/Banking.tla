------------------------------ MODULE Banking ------------------------------
(***************************************************************************)
(* A request through the banking plugin: the gate of                       *)
(* banking_plugin/middleware.py, the routes of banking_plugin/routes.py    *)
(* behind it, the sessions of banking_plugin/rbac.py, and the audit log    *)
(* every answer of theirs waits for.                                       *)
(*                                                                         *)
(* The nonces, the sessions and the audit log share one database.  On      *)
(* SQLite a transaction that writes takes the lock of the whole database,  *)
(* which an append holds over several statements.  On PostgreSQL the       *)
(* unique keys arbitrate; what they make fail is among the failures.       *)
(*                                                                         *)
(* A thread serves one request at a time; each is one of AuditLog's        *)
(* appenders and one of its readers.                                       *)
(***************************************************************************)
EXTENDS AuditLog, Pci

CONSTANTS
  Nonces, Tokens,      \* X-Banking-Nonce values, session tokens
  Skew,                \* max_skew_seconds
  Ttl,                 \* ttl_seconds of a session
  REQUIRE_SIGNATURE,   \* BANKING_REQUIRE_SIGNATURE
  Workloads,           \* sets of requests, one of which the clients draw from
  Sessions,            \* the sessions registered before the first request
  MaxTime              \* bound on the clock

ROLE_HIERARCHY ==
  [admin    |-> {"admin", "auditor", "teller", "customer"},
   auditor  |-> {"auditor", "customer"},
   teller   |-> {"teller", "customer"},
   customer |-> {"customer"}]

Roles == DOMAIN ROLE_HIERARCHY
Times == 0 .. MaxTime
NoSession == [role |-> "none", expires |-> 0, revoked |-> FALSE]
SessionRows == [role : Roles \union {"none"}, expires : Nat, revoked : BOOLEAN]

\* What the code reads of a request: its route; where the signature is ("none"
\* if there is none), the time and nonce it names and the bodies it is right
\* for (the gate signs the whole body, the route its payload); what its JSON body
\* holds, and names as the actor; the session token, and the session it asks for.
Requests ==
  [route : {"verify-signature", "audit-proof", "fraud-score", "roles", "other"},
   signature : {"none", "headers", "body"}, timestamp : Int, nonce : Nonces,
   signs : SUBSET {"gate", "route"}, body : SUBSET Leaves, actor : ActorForms,
   token : Tokens, grant : Tokens, role : Roles \union {"none"}]

AuditEvents ==
  {"SIGNATURE_VERIFICATION_FAILED", "PCI_DSS_VIOLATION_BLOCKED",
   "SIGNATURE_VERIFICATION", "FRAUD_ASSESSMENT"}

ASSUME BankingAssumption ==
  /\ EventTypes = AuditEvents
  /\ "text" \in ActorForms
  /\ Readers = Appenders
  /\ Skew \in Nat /\ Ttl \in Nat \ {0} /\ MaxTime \in Nat
  /\ REQUIRE_SIGNATURE \in BOOLEAN
  /\ Workloads \subseteq SUBSET Requests
  /\ Sessions \in [Tokens -> SessionRows]

VARIABLES
  clock,
  workload,
  nonces,      \* banking_nonces: expires_at, or Absent
  sessions,    \* banking_sessions by token
  request,     \* what each thread serves
  step, where, \* how far it is; whose signature check it runs
  now, seen,   \* the time it works with; the session row it has read
  entry,       \* the event it has to append before it answers
  accepted     \* history: the time of the last reservation of a nonce

threadVars == <<request, step, where, now, seen, entry>>
auditVars == vars
bankingVars == <<auditVars, clock, workload, nonces, sessions, threadVars, accepted>>

Absent == -1

Steps == {"idle", "clock", "reserve", "pci", "route", "proof", "role", "register", "append"}

BankingTypeOK ==
  /\ clock \in Times
  /\ nonces \in [Nonces -> Int]
  /\ sessions \in [Tokens -> SessionRows]
  /\ step \in [Appenders -> Steps]
  /\ where \in [Appenders -> {"gate", "route"}]
  /\ now \in [Appenders -> Times]
  /\ seen \in [Appenders -> SessionRows]
  /\ entry \in [Appenders -> Events \union {NoEvent}]
  /\ request \in [Appenders -> Requests \union {<<>>}]
  /\ \A p \in Appenders : step[p] # "idle" => request[p] \in Requests
  /\ accepted \in [Nonces -> Int]

BankingInit ==
  /\ Init
  /\ clock = 0
  /\ workload \in Workloads
  /\ nonces = [n \in Nonces |-> Absent]
  /\ sessions = Sessions
  /\ request = [p \in Appenders |-> <<>>]
  /\ step = [p \in Appenders |-> "idle"]
  /\ where = [p \in Appenders |-> "gate"]
  /\ now = [p \in Appenders |-> 0]
  /\ seen = [p \in Appenders |-> NoSession]
  /\ entry = [p \in Appenders |-> NoEvent]
  /\ accepted = [n \in Nonces |-> Absent]

\* BEGIN IMMEDIATE waits for the write lock of SQLite.
MayWrite == dialect = "sqlite" => lock = Nobody

GoTo(p, s) == step' = [step EXCEPT ![p] = s]

\* The answer, or the exception that the application turns into a 500.
Done(p) ==
  /\ GoTo(p, "idle")
  /\ request' = [request EXCEPT ![p] = <<>>]
  /\ where' = [where EXCEPT ![p] = "gate"]
  /\ now' = [now EXCEPT ![p] = 0]
  /\ seen' = [seen EXCEPT ![p] = NoSession]
  /\ entry' = [entry EXCEPT ![p] = NoEvent]

\* The answer waits for an event of this type, whose actor is in this form.
AnswerAfter(p, type, actor) ==
  GoTo(p, "append") /\ entry' = [entry EXCEPT ![p] = [type |-> type, actor |-> actor]]

-----------------------------------------------------------------------------
(* before_request, and verify_request_signature wherever it is called      *)

\* A request without the trace header that BANKING_REQUIRE_TRACE wants is
\* answered 400 and changes nothing.
Arrive(p, r) ==
  /\ step[p] = "idle"
  /\ request' = [request EXCEPT ![p] = r]
  /\ GoTo(p, IF REQUIRE_SIGNATURE \/ r.signature = "headers" THEN "clock" ELSE "pci")
  /\ UNCHANGED <<auditVars, clock, workload, nonces, sessions, where, now, seen, entry, accepted>>

Verified(p, valid) ==
  CASE where[p] = "gate" /\ valid -> GoTo(p, "pci") /\ UNCHANGED entry
    [] where[p] = "gate" /\ ~valid -> AnswerAfter(p, "SIGNATURE_VERIFICATION_FAILED", "text")
    [] OTHER -> AnswerAfter(p, "SIGNATURE_VERIFICATION", request[p].actor)

\* The gate reads the headers, the route the headers or else the body.
Carried(r, w) == r.signature = "headers" \/ (r.signature = "body" /\ w = "route")

\* A signature is there, names a time within the skew and is right.
Plausible(r, w) ==
  /\ Carried(r, w)
  /\ clock - r.timestamp <= Skew /\ r.timestamp - clock <= Skew
  /\ w \in r.signs

ReadClock(p) ==
  /\ step[p] = "clock"
  /\ IF Plausible(request[p], where[p])
     THEN /\ now' = [now EXCEPT ![p] = clock]
          /\ GoTo(p, "reserve")
          /\ UNCHANGED entry
     ELSE Verified(p, FALSE) /\ UNCHANGED now
  /\ UNCHANGED <<auditVars, clock, workload, nonces, sessions, request, where, seen, accepted>>

\* Faulty variant: what expires within the skew is deleted as well.
DeletedEarly(t) == [n \in Nonces |-> IF nonces[n] <= t + Skew THEN Absent ELSE nonces[n]]

\* DELETE FROM banking_nonces WHERE expires_at <= t
Deleted(t) == [n \in Nonces |-> IF nonces[n] <= t THEN Absent ELSE nonces[n]]

\* The deletion and the insertion under the unique key are one transaction,
\* with the time read before it waited for its locks.
Reserve(p) ==
  LET n == request[p].nonce IN
    /\ step[p] = "reserve"
    /\ MayWrite
    /\ Deleted(now[p])[n] = Absent
    /\ nonces' = [Deleted(now[p]) EXCEPT ![n] = now[p] + Skew]
    /\ accepted' = [accepted EXCEPT ![n] = now[p]]
    /\ Verified(p, TRUE)
    /\ UNCHANGED <<auditVars, clock, workload, sessions, request, where, now, seen>>

\* The nonce is there, or the store fails: nothing of the transaction stays.
Refuse(p) ==
  /\ step[p] = "reserve"
  /\ Verified(p, FALSE)
  /\ UNCHANGED <<auditVars, clock, workload, nonces, sessions, request, where, now, seen, accepted>>

CheckPCI(p) ==
  /\ step[p] = "pci"
  /\ IF Compliant(request[p].body)
     THEN GoTo(p, "route") /\ UNCHANGED entry
     ELSE AnswerAfter(p, "PCI_DSS_VIOLATION_BLOCKED", "text")
  /\ UNCHANGED <<auditVars, clock, workload, nonces, sessions, request, where, now, seen, accepted>>

-----------------------------------------------------------------------------
(* The routes                                                              *)

\* Checks the signature again, whether or not the gate has.
VerifySignature(p) ==
  /\ step[p] = "route" /\ request[p].route = "verify-signature"
  /\ GoTo(p, "clock")
  /\ where' = [where EXCEPT ![p] = "route"]
  /\ UNCHANGED <<auditVars, clock, workload, nonces, sessions, request, now, seen, entry, accepted>>

\* The assessment itself is module Fraud's.
FraudScore(p) ==
  /\ step[p] = "route" /\ request[p].route = "fraud-score"
  /\ AnswerAfter(p, "FRAUD_ASSESSMENT", "text")
  /\ UNCHANGED <<auditVars, clock, workload, nonces, sessions, request, where, now, seen, accepted>>

\* audit_proof: the snapshot and its verification are two reads.
AuditProof(p) ==
  /\ request[p] # <<>> /\ request[p].route = "audit-proof"
  /\ \/ step[p] = "route" /\ TakeSnapshot(p) /\ GoTo(p, "proof")
        /\ UNCHANGED <<request, where, now, seen, entry>>
     \/ step[p] = "proof" /\ VerifyIntegrity(p) /\ Done(p)
  /\ UNCHANGED <<clock, workload, nonces, sessions, accepted>>

\* A route that changes nothing here, or that rejects the request's form.
OtherRoute(p) ==
  /\ step[p] = "route" /\ request[p].route \in {"fraud-score", "other"}
  /\ Done(p)
  /\ UNCHANGED <<auditVars, clock, workload, nonces, sessions, accepted>>

\* require_role: the row is read in a transaction of its own ...
Lookup(p) ==
  /\ step[p] = "route" /\ request[p].route = "roles"
  /\ seen' = [seen EXCEPT ![p] = sessions[request[p].token]]
  /\ GoTo(p, "role")
  /\ UNCHANGED <<auditVars, clock, workload, nonces, sessions, request, where, now, entry, accepted>>

Live(row, t) == row.role \in Roles /\ ~row.revoked /\ t < row.expires
IsAdmin(row, t) == Live(row, t) /\ "admin" \in ROLE_HIERARCHY[row.role]

\* Faulty variant: any live session passes.
CheckSession(p) ==
  /\ step[p] = "role"
  /\ IF Live(seen[p], clock)
     THEN /\ GoTo(p, "register")
          /\ now' = [now EXCEPT ![p] = clock]
          /\ seen' = [seen EXCEPT ![p] = NoSession]
          /\ UNCHANGED <<request, where, entry>>
     ELSE Done(p)
  /\ UNCHANGED <<auditVars, clock, workload, nonces, sessions, accepted>>

\* ... and judged after it, at a later time.
CheckRole(p) ==
  /\ step[p] = "role"
  /\ IF IsAdmin(seen[p], clock)
     THEN /\ GoTo(p, "register")
          /\ now' = [now EXCEPT ![p] = clock]
          /\ seen' = [seen EXCEPT ![p] = NoSession]
          /\ UNCHANGED <<request, where, entry>>
     ELSE Done(p)
  /\ UNCHANGED <<auditVars, clock, workload, nonces, sessions, accepted>>

\* register_session: the row of the token is replaced, revoked or not.  Its end
\* was computed at some time t after the role was checked.
Register(p, t) ==
  LET r == request[p] IN
    /\ step[p] = "register"
    /\ r.role \in Roles
    /\ MayWrite
    /\ t \in now[p] .. clock
    /\ sessions' = [sessions EXCEPT ![r.grant] =
                      [role |-> r.role, expires |-> t + Ttl, revoked |-> FALSE]]
    /\ Done(p)
    /\ UNCHANGED <<auditVars, clock, workload, nonces, accepted>>

\* The form is rejected, the store fails, or the process stops, between two
\* transactions: what the earlier ones committed stays.
Abandon(p) ==
  /\ step[p] # "idle"
  /\ pc[p] = "idle"
  /\ Done(p)
  /\ UNCHANGED <<auditVars, clock, workload, nonces, sessions, accepted>>

-----------------------------------------------------------------------------
(* audit_log.append before the answer                                      *)

AppendStep(p) ==
  /\ step[p] = "append"
  /\ Acquire(p, entry[p]) \/ ReadLast(p) \/ Insert(p)
  /\ UNCHANGED <<clock, workload, nonces, sessions, threadVars, accepted>>

Answer(p) ==
  /\ step[p] = "append"
  /\ Commit(p) \/ Rollback(p)
  /\ Done(p)
  /\ UNCHANGED <<clock, workload, nonces, sessions, accepted>>

-----------------------------------------------------------------------------
(* What operators may run, and time                                        *)

\* clean_expired_nonces, with a time that may be old.
CleanExpired(t) ==
  /\ t \in 0 .. clock
  /\ MayWrite
  /\ nonces' = Deleted(t)
  /\ UNCHANGED <<auditVars, clock, workload, sessions, threadVars, accepted>>

RevokeSession(k) ==
  /\ MayWrite
  /\ sessions[k].role \in Roles
  /\ sessions' = [sessions EXCEPT ![k].revoked = TRUE]
  /\ UNCHANGED <<auditVars, clock, workload, nonces, threadVars, accepted>>

Tick ==
  /\ clock < MaxTime
  /\ clock' = clock + 1
  /\ UNCHANGED <<auditVars, workload, nonces, sessions, threadVars, accepted>>

ServeNext(p) ==
  \/ \E r \in workload : Arrive(p, r)
  \/ ReadClock(p) \/ Reserve(p) \/ Refuse(p) \/ CheckPCI(p)
  \/ VerifySignature(p) \/ AuditProof(p) \/ FraudScore(p) \/ OtherRoute(p)
  \/ Lookup(p) \/ CheckRole(p)
  \/ \E t \in Times : Register(p, t)
  \/ AppendStep(p) \/ Answer(p) \/ Abandon(p)

BankingNext ==
  \/ \E p \in Appenders : ServeNext(p)
  \/ \E t \in Times : CleanExpired(t)
  \/ \E k \in Tokens : RevokeSession(k)
  \/ Tick

BankingSpec == BankingInit /\ [][BankingNext]_bankingVars

-----------------------------------------------------------------------------
(* Properties                                                              *)

\* "each nonce succeeds at most once" (docs/BEDROCK-5.0.0.md, line 28).
NonceSucceedsOnce ==
  [][\A p \in Appenders : Reserve(p) => accepted[request[p].nonce] = Absent]_bankingVars

\* What the gate does guarantee is less: a nonce succeeds again only when the
\* skew has passed since its last success, and only for a message dated no
\* earlier than that success, less the time its thread waited since it read the
\* clock.  So a copy of a message can succeed twice only if the message was
\* dated ahead of the server's clock, or if a thread waited that long.  Requests
\* delete expired nonces with times read before their locks, and clean-ups run
\* at any moment (verify_request_signature, lines 55-70; clean_expired_nonces).
RepeatIsDatedLater ==
  [][\A p \in Appenders :
       LET r == request[p] IN
         Reserve(p) /\ accepted[r.nonce] # Absent =>
           /\ clock >= accepted[r.nonce] + Skew
           /\ r.timestamp + (clock - now[p]) >= accepted[r.nonce]]_bankingVars

\* A request that may yet register a session: past the check, or about to pass.
MayPass(p) == step[p] = "register" \/ (step[p] = "role" /\ IsAdmin(seen[p], clock))

NoAuthority ==
  /\ \A k \in Tokens : ~IsAdmin(sessions[k], clock)
  /\ \A p \in Appenders : ~MayPass(p)

\* Once every admin session is revoked or over and no request that read one is
\* still under way, no interleaving of requests brings an admin session back,
\* although the row is judged after it is read and registering a token again
\* clears its revocation (rbac.py, lines 59-78 and 110-122).
AuthorityIsNotRegained == [][NoAuthority => NoAuthority']_bankingVars
=============================================================================
