--------------------------- MODULE MintingProofs ---------------------------
(***************************************************************************)
(* Proofs about Minting for any number of actions, workers, dispatchers    *)
(* and attempts: type correctness, the safety invariants, and that the     *)
(* pipeline implements MintPromise.                                        *)
(*                                                                         *)
(* The inductive invariant IInv adds to the safety invariants what the     *)
(* workers in flight may rely on: their job is a recorded intent, their    *)
(* attempt marker is counted and theirs alone, nothing was submitted on it *)
(* before they do, and the copy of the row they hold is no newer than the  *)
(* row.  KeyedInv adds what a chain that enforces the key lets them rely   *)
(* on: one transaction of an action takes effect at most, and a recorded   *)
(* hash stays recorded.                                                    *)
(***************************************************************************)
EXTENDS Minting, TLAPS

InFlightPc == {"marked", "ready", "sent"}

\* A busy worker's job is a recorded intent.
WorkersOnJob ==
  \A w \in Workers : pc[w] # "idle" => state[job[w]] # "NONE"

\* An attempt marker is counted in its row, and unused until submitted.
MarkersHeld ==
  \A w \in Workers :
    /\ pc[w] \in InFlightPc => marker[w] \in 1 .. attempts[job[w]]
    /\ pc[w] \in {"marked", "ready"} => chain[job[w]][marker[w]] = "none"

\* The reloaded copy is no newer than the row.
SeenIsOld ==
  \A w \in Workers : pc[w] \in {"ready", "sent"} => seen[w].attempts <= attempts[job[w]]

\* Between the flush and the commit of create_intent only the audit entry
\* is visible.
CreatingIsInvisible ==
  \A a \in creating : state[a] = "NONE" /\ outbox[a] = "none" /\ <<a, "CREATED">> \in audit

\* Dispatchers work on existing outbox rows.
BatchesAreRows ==
  \A d \in Dispatchers : \A a \in Batch(d) : outbox[a] # "none"

\* No answer to the first attempt is recorded while that attempt is in flight.
FirstAttempt ==
  \A w \in Workers, a \in Actions :
    InFlight(w, a) /\ attempts[a] = 1 => state[a] \in {"PENDING", "FAILED"}

Inductive ==
  /\ WorkersOnJob
  /\ MarkersHeld
  /\ SeenIsOld
  /\ CreatingIsInvisible
  /\ BatchesAreRows
  /\ FirstAttempt

IInv ==
  /\ TypeOK
  /\ AttemptsCoverSubmissions
  /\ ConfirmedIsMinted
  /\ FailedIsExhausted
  /\ IntentIsPublishable
  /\ Inductive

-----------------------------------------------------------------------------
(* Type correctness.                                                       *)

\* The initial tables, workers and chain are well typed.
LEMMA TypeInit == Init => TypeOK
  BY MintingAssumption DEF Init, TypeOK, Row, NoRow, States, Attempts, TxStatus, NoTx

\* Every handler and every external event keeps the types.
LEMMA TypeStep == TypeOK /\ [Next]_vars => TypeOK'
  <1> SUFFICES ASSUME TypeOK, [Next]_vars PROVE TypeOK'
    OBVIOUS
  <1> USE MintingAssumption DEF TypeOK, Attempts, requestVars, intentVars, dispatchVars,
           workerVars, chainVars
  <1>1. ASSUME NEW a \in Actions, Review(a) PROVE TypeOK'
    BY <1>1 DEF Review
  <1>2. ASSUME NEW a \in Actions, CreateIntent(a) PROVE TypeOK'
    BY <1>2 DEF CreateIntent
  <1>3. ASSUME NEW a \in Actions, CommitIntent(a) PROVE TypeOK'
    BY <1>3 DEF CommitIntent, States
  <1>4. ASSUME NEW a \in Actions, RollbackIntent(a) PROVE TypeOK'
    BY <1>4 DEF RollbackIntent
  <1>5. ASSUME NEW a \in Actions, BackoffElapses(a) PROVE TypeOK'
    BY <1>5 DEF BackoffElapses
  <1>6. ASSUME NEW a \in Actions, NEW n \in Attempts, Land(a, n) PROVE TypeOK'
    BY <1>6 DEF Land, SetTx, TxStatus
  <1>7. ASSUME NEW a \in Actions, NEW n \in Attempts, Lose(a, n) PROVE TypeOK'
    BY <1>7 DEF Lose, SetTx, TxStatus
  <1>8. ASSUME NEW a \in Actions, NEW n \in Attempts, Confirm(a, n) PROVE TypeOK'
    BY <1>8 DEF Confirm, SetTx, TxStatus
  <1>9. ASSUME NEW d \in Dispatchers, SelectBatch(d) PROVE TypeOK'
    BY <1>9 DEF SelectBatch, Locked
  <1>10. ASSUME NEW d \in Dispatchers, CommitBatch(d) PROVE TypeOK'
    BY <1>10 DEF CommitBatch
  <1>11. ASSUME NEW d \in Dispatchers, DispatcherCrash(d) PROVE TypeOK'
    BY <1>11 DEF DispatcherCrash
  <1>12. ASSUME NEW d \in Dispatchers, NEW a \in Actions, Publish(d, a) PROVE TypeOK'
    BY <1>12 DEF Publish
  <1>13. ASSUME NEW d \in Dispatchers, NEW a \in Actions, PublishFails(d, a) PROVE TypeOK'
    BY <1>13 DEF PublishFails
  <1>14. ASSUME NEW w \in Workers, NEW a \in Actions, ReconcileFound(w, a) PROVE TypeOK'
    BY <1>14 DEF ReconcileFound, Delivered, Landed, OutcomeOf, States
  <1>15. ASSUME NEW w \in Workers, NEW a \in Actions, ReconcileMissing(w, a) PROVE TypeOK'
    BY <1>15 DEF ReconcileMissing, Delivered, States
  <1>16. ASSUME NEW w \in Workers, NEW a \in Actions, GiveUp(w, a) PROVE TypeOK'
    BY <1>16 DEF GiveUp, Delivered, States
  <1>17. ASSUME NEW w \in Workers, NEW a \in Actions, TakeMarker(w, a) PROVE TypeOK'
    BY <1>17 DEF TakeMarker, Delivered
  <1>18. ASSUME NEW w \in Workers, Reload(w) PROVE TypeOK'
    BY <1>18 DEF Reload, Row
  <1>19. ASSUME NEW w \in Workers, Submit(w) PROVE TypeOK'
    BY <1>19 DEF Submit, SetTx, TxStatus
  <1>20. ASSUME NEW w \in Workers, RecordReceipt(w) PROVE TypeOK'
    BY <1>20 DEF RecordReceipt, WriteState, Written, ReceiptsFor, Landed, OutcomeOf, States
  <1>21. ASSUME NEW w \in Workers, RecordAmbiguous(w) PROVE TypeOK'
    BY <1>21 DEF RecordAmbiguous, WriteState, Written, Finish, NoRow, Row, NoTx, States
  <1>22. ASSUME NEW w \in Workers, RecordError(w) PROVE TypeOK'
    BY <1>22 DEF RecordError, WriteState, Written, Finish, NoRow, Row, NoTx, States
  <1>23. ASSUME NEW w \in Workers, AuditState(w) PROVE TypeOK'
    BY <1>23 DEF AuditState, Finish, NoRow, Row, NoTx, States
  <1>24. ASSUME NEW w \in Workers, AuditFails(w) PROVE TypeOK'
    BY <1>24 DEF AuditFails, Finish, NoRow, Row, NoTx, States
  <1>25. ASSUME NEW w \in Workers, WorkerCrash(w) PROVE TypeOK'
    BY <1>25 DEF WorkerCrash, Finish, NoRow, Row, NoTx, States
  <1>26. CASE UNCHANGED vars
    BY <1>26 DEF vars
  <1> QED
    BY <1>1, <1>2, <1>3, <1>4, <1>5, <1>6, <1>7, <1>8, <1>9, <1>10, <1>11, <1>12, <1>13,
         <1>14, <1>15, <1>16, <1>17, <1>18, <1>19, <1>20, <1>21, <1>22, <1>23, <1>24,
         <1>25, <1>26
    DEF Next, RequestNext, DispatchNext, ChainNext, ExecuteNext

\* Every reachable row, message, worker and transaction is one of the kinds
\* the tables and the adapter allow; in particular no intent is ever given
\* more than MAX_ATTEMPTS markers.
THEOREM TypeCorrect == Spec => []TypeOK
  BY TypeInit, TypeStep, PTL DEF Spec

-----------------------------------------------------------------------------
(* Attempts, markers and submissions.                                      *)

Reservation == AttemptsCoverSubmissions /\ MarkersHeld /\ SeenIsOld

\* Every step keeps submissions paid for by committed attempt markers.
LEMMA ReservationStep == TypeOK /\ Reservation /\ [Next]_vars => Reservation'
  <1> SUFFICES ASSUME TypeOK /\ Reservation, [Next]_vars PROVE Reservation'
    OBVIOUS
  <1> USE MintingAssumption DEF TypeOK, Attempts, Reservation, AttemptsCoverSubmissions,
           MarkersHeld, SeenIsOld, InFlight, InFlightPc, requestVars, intentVars,
           dispatchVars, workerVars, chainVars
  <1>1. ASSUME UNCHANGED <<attempts, workerVars, chain>> PROVE Reservation'
    BY <1>1
  <1>2. ASSUME NEW a \in Actions, NEW n \in Attempts, Land(a, n) PROVE Reservation'
    BY <1>2 DEF Land, SetTx
  <1>3. ASSUME NEW a \in Actions, NEW n \in Attempts, Lose(a, n) PROVE Reservation'
    BY <1>3 DEF Lose, SetTx
  <1>4. ASSUME NEW a \in Actions, NEW n \in Attempts, Confirm(a, n) PROVE Reservation'
    BY <1>4 DEF Confirm, SetTx
  <1>5. ASSUME NEW w \in Workers, NEW a \in Actions, ReconcileFound(w, a) PROVE Reservation'
    BY <1>5 DEF ReconcileFound, Delivered
  <1>6. ASSUME NEW w \in Workers, NEW a \in Actions, TakeMarker(w, a) PROVE Reservation'
    <2> USE <1>6 DEF TakeMarker, Delivered
    <2>1. /\ attempts' = [attempts EXCEPT ![a] = @ + 1]
          /\ marker' = [marker EXCEPT ![w] = attempts[a] + 1]
          /\ chain[a][attempts[a] + 1] = "none"
      OBVIOUS
    <2>2. AttemptsCoverSubmissions'
      BY <2>1
    <2>3. MarkersHeld'
      BY <2>1
    <2>4. SeenIsOld'
      BY <2>1 DEF Row
    <2> QED
      BY <2>2, <2>3, <2>4
  <1>7. ASSUME NEW w \in Workers, Reload(w) PROVE Reservation'
    BY <1>7 DEF Reload
  <1>8. ASSUME NEW w \in Workers, Submit(w) PROVE Reservation'
    BY <1>8 DEF Submit, SetTx
  <1>9. ASSUME NEW w \in Workers, RecordReceipt(w) PROVE Reservation'
    BY <1>9 DEF RecordReceipt
  <1>10. ASSUME NEW w \in Workers, RecordAmbiguous(w) PROVE Reservation'
    BY <1>10 DEF RecordAmbiguous, Finish
  <1>11. ASSUME NEW w \in Workers, RecordError(w) PROVE Reservation'
    BY <1>11 DEF RecordError, Finish
  <1>12. ASSUME NEW w \in Workers, AuditState(w) PROVE Reservation'
    BY <1>12 DEF AuditState, Finish
  <1>13. ASSUME NEW w \in Workers, AuditFails(w) PROVE Reservation'
    BY <1>13 DEF AuditFails, Finish
  <1>14. ASSUME NEW w \in Workers, WorkerCrash(w) PROVE Reservation'
    BY <1>14 DEF WorkerCrash, Finish
  <1>15. CASE UNCHANGED vars
    BY <1>15, <1>1 DEF vars
  <1>16. CASE \/ \E a \in Actions : Review(a) \/ CreateIntent(a) \/ CommitIntent(a) \/ RollbackIntent(a) \/ BackoffElapses(a)
              \/ \E d \in Dispatchers : SelectBatch(d) \/ CommitBatch(d) \/ DispatcherCrash(d)
              \/ \E d \in Dispatchers, a \in Actions : Publish(d, a) \/ PublishFails(d, a)
              \/ \E w \in Workers, a \in Actions : ReconcileMissing(w, a) \/ GiveUp(w, a)
    BY <1>16, <1>1 DEF Review, CreateIntent, CommitIntent, RollbackIntent, BackoffElapses,
         SelectBatch, CommitBatch, DispatcherCrash, Publish, PublishFails,
         ReconcileMissing, GiveUp, Finish, SetTx
  <1> QED
    BY <1>2, <1>3, <1>4, <1>5, <1>6, <1>7, <1>8, <1>9, <1>10, <1>11, <1>12, <1>13, <1>14,
         <1>15, <1>16
    DEF Next, RequestNext, DispatchNext, ChainNext, ExecuteNext

-----------------------------------------------------------------------------
(* Intents, outbox rows and audit entries.                                 *)

Recorded == IntentIsPublishable /\ WorkersOnJob /\ CreatingIsInvisible /\ BatchesAreRows

\* Every step keeps intents, outbox rows, messages and audit entries together.
LEMMA RecordedStep == TypeOK /\ Recorded /\ [Next]_vars => Recorded'
  <1> SUFFICES ASSUME TypeOK /\ Recorded, [Next]_vars PROVE Recorded'
    OBVIOUS
  <1> USE MintingAssumption DEF TypeOK, Recorded, IntentIsPublishable, WorkersOnJob,
           CreatingIsInvisible, BatchesAreRows, Batch, requestVars, intentVars,
           dispatchVars, workerVars, chainVars
  <1>1. ASSUME UNCHANGED <<requestVars, state, dispatchVars, pc, job, audit>> PROVE Recorded'
    BY <1>1
  <1>2. ASSUME NEW a \in Actions, Review(a) PROVE Recorded'
    BY <1>2 DEF Review
  <1>3. ASSUME NEW a \in Actions, CreateIntent(a) PROVE Recorded'
    BY <1>3 DEF CreateIntent
  <1>4. ASSUME NEW a \in Actions, CommitIntent(a) PROVE Recorded'
    BY <1>4 DEF CommitIntent
  <1>5. ASSUME NEW a \in Actions, RollbackIntent(a) PROVE Recorded'
    BY <1>5 DEF RollbackIntent
  <1>6. ASSUME NEW a \in Actions, BackoffElapses(a) PROVE Recorded'
    BY <1>6 DEF BackoffElapses
  <1>7. ASSUME NEW d \in Dispatchers, SelectBatch(d) PROVE Recorded'
    BY <1>7 DEF SelectBatch
  <1>8. ASSUME NEW d \in Dispatchers, CommitBatch(d) PROVE Recorded'
    BY <1>8 DEF CommitBatch
  <1>9. ASSUME NEW d \in Dispatchers, DispatcherCrash(d) PROVE Recorded'
    BY <1>9 DEF DispatcherCrash
  <1>10. ASSUME NEW d \in Dispatchers, NEW a \in Actions, Publish(d, a) PROVE Recorded'
    BY <1>10 DEF Publish
  <1>11. ASSUME NEW d \in Dispatchers, NEW a \in Actions, PublishFails(d, a) PROVE Recorded'
    BY <1>11 DEF PublishFails
  <1>12. ASSUME NEW w \in Workers, NEW a \in Actions, ReconcileFound(w, a) PROVE Recorded'
    BY <1>12 DEF ReconcileFound, Delivered, OutcomeOf
  <1>13. ASSUME NEW w \in Workers, NEW a \in Actions, ReconcileMissing(w, a) PROVE Recorded'
    BY <1>13 DEF ReconcileMissing, Delivered
  <1>14. ASSUME NEW w \in Workers, NEW a \in Actions, GiveUp(w, a) PROVE Recorded'
    BY <1>14 DEF GiveUp, Delivered
  <1>15. ASSUME NEW w \in Workers, NEW a \in Actions, TakeMarker(w, a) PROVE Recorded'
    BY <1>15 DEF TakeMarker, Delivered
  <1>16. ASSUME NEW w \in Workers, Reload(w) PROVE Recorded'
    BY <1>16 DEF Reload
  <1>17. ASSUME NEW w \in Workers, Submit(w) PROVE Recorded'
    BY <1>17 DEF Submit
  <1>18. ASSUME NEW w \in Workers, RecordReceipt(w) PROVE Recorded'
    BY <1>18 DEF RecordReceipt, WriteState, Written, OutcomeOf
  <1>19. ASSUME NEW w \in Workers, RecordAmbiguous(w) PROVE Recorded'
    BY <1>19 DEF RecordAmbiguous, WriteState, Written, Finish
  <1>20. ASSUME NEW w \in Workers, RecordError(w) PROVE Recorded'
    BY <1>20 DEF RecordError, WriteState, Written, Finish
  <1>21. ASSUME NEW w \in Workers, AuditState(w) PROVE Recorded'
    BY <1>21 DEF AuditState, Finish
  <1>22. ASSUME NEW w \in Workers, AuditFails(w) PROVE Recorded'
    BY <1>22 DEF AuditFails, Finish
  <1>23. ASSUME NEW w \in Workers, WorkerCrash(w) PROVE Recorded'
    BY <1>23 DEF WorkerCrash, Finish
  <1>24. CASE UNCHANGED vars
    BY <1>24, <1>1 DEF vars
  <1>25. CASE \/ \E a \in Actions, n \in Attempts : Land(a, n) \/ Lose(a, n) \/ Confirm(a, n)
    BY <1>25, <1>1 DEF Land, Lose, Confirm, Finish, SetTx
  <1> QED
    BY <1>2, <1>3, <1>4, <1>5, <1>6, <1>7, <1>8, <1>9, <1>10, <1>11, <1>12, <1>13, <1>14,
         <1>15, <1>16, <1>17, <1>18, <1>19, <1>20, <1>21, <1>22, <1>23, <1>24, <1>25
    DEF Next, RequestNext, DispatchNext, ChainNext, ExecuteNext

-----------------------------------------------------------------------------
(* Outcomes.                                                               *)

Outcomes == ConfirmedIsMinted /\ FailedIsExhausted /\ FirstAttempt

\* Every step keeps the recorded outcomes true of the chain.
LEMMA OutcomesStep == TypeOK /\ Reservation /\ Recorded /\ Outcomes /\ [Next]_vars => Outcomes'
  <1> SUFFICES ASSUME TypeOK /\ Reservation /\ Recorded /\ Outcomes, [Next]_vars PROVE Outcomes'
    OBVIOUS
  <1> USE MintingAssumption DEF TypeOK, Attempts, Outcomes, ConfirmedIsMinted,
           FailedIsExhausted, FirstAttempt, InFlight, Landed, NoTx, requestVars,
           intentVars, dispatchVars, workerVars, chainVars
  <1>1. ASSUME UNCHANGED <<intentVars, pc, job, chain>> PROVE Outcomes'
    BY <1>1
  <1>2. ASSUME NEW a \in Actions, CommitIntent(a) PROVE Outcomes'
    BY <1>2 DEF CommitIntent, Recorded, CreatingIsInvisible
  <1>3. ASSUME NEW a \in Actions, NEW n \in Attempts, Land(a, n) PROVE Outcomes'
    BY <1>3 DEF Land, SetTx
  <1>4. ASSUME NEW a \in Actions, NEW n \in Attempts, Lose(a, n) PROVE Outcomes'
    BY <1>4 DEF Lose, SetTx
  <1>5. ASSUME NEW a \in Actions, NEW n \in Attempts, Confirm(a, n) PROVE Outcomes'
    BY <1>5 DEF Confirm, SetTx
  <1>6. ASSUME NEW w \in Workers, NEW a \in Actions, ReconcileFound(w, a) PROVE Outcomes'
    BY <1>6 DEF ReconcileFound, Delivered, OutcomeOf
  <1>7. ASSUME NEW w \in Workers, NEW a \in Actions, ReconcileMissing(w, a) PROVE Outcomes'
    BY <1>7 DEF ReconcileMissing, Delivered
  <1>8. ASSUME NEW w \in Workers, NEW a \in Actions, GiveUp(w, a) PROVE Outcomes'
    BY <1>8 DEF GiveUp, Delivered
  <1>9. ASSUME NEW w \in Workers, NEW a \in Actions, TakeMarker(w, a) PROVE Outcomes'
    BY <1>9 DEF TakeMarker, Delivered
  <1>10. ASSUME NEW w \in Workers, Reload(w) PROVE Outcomes'
    BY <1>10 DEF Reload
  <1>11. ASSUME NEW w \in Workers, Submit(w) PROVE Outcomes'
    <2> USE <1>11 DEF Submit, SetTx
    <2>1. \A a \in Actions, n \in Attempts :
            chain[a][n] \in {"landed", "confirmed"} => chain'[a][n] = chain[a][n]
      BY DEF Reservation, MarkersHeld
    <2>2. ConfirmedIsMinted'
      <3>1. UNCHANGED <<state, tx_hash>>
        OBVIOUS
      <3>2. \A a \in Actions : state[a] = "CONFIRMED" => \E n \in Attempts : chain'[a][n] = "confirmed"
        <4> SUFFICES ASSUME NEW a \in Actions, state[a] = "CONFIRMED"
                     PROVE  \E n \in Attempts : chain'[a][n] = "confirmed"
          OBVIOUS
        <4>1. PICK n \in Attempts : chain[a][n] = "confirmed"
          OBVIOUS
        <4> QED
          BY <4>1, <2>1
      <3>3. \A a \in Actions : Landed(a) \subseteq Landed(a)'
        BY <2>1
      <3> QED
        BY <3>1, <3>2, <3>3
    <2>3. FailedIsExhausted' /\ FirstAttempt'
      OBVIOUS
    <2> QED
      BY <2>2, <2>3
  <1>12. ASSUME NEW w \in Workers, RecordReceipt(w) PROVE Outcomes'
    <2>1. \A v \in Workers : v # w /\ InFlight(v, job[w]) => attempts[job[w]] > 1
      BY <1>12 DEF Reservation, AttemptsCoverSubmissions, MarkersHeld, InFlightPc, RecordReceipt
    <2> USE <1>12 DEF RecordReceipt, WriteState, Written, OutcomeOf, ReceiptsFor
    <2>2. ConfirmedIsMinted'
      <3>1. PICK n \in ReceiptsFor(job[w], marker[w]) :
              /\ tx_hash' = [tx_hash EXCEPT ![job[w]] = Written(@, seen[w].tx_hash, n)]
              /\ \E outcome \in OutcomeOf(job[w], n) : WriteState(w, outcome)
        OBVIOUS
      <3>2. n \in Landed(job[w])
        OBVIOUS
      <3>3. state'[job[w]] = "CONFIRMED" =>
              state[job[w]] = "CONFIRMED" \/ chain[job[w]][n] = "confirmed"
        BY <3>1
      <3> QED
        BY <3>1, <3>2, <3>3
    <2>3. FailedIsExhausted'
      OBVIOUS
    <2>4. FirstAttempt'
      BY <2>1
    <2> QED
      BY <2>2, <2>3, <2>4
  <1>13. ASSUME NEW w \in Workers, RecordAmbiguous(w) PROVE Outcomes'
    BY <1>13 DEF RecordAmbiguous, WriteState, Written, Finish, Reservation, MarkersHeld,
         AttemptsCoverSubmissions, InFlightPc
  <1>14. ASSUME NEW w \in Workers, RecordError(w) PROVE Outcomes'
    <2>1. \A v \in Workers : v # w /\ InFlight(v, job[w]) => attempts[job[w]] > 1
      BY <1>14 DEF Reservation, AttemptsCoverSubmissions, MarkersHeld, InFlightPc, RecordError
    <2> USE <1>14 DEF RecordError, WriteState, Written, Finish
    <2>2. ConfirmedIsMinted'
      OBVIOUS
    <2>3. FailedIsExhausted'
      <3>1. seen[w].attempts \in 0 .. MAX_ATTEMPTS /\ seen[w].attempts <= attempts[job[w]]
        BY DEF Reservation, SeenIsOld, Row
      <3> QED
        BY <3>1
    <2>4. FirstAttempt'
      BY <2>1
    <2> QED
      BY <2>2, <2>3, <2>4
  <1>15. ASSUME NEW w \in Workers, AuditState(w) PROVE Outcomes'
    BY <1>15 DEF AuditState, Finish
  <1>16. ASSUME NEW w \in Workers, AuditFails(w) PROVE Outcomes'
    BY <1>16 DEF AuditFails, Finish
  <1>17. ASSUME NEW w \in Workers, WorkerCrash(w) PROVE Outcomes'
    BY <1>17 DEF WorkerCrash, Finish
  <1>18. CASE UNCHANGED vars
    BY <1>18, <1>1 DEF vars
  <1>19. CASE \/ \E a \in Actions : Review(a) \/ CreateIntent(a) \/ RollbackIntent(a) \/ BackoffElapses(a)
              \/ \E d \in Dispatchers : SelectBatch(d) \/ CommitBatch(d) \/ DispatcherCrash(d)
              \/ \E d \in Dispatchers, a \in Actions : Publish(d, a) \/ PublishFails(d, a)
    BY <1>19, <1>1 DEF Review, CreateIntent, RollbackIntent, BackoffElapses, SelectBatch,
         CommitBatch, DispatcherCrash, Publish, PublishFails, Finish, SetTx
  <1> QED
    BY <1>2, <1>3, <1>4, <1>5, <1>6, <1>7, <1>8, <1>9, <1>10, <1>11, <1>12, <1>13, <1>14,
         <1>15, <1>16, <1>17, <1>18, <1>19
    DEF Next, RequestNext, DispatchNext, ChainNext, ExecuteNext

-----------------------------------------------------------------------------
(* The theorems.                                                           *)

\* The inductive invariant holds initially.
LEMMA InvInit == Init => IInv
  <1> SUFFICES ASSUME Init PROVE IInv
    OBVIOUS
  <1> USE MintingAssumption DEF Init
  <1>1. AttemptsCoverSubmissions /\ MarkersHeld /\ SeenIsOld
    BY DEF AttemptsCoverSubmissions, MarkersHeld, SeenIsOld, InFlight, InFlightPc
  <1>2. IntentIsPublishable /\ WorkersOnJob /\ CreatingIsInvisible /\ BatchesAreRows
    BY DEF IntentIsPublishable, WorkersOnJob, CreatingIsInvisible, BatchesAreRows, Batch
  <1>3. ConfirmedIsMinted /\ FailedIsExhausted /\ FirstAttempt
    BY DEF ConfirmedIsMinted, FailedIsExhausted, FirstAttempt, InFlight, NoTx
  <1> QED
    BY <1>1, <1>2, <1>3, TypeInit DEF IInv, Inductive

\* The inductive invariant is kept by every step.
LEMMA InvStep == IInv /\ [Next]_vars => IInv'
  <1>1. IInv <=> TypeOK /\ Reservation /\ Recorded /\ Outcomes
    BY DEF IInv, Inductive, Reservation, Recorded, Outcomes
  <1>2. IInv' <=> TypeOK' /\ Reservation' /\ Recorded' /\ Outcomes'
    BY DEF IInv, Inductive, Reservation, Recorded, Outcomes
  <1> QED
    BY <1>1, <1>2, TypeStep, ReservationStep, RecordedStep, OutcomesStep

\* The inductive invariant holds in every reachable state.
THEOREM Invariance == Spec => []IInv
  BY InvInit, InvStep, PTL DEF Spec

\* Every submission is paid for by a durable attempt marker of its own: for
\* any number of workers, deliveries and crashes at most MAX_ATTEMPTS
\* transactions exist for an intent (execute, lines 59-61).
THEOREM SubmissionsAreBudgeted == Spec => []AttemptsCoverSubmissions
  <1>1. IInv => AttemptsCoverSubmissions
    BY DEF IInv
  <1> QED
    BY <1>1, Invariance, PTL

\* A CONFIRMED row always stands for a confirmed mint (execute, lines 66-70).
THEOREM ConfirmationsAreMints == Spec => []ConfirmedIsMinted
  <1>1. IInv => ConfirmedIsMinted
    BY DEF IInv
  <1> QED
    BY <1>1, Invariance, PTL

\* FAILED is never reported while attempts remain (execute, lines 59 and 65).
THEOREM FailuresAreExhausted == Spec => []FailedIsExhausted
  <1>1. IInv => FailedIsExhausted
    BY DEF IInv
  <1> QED
    BY <1>1, Invariance, PTL

\* Intents, outbox rows, published messages and audit entries agree
\* (create_intent, lines 30-34).
THEOREM IntentsArePublishable == Spec => []IntentIsPublishable
  <1>1. IInv => IntentIsPublishable
    BY DEF IInv
  <1> QED
    BY <1>1, Invariance, PTL

-----------------------------------------------------------------------------
(* A chain that enforces the key.                                          *)

\* The hash a worker reloaded is not newer than the row: once recorded, some
\* hash stays recorded.
SeenHashIsOld ==
  \A w \in Workers :
    pc[w] \in {"ready", "sent"} /\ seen[w].tx_hash # NoTx => tx_hash[job[w]] # NoTx

\* Under an enforced key one attempt of an action takes effect at most.
OneLanded == keyed => \A a \in Actions : \A m, n \in Landed(a) : m = n

KeyedInv == SeenHashIsOld /\ OneLanded /\ KeyedHashIsConfirmed

\* No worker, chain or request is at work initially.
LEMMA KeyedInit == Init => KeyedInv
  BY DEF Init, KeyedInv, SeenHashIsOld, OneLanded, KeyedHashIsConfirmed,
     ConfirmedHashIsConfirmed, Landed

\* Every step keeps the row's hash the one that took effect.  Late answers
\* agree with it because the chain knows one transaction only.
LEMMA KeyedStep == IInv /\ IInv' /\ KeyedInv /\ [Next]_vars => KeyedInv'
  <1> SUFFICES ASSUME IInv, IInv', KeyedInv, [Next]_vars PROVE KeyedInv'
    OBVIOUS
  <1>1. TypeOK /\ TypeOK' /\ ConfirmedIsMinted /\ ConfirmedIsMinted' /\ MarkersHeld
    BY DEF IInv, Inductive
  <1> USE <1>1, MintingAssumption
      DEF TypeOK, Attempts, KeyedInv, SeenHashIsOld, OneLanded, KeyedHashIsConfirmed,
          ConfirmedHashIsConfirmed, Landed, NoTx, requestVars, intentVars, dispatchVars,
          workerVars, chainVars
  <1>2. ASSUME UNCHANGED <<state, tx_hash, pc, job, seen, chainVars>> PROVE KeyedInv'
    BY <1>2
  <1>3. ASSUME NEW a \in Actions, CommitIntent(a) PROVE KeyedInv'
    BY <1>3 DEF CommitIntent
  <1>4. ASSUME NEW a \in Actions, NEW n \in Attempts, Land(a, n) PROVE KeyedInv'
    <2>1. \A b \in Actions, m \in Attempts :
            chain'[b][m] = IF b = a /\ m = n THEN "landed" ELSE chain[b][m]
      BY <1>4 DEF Land, SetTx
    <2>2. keyed' = keyed /\ (keyed => Landed(a) = {})
      BY <1>4 DEF Land, SetTx
    <2>3. ASSUME keyed, NEW b \in Actions, NEW k \in Landed(b)', NEW m \in Landed(b)'
          PROVE  k = m
      <3>1. CASE b = a
        <4>1. \A i \in Attempts : chain[a][i] \notin {"landed", "confirmed"}
          BY <2>2, <2>3
        <4>2. \A i \in Landed(b)' : i \in Attempts /\ chain'[b][i] \in {"landed", "confirmed"}
          OBVIOUS
        <4>3. k = n
          BY <2>1, <3>1, <4>1, <4>2
        <4>4. m = n
          BY <2>1, <3>1, <4>1, <4>2
        <4> QED
          BY <4>3, <4>4
      <3>2. CASE b # a
        <4>1. k \in Landed(b) /\ m \in Landed(b)
          BY <2>1, <2>3, <3>2
        <4> QED
          BY <2>3, <4>1
      <3> QED
        BY <3>1, <3>2
    <2>4. OneLanded'
      <3>1. OneLanded' <=> (keyed' => \A b \in Actions : \A k, m \in Landed(b)' : k = m)
        BY DEF OneLanded
      <3> QED
        BY <2>2, <2>3, <3>1
    <2>5. SeenHashIsOld' /\ UNCHANGED <<state, tx_hash>>
      BY <1>4 DEF Land
    <2>6. ASSUME keyed, NEW b \in Actions, state[b] = "CONFIRMED"
          PROVE  tx_hash[b] # NoTx /\ chain'[b][tx_hash[b]] = "confirmed"
      <3>1. tx_hash[b] \in Attempts /\ chain[b][tx_hash[b]] = "confirmed"
        BY <2>6
      <3>2. tx_hash[b] \in Landed(b)
        BY <3>1
      <3>3. b # a
        BY <2>2, <2>6, <3>2
      <3> QED
        BY <2>1, <3>1, <3>3
    <2> QED
      BY <2>2, <2>4, <2>5, <2>6
  <1>5. ASSUME NEW a \in Actions, NEW n \in Attempts, Lose(a, n) PROVE KeyedInv'
    BY <1>5 DEF Lose, SetTx
  <1>6. ASSUME NEW a \in Actions, NEW n \in Attempts, Confirm(a, n) PROVE KeyedInv'
    BY <1>6 DEF Confirm, SetTx
  <1>7. ASSUME NEW w \in Workers, NEW a \in Actions, ReconcileFound(w, a) PROVE KeyedInv'
    BY <1>7 DEF ReconcileFound, Delivered, OutcomeOf
  <1>8. ASSUME NEW w \in Workers, NEW a \in Actions, ReconcileMissing(w, a) PROVE KeyedInv'
    BY <1>8 DEF ReconcileMissing
  <1>9. ASSUME NEW w \in Workers, NEW a \in Actions, GiveUp(w, a) PROVE KeyedInv'
    BY <1>9 DEF GiveUp
  <1>10. ASSUME NEW w \in Workers, NEW a \in Actions, TakeMarker(w, a) PROVE KeyedInv'
    BY <1>10 DEF TakeMarker
  <1>11. ASSUME NEW w \in Workers, Reload(w) PROVE KeyedInv'
    BY <1>11 DEF Reload
  <1>12. ASSUME NEW w \in Workers, Submit(w) PROVE KeyedInv'
    BY <1>12 DEF Submit, SetTx, MarkersHeld, InFlightPc
  <1>13. ASSUME NEW w \in Workers, RecordReceipt(w) PROVE KeyedInv'
    <2> DEFINE a == job[w]
    <2>1. a \in Actions /\ pc[w] = "sent" /\ UNCHANGED <<job, seen, chainVars>>
      BY <1>13 DEF RecordReceipt
    <2>2. PICK n \in ReceiptsFor(a, marker[w]) :
            /\ tx_hash' = [tx_hash EXCEPT ![a] = Written(@, seen[w].tx_hash, n)]
            /\ \E outcome \in OutcomeOf(a, n) : WriteState(w, outcome)
      BY <1>13 DEF RecordReceipt
    <2>3. n \in Landed(a) /\ n # NoTx
      BY <2>2 DEF ReceiptsFor
    <2>4. SeenHashIsOld'
      BY <1>13, <2>1, <2>2, <2>3 DEF RecordReceipt, Written
    <2>5. ASSUME keyed PROVE tx_hash'[a] = n
      <3>1. CASE n = seen[w].tx_hash
        <4>1. tx_hash[a] # NoTx
          BY <2>1, <2>3, <3>1
        <4>2. tx_hash[a] \in Landed(a)
          BY <2>1, <4>1 DEF ConfirmedIsMinted
        <4>3. tx_hash[a] = n
          BY <2>1, <2>3, <2>5, <4>2
        <4> QED
          BY <2>1, <2>2, <3>1, <4>3 DEF Written
      <3>2. CASE n # seen[w].tx_hash
        BY <2>1, <2>2, <3>2 DEF Written
      <3> QED
        BY <3>1, <3>2
    <2>6. ASSUME keyed, state'[a] = "CONFIRMED" PROVE chain[a][n] = "confirmed"
      <3>1. PICK outcome \in OutcomeOf(a, n) : WriteState(w, outcome)
        BY <2>2
      <3>2. CASE outcome = "CONFIRMED"
        BY <3>1, <3>2 DEF OutcomeOf
      <3>3. CASE outcome # "CONFIRMED"
        <4>1. state[a] = "CONFIRMED"
          BY <2>1, <2>6, <3>1, <3>3 DEF WriteState, Written
        <4>2. tx_hash[a] \in Attempts /\ chain[a][tx_hash[a]] = "confirmed"
          BY <2>1, <2>6, <4>1
        <4>3. tx_hash[a] \in Landed(a)
          BY <4>2
        <4>4. tx_hash[a] = n
          BY <2>1, <2>3, <2>6, <4>3
        <4> QED
          BY <4>2, <4>4
      <3> QED
        BY <3>2, <3>3
    <2>7. \A b \in Actions : b # a => state'[b] = state[b] /\ tx_hash'[b] = tx_hash[b]
      BY <2>1, <2>2 DEF WriteState
    <2>8. OneLanded'
      <3>1. OneLanded /\ chain' = chain /\ keyed' = keyed
        BY <2>1 DEF chainVars
      <3> HIDE DEF TypeOK, ConfirmedIsMinted, KeyedInv
      <3> QED
        BY <3>1 DEF OneLanded, Landed
    <2>9. ASSUME keyed, NEW b \in Actions, state'[b] = "CONFIRMED"
          PROVE  tx_hash'[b] # NoTx /\ chain[b][tx_hash'[b]] = "confirmed"
      <3>1. CASE b = a
        BY <2>3, <2>5, <2>6, <2>9, <3>1
      <3>2. CASE b # a
        BY <2>7, <2>9, <3>2
      <3> QED
        BY <3>1, <3>2
    <2> QED
      BY <2>1, <2>4, <2>8, <2>9
  <1>14. ASSUME NEW w \in Workers, RecordAmbiguous(w) PROVE KeyedInv'
    BY <1>14 DEF RecordAmbiguous, WriteState, Written, Finish
  <1>15. ASSUME NEW w \in Workers, RecordError(w) PROVE KeyedInv'
    BY <1>15 DEF RecordError, WriteState, Written, Finish
  <1>16. ASSUME NEW w \in Workers, AuditState(w) \/ AuditFails(w) \/ WorkerCrash(w)
         PROVE  KeyedInv'
    <2>1. /\ Finish(w)
          /\ UNCHANGED <<state, tx_hash, chain, keyed>>
      BY <1>16 DEF AuditState, AuditFails, WorkerCrash
    <2> QED
      BY <2>1 DEF Finish
  <1>17. CASE \/ \E a \in Actions : \/ Review(a) \/ CreateIntent(a) \/ RollbackIntent(a)
                                  \/ BackoffElapses(a)
              \/ \E d \in Dispatchers : DispatchNext(d)
              \/ UNCHANGED vars
    BY <1>2, <1>17
    DEF Review, CreateIntent, RollbackIntent, BackoffElapses, DispatchNext, SelectBatch,
        CommitBatch, DispatcherCrash, Publish, PublishFails, vars
  <1> QED
    BY <1>3, <1>4, <1>5, <1>6, <1>7, <1>8, <1>9, <1>10, <1>11, <1>12, <1>13, <1>14, <1>15,
         <1>16, <1>17
    DEF Next, RequestNext, ChainNext, ExecuteNext

\* If the chain enforces the idempotency key, a CONFIRMED row names the
\* transaction that was confirmed, for any number of workers, crashes, duplicate
\* deliveries and late answers (execute, lines 52-57 and 66-70).
THEOREM KeyedHashesAreConfirmed == Spec => []KeyedHashIsConfirmed
  <1>1. KeyedInv => KeyedHashIsConfirmed
    BY DEF KeyedInv
  <1>2. Spec => [](IInv /\ KeyedInv)
    BY InvInit, InvStep, KeyedInit, KeyedStep, PTL DEF Spec
  <1> QED
    BY <1>1, <1>2, PTL

-----------------------------------------------------------------------------
(* One worker.                                                             *)

\* A deployment with a single mint worker.
Serial == \A v, w \in Workers : v = w

\* The copy a worker reloaded is still the row.
SeenIsCurrent ==
  \A w \in Workers :
    pc[w] \in {"ready", "sent"} =>
      /\ seen[w].state = state[job[w]]
      /\ seen[w].tx_hash = tx_hash[job[w]]

\* The job of a worker in flight has no recorded outcome.
JobIsOpen ==
  \A w \in Workers : pc[w] \in InFlightPc => state[job[w]] \in {"PENDING", "FAILED"}

SerialInv == SeenIsCurrent /\ JobIsOpen /\ ConfirmedHashIsConfirmed

\* No worker is in flight and no row is confirmed initially.
LEMMA SerialInit == Init => SerialInv
  BY DEF Init, SerialInv, SeenIsCurrent, JobIsOpen, ConfirmedHashIsConfirmed, InFlightPc

\* What one transaction status change does to the landed attempts.
LEMMA ChainAfter ==
  ASSUME TypeOK, NEW a \in Actions, NEW n \in Attempts, NEW status, SetTx(a, n, status)
  PROVE  \A b \in Actions, m \in Attempts :
           chain'[b][m] = IF b = a /\ m = n THEN status ELSE chain[b][m]
  BY DEF TypeOK, SetTx

\* A step that leaves the workers and the columns state and tx_hash alone, and
\* confirms whatever was confirmed, keeps SerialInv.
LEMMA SerialFrame ==
  ASSUME SerialInv, UNCHANGED <<state, tx_hash, workerVars>>,
         \A a \in Actions, n \in Attempts :
           chain[a][n] = "confirmed" => chain'[a][n] = "confirmed",
         TypeOK
  PROVE  SerialInv'
  <1>1. SeenIsCurrent' /\ JobIsOpen'
    BY DEF SerialInv, SeenIsCurrent, JobIsOpen, workerVars
  <1>2. ASSUME NEW a \in Actions, state[a] = "CONFIRMED"
        PROVE  tx_hash[a] # NoTx /\ chain'[a][tx_hash[a]] = "confirmed"
    <2>1. tx_hash[a] # NoTx /\ chain[a][tx_hash[a]] = "confirmed"
      BY <1>2 DEF SerialInv, ConfirmedHashIsConfirmed
    <2>2. tx_hash[a] \in Attempts
      BY <2>1, MintingAssumption DEF TypeOK, Attempts, NoTx
    <2> QED
      BY <2>1, <2>2
  <1> QED
    BY <1>1, <1>2 DEF SerialInv, ConfirmedHashIsConfirmed

\* A worker that finishes without touching its row keeps SerialInv.
LEMMA SerialFinish ==
  ASSUME TypeOK, SerialInv, NEW w \in Workers, Finish(w), UNCHANGED <<state, tx_hash, chain>>
  PROVE  SerialInv'
  BY DEF TypeOK, SerialInv, SeenIsCurrent, JobIsOpen, ConfirmedHashIsConfirmed, InFlightPc, Finish

\* With one worker every step keeps its copy of the row current: what it writes
\* is an answer to the row as it stands.
LEMMA SerialStep ==
  ASSUME Serial
  PROVE  IInv /\ IInv' /\ SerialInv /\ [Next]_vars => SerialInv'
  <1> SUFFICES ASSUME IInv, IInv', SerialInv, [Next]_vars PROVE SerialInv'
    OBVIOUS
  <1>1. TypeOK /\ TypeOK' /\ MarkersHeld
    BY DEF IInv, Inductive
  <1>2. \A v, w \in Workers : v = w
    BY DEF Serial
  <1> USE <1>1, MintingAssumption DEF requestVars, intentVars, dispatchVars, workerVars, chainVars
  <1> DEFINE Frame == \A a \in Actions, n \in Attempts :
                        chain[a][n] = "confirmed" => chain'[a][n] = "confirmed"
  <1>3. CASE \/ \E a \in Actions : \/ Review(a) \/ CreateIntent(a) \/ RollbackIntent(a)
                                 \/ BackoffElapses(a)
             \/ \E d \in Dispatchers : DispatchNext(d)
             \/ UNCHANGED vars
    <2>1. UNCHANGED <<state, tx_hash, workerVars>> /\ Frame
      BY <1>3
      DEF Review, CreateIntent, RollbackIntent, BackoffElapses, DispatchNext, SelectBatch,
          CommitBatch, DispatcherCrash, Publish, PublishFails, vars
    <2> QED
      BY <2>1, SerialFrame
  <1>4. ASSUME NEW a \in Actions, NEW n \in Attempts, Land(a, n) \/ Lose(a, n) \/ Confirm(a, n)
        PROVE  SerialInv'
    <2>1. UNCHANGED <<state, tx_hash, workerVars>>
      BY <1>4 DEF Land, Lose, Confirm
    <2>2. PICK status \in TxStatus : SetTx(a, n, status) /\ chain[a][n] # "confirmed"
      BY <1>4 DEF Land, Lose, Confirm, TxStatus
    <2>3. Frame
      BY <2>2, ChainAfter
    <2> QED
      BY <2>1, <2>3, SerialFrame
  <1>5. ASSUME NEW a \in Actions, CommitIntent(a) PROVE SerialInv'
    <2>1. state[a] = "NONE" /\ state' = [state EXCEPT ![a] = "PENDING"]
      BY <1>5 DEF CommitIntent, IInv, Inductive, CreatingIsInvisible
    <2>2. \A w \in Workers : pc[w] \in InFlightPc => job[w] # a
      BY <2>1 DEF SerialInv, JobIsOpen
    <2> QED
      BY <1>5, <2>1, <2>2
      DEF CommitIntent, TypeOK, SerialInv, SeenIsCurrent, JobIsOpen, ConfirmedHashIsConfirmed,
          InFlightPc
  <1>6. ASSUME NEW w \in Workers, NEW a \in Actions,
               ReconcileFound(w, a) \/ ReconcileMissing(w, a) \/ GiveUp(w, a)
        PROVE  SerialInv'
    <2>1. \A v \in Workers : pc[v] \notin InFlightPc /\ pc'[v] \notin InFlightPc
      BY <1>2, <1>6 DEF ReconcileFound, ReconcileMissing, GiveUp, Delivered, TypeOK, InFlightPc
    <2>2. SeenIsCurrent' /\ JobIsOpen'
      BY <2>1 DEF SeenIsCurrent, JobIsOpen, InFlightPc
    <2>3. ConfirmedHashIsConfirmed'
      BY <1>6 DEF ReconcileFound, ReconcileMissing, GiveUp, Landed, OutcomeOf, TypeOK,
        SerialInv, ConfirmedHashIsConfirmed, NoTx, Attempts
    <2> QED
      BY <2>2, <2>3 DEF SerialInv
  <1>7. ASSUME NEW w \in Workers, NEW a \in Actions, TakeMarker(w, a) PROVE SerialInv'
    BY <1>2, <1>7 DEF TakeMarker, Delivered, TypeOK, SerialInv, SeenIsCurrent, JobIsOpen,
      ConfirmedHashIsConfirmed, InFlightPc
  <1>8. ASSUME NEW w \in Workers, Reload(w) PROVE SerialInv'
    BY <1>2, <1>8 DEF Reload, TypeOK, SerialInv, SeenIsCurrent, JobIsOpen,
      ConfirmedHashIsConfirmed, InFlightPc
  <1>9. ASSUME NEW w \in Workers, Submit(w) PROVE SerialInv'
    <2>1. chain[job[w]][marker[w]] = "none" /\ job[w] \in Actions /\ marker[w] \in Attempts
      BY <1>9 DEF Submit, MarkersHeld, InFlightPc, TypeOK, Attempts
    <2>2. SeenIsCurrent' /\ JobIsOpen'
      BY <1>9 DEF Submit, TypeOK, SerialInv, SeenIsCurrent, JobIsOpen, InFlightPc
    <2>3. SetTx(job[w], marker[w], "sent") /\ UNCHANGED <<state, tx_hash>>
      BY <1>9 DEF Submit
    <2>4. \A b \in Actions, m \in Attempts :
            chain[b][m] = "confirmed" => chain'[b][m] = "confirmed"
      BY <2>1, <2>3, ChainAfter
    <2>5. ConfirmedHashIsConfirmed'
      BY <2>3, <2>4 DEF TypeOK, SerialInv, ConfirmedHashIsConfirmed, NoTx, Attempts
    <2> QED
      BY <2>2, <2>5 DEF SerialInv
  <1>10. ASSUME NEW w \in Workers, RecordReceipt(w) PROVE SerialInv'
    <2> DEFINE a == job[w]
    <2>1. a \in Actions /\ pc[w] = "sent"
      BY <1>10 DEF RecordReceipt, TypeOK
    <2>2. seen[w].state = state[a] /\ seen[w].tx_hash = tx_hash[a]
      BY <2>1 DEF SerialInv, SeenIsCurrent
    <2>3. PICK n \in ReceiptsFor(a, marker[w]) :
            /\ tx_hash' = [tx_hash EXCEPT ![a] = Written(@, seen[w].tx_hash, n)]
            /\ \E outcome \in OutcomeOf(a, n) : WriteState(w, outcome)
      BY <1>10 DEF RecordReceipt
    <2>4. PICK outcome \in OutcomeOf(a, n) : WriteState(w, outcome)
      BY <2>3
    <2>5. n \in Attempts
      BY <2>3 DEF ReceiptsFor, Landed
    <2>6. tx_hash' = [tx_hash EXCEPT ![a] = n]
      BY <2>1, <2>2, <2>3 DEF Written, TypeOK
    <2>7. state' = [state EXCEPT ![a] = outcome]
      BY <2>1, <2>2, <2>4 DEF Written, WriteState, TypeOK
    <2>8. \A v \in Workers : pc'[v] \notin InFlightPc
      BY <1>2, <1>10 DEF RecordReceipt, TypeOK, InFlightPc
    <2>9. SeenIsCurrent' /\ JobIsOpen'
      BY <2>8 DEF SeenIsCurrent, JobIsOpen, InFlightPc
    <2>10. chain' = chain /\ (outcome = "CONFIRMED" => chain[a][n] = "confirmed")
      BY <1>10, <2>4 DEF RecordReceipt, OutcomeOf
    <2>11. ConfirmedHashIsConfirmed'
      BY <2>1, <2>5, <2>6, <2>7, <2>10
      DEF TypeOK, SerialInv, ConfirmedHashIsConfirmed, NoTx, Attempts
    <2> QED
      BY <2>9, <2>11 DEF SerialInv
  <1>11. ASSUME NEW w \in Workers, RecordAmbiguous(w) \/ RecordError(w) PROVE SerialInv'
    <2>1. \A v \in Workers : pc'[v] \notin InFlightPc
      BY <1>2, <1>11 DEF RecordAmbiguous, RecordError, Finish, TypeOK, InFlightPc
    <2>2. SeenIsCurrent' /\ JobIsOpen'
      BY <2>1 DEF SeenIsCurrent, JobIsOpen, InFlightPc
    <2>3. ConfirmedHashIsConfirmed'
      BY <1>11 DEF RecordAmbiguous, RecordError, WriteState, Written, TypeOK, SerialInv,
        ConfirmedHashIsConfirmed
    <2> QED
      BY <2>2, <2>3 DEF SerialInv
  <1>12. ASSUME NEW w \in Workers, AuditState(w) \/ AuditFails(w) \/ WorkerCrash(w)
         PROVE  SerialInv'
    BY <1>12, SerialFinish DEF AuditState, AuditFails, WorkerCrash
  <1> QED
    BY <1>3, <1>4, <1>5, <1>6, <1>7, <1>8, <1>9, <1>10, <1>11, <1>12
    DEF Next, RequestNext, ChainNext, ExecuteNext

\* SerialInv is an invariant of a deployment with one worker.
LEMMA SerialInvariant == ASSUME Serial PROVE Spec => [](IInv /\ SerialInv)
  <1>1. IInv /\ IInv' /\ SerialInv /\ [Next]_vars => SerialInv'
    BY SerialStep
  <1> QED
    BY <1>1, InvInit, InvStep, SerialInit, PTL DEF Spec

\* With one mint worker a CONFIRMED row names the transaction that was
\* confirmed, on any chain, under crashes, duplicate deliveries and receipts
\* that are out of date (execute, lines 54 and 67-70).
THEOREM SerialHashesAreConfirmed == ASSUME Serial PROVE Spec => []ConfirmedHashIsConfirmed
  <1>1. SerialInv => ConfirmedHashIsConfirmed
    BY DEF SerialInv
  <1> QED
    BY <1>1, SerialInvariant, PTL

-----------------------------------------------------------------------------
(* The pipeline implements MintPromise.                                    *)

Requested == {a \in Actions : state[a] # "NONE"}
Reported == {a \in Actions : state[a] = "CONFIRMED"}
Minted == [a \in Actions |-> Landed(a)]

\* Initial states map to initial states of the promise.
LEMMA PromiseInits == Init => Promise!PromiseInit
  BY DEF Init, Promise!PromiseInit, Landed

\* A worker's answer to an attempt either leaves the set of confirmed actions
\* alone, or reports its own job, or withdraws it after a second attempt.
LEMMA AnswerStep ==
  ASSUME IInv, NEW w \in Workers, pc[w] \in {"ready", "sent"},
         NEW value \in States \ {"NONE"}, WriteState(w, value),
         value = "CONFIRMED" => Landed(job[w]) # {},
         UNCHANGED <<attempts, chain>>
  PROVE  [Promise!PromiseNext]_<<Requested, attempts, Minted, Reported>>
  <1> DEFINE a == job[w]
  <1>1. a \in Actions /\ state[a] # "NONE" /\ pc[w] \in InFlightPc
    BY DEF IInv, TypeOK, Inductive, WorkersOnJob, InFlightPc
  <1>2. attempts[a] \in Nat /\ (state[a] = "CONFIRMED" => attempts[a] > 1)
    <2>1. attempts[a] \in Nat /\ marker[w] \in 1 .. attempts[a]
      BY <1>1, MintingAssumption DEF IInv, TypeOK, Inductive, MarkersHeld
    <2>2. attempts[a] = 1 => state[a] # "CONFIRMED"
      BY <1>1 DEF IInv, Inductive, FirstAttempt, InFlight, InFlightPc
    <2> QED
      BY <2>1, <2>2
  <1>3. state' = [state EXCEPT ![a] = state'[a]] /\ state'[a] \in {state[a], value}
    BY <1>1 DEF IInv, TypeOK, WriteState, Written
  <1>4. Requested' = Requested /\ Minted' = Minted
    BY <1>1, <1>3 DEF Requested, Minted, Landed, IInv, TypeOK
  <1>5. CASE state[a] # "CONFIRMED" /\ state'[a] = "CONFIRMED"
    <2>1. Reported' = Reported \union {a} /\ a \in Requested \ Reported
      BY <1>1, <1>3, <1>5 DEF Reported, Requested, IInv, TypeOK
    <2>2. Minted[a] # {}
      BY <1>1, <1>3, <1>5 DEF Minted
    <2> QED
      BY <1>1, <1>4, <2>1, <2>2
      DEF Promise!PromiseNext, Promise!Report, Requested, Reported, Minted
  <1>6. CASE state[a] = "CONFIRMED" /\ state'[a] # "CONFIRMED"
    <2>1. Reported' = Reported \ {a} /\ a \in Reported
      BY <1>1, <1>3, <1>6 DEF Reported, IInv, TypeOK
    <2> QED
      BY <1>1, <1>2, <1>4, <1>6, <2>1
      DEF Promise!PromiseNext, Promise!Withdraw, Requested, Reported, Minted
  <1>7. CASE (state[a] = "CONFIRMED") = (state'[a] = "CONFIRMED")
    <2>1. Reported' = Reported
      BY <1>1, <1>3, <1>7 DEF Reported, IInv, TypeOK
    <2> QED
      BY <1>4, <2>1
  <1> QED
    BY <1>5, <1>6, <1>7

\* Every step maps to a step of the promise or to a stutter.
LEMMA PromiseStep ==
  IInv /\ [Next]_vars => [Promise!PromiseNext]_<<Requested, attempts, Minted, Reported>>
  <1> DEFINE Step == [Promise!PromiseNext]_<<Requested, attempts, Minted, Reported>>
  <1> SUFFICES ASSUME IInv, [Next]_vars PROVE Step
    OBVIOUS
  <1> USE MintingAssumption
      DEF requestVars, intentVars, dispatchVars, workerVars, chainVars, Requested, Reported, Minted
  <1>1. ASSUME UNCHANGED <<state, attempts, chain>> PROVE Step
    BY <1>1 DEF Landed
  <1>2. ASSUME NEW a \in Actions, CommitIntent(a) PROVE Step
    <2>1. a \notin Requested /\ Requested' = Requested \union {a} /\ Reported' = Reported
      BY <1>2 DEF CommitIntent, IInv, TypeOK, Inductive, CreatingIsInvisible
    <2>2. Minted' = Minted /\ attempts' = attempts
      BY <1>2 DEF CommitIntent, Landed
    <2> QED
      BY <2>1, <2>2 DEF Promise!PromiseNext, Promise!Request
  <1>3. ASSUME NEW a \in Actions, NEW n \in Attempts, Land(a, n) PROVE Step
    <2>1. n \in 1 .. attempts[a] /\ n \notin Landed(a)
      BY <1>3 DEF Land, Landed, IInv, TypeOK, AttemptsCoverSubmissions, Attempts
    <2>2. Minted' = [Minted EXCEPT ![a] = @ \union {n}]
      <3>1. \A b \in Actions, m \in Attempts :
              chain'[b][m] = IF b = a /\ m = n THEN "landed" ELSE chain[b][m]
        BY <1>3, ChainAfter DEF Land, IInv
      <3>2. \A b \in Actions :
              Landed(b)' = IF b = a THEN Landed(b) \union {n} ELSE Landed(b)
        BY <3>1 DEF Landed
      <3> QED
        BY <3>2
    <2>3. UNCHANGED <<Requested, attempts, Reported>>
      BY <1>3 DEF Land
    <2> QED
      BY <2>1, <2>2, <2>3 DEF Promise!PromiseNext, Promise!Mint, Attempts
  <1>4. ASSUME NEW a \in Actions, NEW n \in Attempts, Lose(a, n) \/ Confirm(a, n) PROVE Step
    <2>1. PICK status \in TxStatus : SetTx(a, n, status)
      BY <1>4 DEF Lose, Confirm, TxStatus
    <2>2. \A b \in Actions, m \in Attempts :
            chain'[b][m] = IF b = a /\ m = n THEN chain'[a][n] ELSE chain[b][m]
      BY <2>1, ChainAfter DEF IInv
    <2>3. (chain[a][n] \in {"landed", "confirmed"}) = (chain'[a][n] \in {"landed", "confirmed"})
      BY <1>4, ChainAfter DEF Lose, Confirm, IInv
    <2>4. \A b \in Actions : Landed(b)' = Landed(b)
      BY <2>2, <2>3 DEF Landed
    <2> QED
      BY <1>4, <2>4 DEF Lose, Confirm
  <1>5. ASSUME NEW w \in Workers, Submit(w) PROVE Step
    <2>1. \A a \in Actions, n \in Attempts :
            (chain[a][n] \in {"landed", "confirmed"}) = (chain'[a][n] \in {"landed", "confirmed"})
      BY <1>5 DEF Submit, SetTx, IInv, TypeOK, Inductive, MarkersHeld
    <2>2. Minted' = Minted
      BY <2>1 DEF Landed
    <2> QED
      BY <1>5, <2>2 DEF Submit
  <1>6. ASSUME NEW w \in Workers, NEW a \in Actions, ReconcileFound(w, a) PROVE Step
    <2>1. /\ state[a] \in {"SUBMITTED", "AMBIGUOUS"}
          /\ Landed(a) # {}
          /\ state' \in {[state EXCEPT ![a] = "SUBMITTED"], [state EXCEPT ![a] = "CONFIRMED"]}
      BY <1>6 DEF ReconcileFound, OutcomeOf
    <2>2. Minted' = Minted /\ attempts' = attempts
      BY <1>6 DEF ReconcileFound, Landed
    <2>3. Requested' = Requested /\ a \in Requested \ Reported
      BY <2>1 DEF IInv, TypeOK
    <2>4. Reported' \in {Reported, Reported \union {a}}
      BY <2>1 DEF IInv, TypeOK
    <2> QED
      BY <2>1, <2>2, <2>3, <2>4 DEF Promise!PromiseNext, Promise!Report
  <1>7. ASSUME NEW w \in Workers, NEW a \in Actions, ReconcileMissing(w, a) \/ GiveUp(w, a)
        PROVE  Step
    <2>1. Requested' = Requested /\ Reported' = Reported
      BY <1>7 DEF ReconcileMissing, GiveUp, IInv, TypeOK
    <2> QED
      BY <1>7, <2>1 DEF ReconcileMissing, GiveUp, Landed
  <1>8. ASSUME NEW w \in Workers, NEW a \in Actions, TakeMarker(w, a) PROVE Step
    <2>1. /\ a \in Requested \ Reported
          /\ attempts[a] < MAX_ATTEMPTS
          /\ attempts' = [attempts EXCEPT ![a] = @ + 1]
          /\ UNCHANGED <<Requested, Reported>>
      BY <1>8 DEF TakeMarker
    <2>2. Minted' = Minted
      BY <1>8 DEF TakeMarker, Landed
    <2> QED
      BY <2>1, <2>2 DEF Promise!PromiseNext, Promise!Reserve
  <1>9. ASSUME NEW w \in Workers, RecordReceipt(w) PROVE Step
    <2>1. PICK n \in ReceiptsFor(job[w], marker[w]) :
            \E outcome \in OutcomeOf(job[w], n) : WriteState(w, outcome)
      BY <1>9 DEF RecordReceipt
    <2>2. PICK value \in OutcomeOf(job[w], n) : WriteState(w, value)
      BY <2>1
    <2>3. /\ value \in States \ {"NONE"}
          /\ Landed(job[w]) # {}
          /\ pc[w] = "sent"
          /\ UNCHANGED <<attempts, chain>>
      BY <1>9, <2>1, <2>2 DEF RecordReceipt, OutcomeOf, ReceiptsFor, States
    <2> QED
      BY <2>2, <2>3, AnswerStep
  <1>10. ASSUME NEW w \in Workers, RecordAmbiguous(w) PROVE Step
    <2>1. /\ WriteState(w, "AMBIGUOUS")
          /\ pc[w] = "sent"
          /\ UNCHANGED <<attempts, chain>>
      BY <1>10 DEF RecordAmbiguous
    <2> QED
      BY <2>1, AnswerStep DEF States
  <1>11. ASSUME NEW w \in Workers, RecordError(w) PROVE Step
    <2>1. /\ WriteState(w, "FAILED") \/ WriteState(w, "PENDING")
          /\ pc[w] = "ready"
          /\ UNCHANGED <<attempts, chain>>
      BY <1>11 DEF RecordError
    <2> QED
      BY <2>1, AnswerStep DEF States
  <1>12. CASE \/ \E a \in Actions : \/ Review(a) \/ CreateIntent(a) \/ RollbackIntent(a)
                                  \/ BackoffElapses(a)
              \/ \E d \in Dispatchers : DispatchNext(d)
              \/ \E w \in Workers : \/ Reload(w) \/ AuditState(w) \/ AuditFails(w)
                                  \/ WorkerCrash(w)
              \/ UNCHANGED vars
    BY <1>1, <1>12
    DEF Review, CreateIntent, RollbackIntent, BackoffElapses, DispatchNext, SelectBatch,
        CommitBatch, DispatcherCrash, Publish, PublishFails, Reload, AuditState, AuditFails,
        WorkerCrash, vars
  <1> QED
    BY <1>2, <1>3, <1>4, <1>5, <1>6, <1>7, <1>8, <1>9, <1>10, <1>11, <1>12
    DEF Next, RequestNext, ChainNext, ExecuteNext

\* For any number of actions, workers, dispatchers and crashes the pipeline
\* implements the promise: each step of it is a step of MintPromise or leaves
\* what MintPromise speaks of alone.
THEOREM PipelineKeepsPromise == Spec => KeepsPromise
  <1>1. Spec => []IInv
    BY Invariance
  <1>2. Init => Promise!PromiseInit
    BY PromiseInits
  <1>3. IInv /\ [Next]_vars => [Promise!PromiseNext]_(Promise!promiseVars)
    BY PromiseStep DEF Promise!promiseVars, Requested, Reported, Minted
  <1> QED
    BY <1>1, <1>2, <1>3, PTL DEF Spec, KeepsPromise, Promise!PromiseSpec
=============================================================================
