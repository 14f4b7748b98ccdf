-------------------------------- MODULE Node --------------------------------
(***************************************************************************)
(* The processes of a node: how the application factory starts one         *)
(* (peoples_coin/factory.py), the genesis block they all want              *)
(* (consensus.py), the data other nodes send (systems/nervous_system.py)   *)
(* and the background loop that persists the events it raises              *)
(* (systems/cognitive_system.py).                                          *)
(*                                                                         *)
(* A process builds the application itself, or is forked from a master     *)
(* that has built it: the image starts gunicorn with --preload.  A fork    *)
(* inherits the state of the systems but none of their threads.            *)
(***************************************************************************)
EXTENDS Integers, Sequences, SequencesExt, FiniteSets

CONSTANTS
  Processes,
  Servers,       \* the processes that answer requests
  Master,        \* of a forked process its master, of the others themselves
  Threads,       \* names for the background threads of a process
  Configured,    \* of BOOLEAN: whether MINTER_WALLET_ADDRESS is set
  Admitted,      \* of BOOLEAN: whether the database's audited_action has the
                 \* type of the events
  MaxEvents,     \* bound on the events received
  MaxCrashes     \* bound on the processes that stop

NoThread == "no thread"

Builders == {p \in Processes : Master[p] = p}

ASSUME NodeAssumption ==
  /\ Servers \subseteq Processes
  /\ Master \in [Processes -> Processes]
  /\ \A p \in Processes : Master[p] \in Builders
  /\ \A p \in Processes \ Builders : Master[p] \notin Servers
  /\ Threads # {} /\ NoThread \notin Threads
  /\ Configured \subseteq BOOLEAN /\ Admitted \subseteq BOOLEAN
  /\ MaxEvents \in Nat /\ MaxCrashes \in Nat

VARIABLES
  configured, admitted,   \* the deployment
  blocks,                 \* chain_blocks of height 0, by who created them
  logged,                 \* audit_log: the events that requests have logged,
  persisted,              \* and what each process's loop has, in commit order
  phase,                  \* how far a process is with its start
  queue,                  \* _in_memory_queue: events by number
  loop,                   \* what each background thread does
  current,                \* _loop_thread
  stop,                   \* _stop_event
  logging,                \* events enqueued by requests not yet committed
  received, crashes       \* counters

processVars == <<phase, queue, loop, current, stop, logging>>
deployment == <<configured, admitted>>
vars == <<deployment, blocks, logged, persisted, processVars, received, crashes>>

Event == 1 .. MaxEvents
Phases == {"down", "configured", "counted none", "counted some", "up"}
\* A thread is not alive, between two events, or persisting an event.
NotAlive == -1
Idle == 0
NoLoop == [t \in Threads |-> NotAlive]

TypeOK ==
  /\ configured \in Configured /\ admitted \in Admitted
  /\ blocks \subseteq Builders
  /\ logged \subseteq Event
  /\ persisted \in [Processes -> Seq(Event)]
  /\ phase \in [Processes -> Phases]
  /\ queue \in [Processes -> Seq(Event)]
  /\ loop \in [Processes -> [Threads -> {NotAlive, Idle} \union Event]]
  /\ current \in [Processes -> Threads \union {NoThread}]
  /\ stop \in [Processes -> BOOLEAN]
  /\ logging \in [Processes -> SUBSET Event]
  /\ received \in 0 .. MaxEvents
  /\ crashes \in 0 .. MaxCrashes

Init ==
  /\ configured \in Configured /\ admitted \in Admitted
  /\ blocks = {}
  /\ logged = {}
  /\ persisted = [p \in Processes |-> <<>>]
  /\ phase = [p \in Processes |-> "down"]
  /\ queue = [p \in Processes |-> <<>>]
  /\ loop = [p \in Processes |-> NoLoop]
  /\ current = [p \in Processes |-> NoThread]
  /\ stop = [p \in Processes |-> FALSE]
  /\ logging = [p \in Processes |-> {}]
  /\ received = 0
  /\ crashes = 0

-----------------------------------------------------------------------------
(* create_app.  An exception ends the process; the platform starts it      *)
(* again.                                                                  *)

GoTo(p, s) == phase' = [phase EXCEPT ![p] = s]

\* The configuration, the extensions and the systems before the consensus.
Configure(p) ==
  /\ p \in Builders
  /\ phase[p] = "down"
  /\ GoTo(p, "configured")
  /\ UNCHANGED <<deployment, blocks, logged, persisted, queue, loop, current, stop, logging, received, crashes>>

\* create_genesis_block_if_needed counts the blocks ...
CountBlocks(p) ==
  /\ phase[p] = "configured"
  /\ GoTo(p, IF blocks = {} THEN "counted none" ELSE "counted some")
  /\ UNCHANGED <<deployment, blocks, logged, persisted, queue, loop, current, stop, logging, received, crashes>>

\* Faulty variant: the height is not unique.
CreateGenesisAnyway(p) ==
  /\ phase[p] = "counted none"
  /\ blocks' = blocks \union {p}
  /\ GoTo(p, "down")
  /\ UNCHANGED <<deployment, logged, persisted, queue, loop, current, stop, logging, received, crashes>>

\* Faulty variant: the exception of line 161 takes the block with it.
CreateGenesisRolledBack(p) ==
  /\ phase[p] = "counted none"
  /\ GoTo(p, "down")
  /\ UNCHANGED <<deployment, blocks, logged, persisted, queue, loop, current, stop, logging, received, crashes>>

\* ... and new_block inserts one if there is none, under the unique height.
\* Either way this start fails: the loser's insertion does, and the winner
\* reads the block's height after the session that committed it was closed.
CreateGenesis(p) ==
  /\ phase[p] = "counted none"
  /\ blocks' = IF blocks = {} THEN {p} ELSE blocks
  /\ GoTo(p, "down")
  /\ UNCHANGED <<deployment, logged, persisted, queue, loop, current, stop, logging, received, crashes>>

IsRunning(p) == current[p] # NoThread /\ loop[p][current[p]] # NotAlive

\* A name that no living thread has.
NewThread(p) == CHOOSE t \in Threads : loop[p][t] = NotAlive

\* Faulty variant: start does not ask whether a loop is alive.
StartLoopAgain(p) ==
  /\ \E t \in Threads : loop[p][t] = NotAlive
  /\ LET t == NewThread(p)
     IN  /\ loop' = [loop EXCEPT ![p][t] = Idle]
         /\ current' = [current EXCEPT ![p] = t]
  /\ stop' = [stop EXCEPT ![p] = FALSE]

\* cognitive_system.start: if no loop is alive, the stop event is cleared and
\* there is a new thread.
StartLoop(p) ==
  /\ ~IsRunning(p)
  /\ LET t == NewThread(p)
     IN  /\ loop' = [loop EXCEPT ![p][t] = Idle]
         /\ current' = [current EXCEPT ![p] = t]
  /\ stop' = [stop EXCEPT ![p] = FALSE]

\* circulatory_system.init_app, then the background threads.
FinishStart(p) ==
  /\ phase[p] = "counted some"
  /\ configured
  /\ StartLoop(p)
  /\ GoTo(p, "up")
  /\ UNCHANGED <<deployment, blocks, logged, persisted, queue, logging, received, crashes>>

\* The minter's wallet is not configured.
CannotStart(p) ==
  /\ phase[p] = "counted some"
  /\ ~configured
  /\ GoTo(p, "down")
  /\ UNCHANGED <<deployment, blocks, logged, persisted, queue, loop, current, stop, logging, received, crashes>>

\* gunicorn forks a worker: the queue and the stop event as they are in the
\* master, a thread that is not alive, and no request under way.
Fork(p) ==
  /\ p \notin Builders
  /\ phase[p] = "down" /\ phase[Master[p]] = "up"
  /\ GoTo(p, "up")
  /\ queue' = [queue EXCEPT ![p] = queue[Master[p]]]
  /\ stop' = [stop EXCEPT ![p] = stop[Master[p]]]
  /\ UNCHANGED <<deployment, blocks, logged, persisted, loop, current, logging, received, crashes>>

\* A process stops, or an exception ends its start; a master's workers stop
\* with it.
Crash(p) ==
  /\ crashes < MaxCrashes
  /\ phase[p] # "down"
  /\ crashes' = crashes + 1
  /\ LET Gone == {q \in Processes : q = p \/ Master[q] = p}
         Reset(f, v) == [q \in Processes |-> IF q \in Gone THEN v ELSE f[q]]
     IN  /\ phase' = Reset(phase, "down")
         /\ queue' = Reset(queue, <<>>)
         /\ loop' = Reset(loop, NoLoop)
         /\ current' = Reset(current, NoThread)
         /\ stop' = Reset(stop, FALSE)
         /\ logging' = Reset(logging, {})
  /\ UNCHANGED <<deployment, blocks, logged, persisted, received>>

-----------------------------------------------------------------------------
(* POST /nervous/receive_node_data                                         *)

\* The event is in the queue before the session commits.
Receive(p) ==
  /\ p \in Servers /\ phase[p] = "up"
  /\ received < MaxEvents
  /\ received' = received + 1
  /\ queue' = [queue EXCEPT ![p] = Append(@, received + 1)]
  /\ logging' = [logging EXCEPT ![p] = @ \union {received + 1}]
  /\ UNCHANGED <<deployment, blocks, logged, persisted, phase, loop, current, stop, crashes>>

\* The commit, answered 202.
Log(p, e) ==
  /\ e \in logging[p]
  /\ admitted
  /\ logged' = logged \union {e}
  /\ logging' = [logging EXCEPT ![p] = @ \ {e}]
  /\ UNCHANGED <<deployment, blocks, persisted, phase, queue, loop, current, stop, received, crashes>>

\* The commit fails, answered 500: the event stays in the queue.
LogFails(p, e) ==
  /\ e \in logging[p]
  /\ logging' = [logging EXCEPT ![p] = @ \ {e}]
  /\ UNCHANGED <<deployment, blocks, logged, persisted, phase, queue, loop, current, stop, received, crashes>>

-----------------------------------------------------------------------------
(* _run_loop.  The RabbitMQ side has no body: nothing comes from there.    *)

Take(p, t) ==
  /\ loop[p][t] = Idle
  /\ ~stop[p]
  /\ queue[p] # <<>>
  /\ loop' = [loop EXCEPT ![p][t] = Head(queue[p])]
  /\ queue' = [queue EXCEPT ![p] = Tail(@)]
  /\ UNCHANGED <<deployment, blocks, logged, persisted, phase, current, stop, logging, received, crashes>>

Persist(p, t) ==
  /\ loop[p][t] \in Event
  /\ admitted
  /\ persisted' = [persisted EXCEPT ![p] = Append(@, loop[p][t])]
  /\ loop' = [loop EXCEPT ![p][t] = Idle]
  /\ UNCHANGED <<deployment, blocks, logged, phase, queue, current, stop, logging, received, crashes>>

\* Faulty variant: the exception ends the thread.
PersistFailsForGood(p, t) ==
  /\ loop[p][t] \in Event
  /\ loop' = [loop EXCEPT ![p][t] = NotAlive]
  /\ UNCHANGED <<deployment, blocks, logged, persisted, phase, queue, current, stop, logging, received, crashes>>

\* The commit fails; the loop goes on, the event is lost.
PersistFails(p, t) ==
  /\ loop[p][t] \in Event
  /\ loop' = [loop EXCEPT ![p][t] = Idle]
  /\ UNCHANGED <<deployment, blocks, logged, persisted, phase, queue, current, stop, logging, received, crashes>>

ExitLoop(p, t) ==
  /\ loop[p][t] = Idle
  /\ stop[p]
  /\ loop' = [loop EXCEPT ![p][t] = NotAlive]
  /\ UNCHANGED <<deployment, blocks, logged, persisted, phase, queue, current, stop, logging, received, crashes>>

\* What the system offers beside: stop waits ten seconds at most for the loop,
\* and start returns at once while it is alive.
StopLoop(p) ==
  /\ phase[p] = "up"
  /\ IsRunning(p)
  /\ stop' = [stop EXCEPT ![p] = TRUE]
  /\ UNCHANGED <<deployment, blocks, logged, persisted, phase, queue, loop, current, logging, received, crashes>>

RestartLoop(p) ==
  /\ phase[p] = "up"
  /\ StartLoop(p)
  /\ UNCHANGED <<deployment, blocks, logged, persisted, phase, queue, logging, received, crashes>>

-----------------------------------------------------------------------------
StartStep(p) ==
  Configure(p) \/ CountBlocks(p) \/ CreateGenesis(p) \/ FinishStart(p) \/ CannotStart(p)

LoopStep(p, t) == Take(p, t) \/ Persist(p, t) \/ PersistFails(p, t)

Next ==
  \E p \in Processes :
    \/ StartStep(p) \/ Fork(p) \/ Crash(p) \/ Receive(p)
    \/ \E e \in Event : Log(p, e) \/ LogFails(p, e)
    \/ \E t \in Threads : LoopStep(p, t) \/ ExitLoop(p, t)
    \/ StopLoop(p) \/ RestartLoop(p)

\* Processes start and fork when they can, and threads run.
Fairness ==
  \A p \in Processes :
    /\ WF_vars(StartStep(p)) /\ WF_vars(Fork(p))
    /\ \A t \in Threads : WF_vars(LoopStep(p, t))

Spec == Init /\ [][Next]_vars /\ Fairness

-----------------------------------------------------------------------------
(* Properties                                                              *)

\* A process that serves does so on exactly one genesis block, although the
\* count and the insertion are separate and processes start together
\* (create_genesis_block_if_needed, lines 66-80).
ServesOnOneGenesis ==
  \A p \in Processes : phase[p] = "up" => Cardinality(blocks) = 1

\* What a process's loop persists is in the order it was enqueued and nothing
\* twice, however the loop is stopped and started around slow commits
\* (start, lines 51-60; stop, lines 62-71; _run_loop, lines 112-126).
PersistedInOrder ==
  \A p \in Processes : \A i, j \in DOMAIN persisted[p] :
    i < j => persisted[p][i] < persisted[p][j]

\* In the end every process serves, if the minter's wallet is configured:
\* whoever creates or fails to create the genesis block fails to start, once
\* (new_block, lines 150-162).
EveryProcessServes ==
  configured => <>[](\A p \in Processes : phase[p] = "up")

\* In a process that has built the application, an event leaves the queue in
\* the end unless the loop is stopped or the process is, although commits fail
\* (_run_loop, lines 112-126).
QueuedIsTaken ==
  \A p \in Builders : \A e \in Event :
    (e \in ToSet(queue[p]) /\ ~stop[p])
      ~> (e \notin ToSet(queue[p]) \/ stop[p])
=============================================================================
