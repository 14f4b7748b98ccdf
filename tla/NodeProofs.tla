----------------------------- MODULE NodeProofs -----------------------------
(***************************************************************************)
(* Proofs about Node, for any number of processes, masters and workers,    *)
(* threads, events and crashes.                                            *)
(***************************************************************************)
EXTENDS Node, FiniteSetTheorems, TLAPS

\* Only builders start; the block is there once a start has counted it, and
\* there is one at most.
GenesisRecord ==
  /\ \A p \in Processes : phase[p] \in {"configured", "counted none", "counted some"} => p \in Builders
  /\ \A p \in Processes : phase[p] \in {"counted some", "up"} => blocks # {}
  /\ \A b, c \in blocks : b = c

\* Only the thread start made last is alive.
OneLoop ==
  \A p \in Processes : \A t \in Threads : loop[p][t] # NotAlive => current[p] = t

\* Only processes that serve have events.
QueuesOfServers == \A p \in Processes \ Servers : queue[p] = <<>>

Increasing(s) == \A i, j \in DOMAIN s : i < j => s[i] < s[j]

\* What is persisted, held and queued follow each other.
LineOf(p) ==
  /\ Increasing(persisted[p]) /\ Increasing(queue[p])
  /\ \A i \in DOMAIN persisted[p] : persisted[p][i] <= received
  /\ \A i \in DOMAIN queue[p] : queue[p][i] <= received
  /\ \A i \in DOMAIN persisted[p], j \in DOMAIN queue[p] : persisted[p][i] < queue[p][j]
  /\ \A t \in Threads : loop[p][t] \in Event =>
       /\ loop[p][t] <= received
       /\ \A i \in DOMAIN persisted[p] : persisted[p][i] < loop[p][t]
       /\ \A j \in DOMAIN queue[p] : loop[p][t] < queue[p][j]

Line == \A p \in Processes : LineOf(p)

NodeInv == TypeOK /\ GenesisRecord /\ OneLoop /\ QueuesOfServers /\ Line

-----------------------------------------------------------------------------
\* The initial states satisfy the invariant.
LEMMA NodeInvInit == Init => NodeInv
  <1> SUFFICES ASSUME Init PROVE NodeInv
    OBVIOUS
  <1> USE NodeAssumption DEF Init, NoLoop
  <1>1. TypeOK
    <2>1. blocks \subseteq Builders /\ logged \subseteq Event
      OBVIOUS
    <2>2. persisted \in [Processes -> Seq(Event)] /\ queue \in [Processes -> Seq(Event)]
      OBVIOUS
    <2>3. loop \in [Processes -> [Threads -> {NotAlive, Idle} \union Event]]
      OBVIOUS
    <2>4. received \in 0 .. MaxEvents /\ crashes \in 0 .. MaxCrashes
      OBVIOUS
    <2> QED
      BY <2>1, <2>2, <2>3, <2>4 DEF TypeOK, Phases
  <1>2. GenesisRecord /\ OneLoop /\ QueuesOfServers
    BY DEF GenesisRecord, OneLoop, QueuesOfServers
  <1>3. Line
    BY DEF Line, LineOf, Increasing, NotAlive, Event
  <1> QED
    BY <1>1, <1>2, <1>3 DEF NodeInv

\* What writing v for thread t of process p does to the threads.
LEMMA ThreadSet ==
  ASSUME TypeOK, NEW p \in Processes, NEW t \in Threads, NEW v \in {NotAlive, Idle} \union Event,
         loop' = [loop EXCEPT ![p][t] = v]
  PROVE  /\ loop' \in [Processes -> [Threads -> {NotAlive, Idle} \union Event]]
         /\ loop'[p] = [loop[p] EXCEPT ![t] = v]
         /\ \A q \in Processes \ {p} : loop'[q] = loop[q]
         /\ \A u \in Threads : loop'[p][u] = IF u = t THEN v ELSE loop[p][u]
  BY DEF TypeOK

\* Every step keeps the types.
LEMMA TypeStep == NodeInv /\ [Next]_vars => TypeOK'
  <1> SUFFICES ASSUME NodeInv, [Next]_vars PROVE TypeOK'
    OBVIOUS
  <1> USE NodeAssumption DEF NodeInv, TypeOK, deployment, GoTo, Phases
  <1>1. ASSUME NEW p \in Processes, Configure(p) \/ CountBlocks(p) \/ CannotStart(p) PROVE TypeOK'
    BY <1>1 DEF Configure, CountBlocks, CannotStart
  <1>2. ASSUME NEW p \in Processes, CreateGenesis(p) PROVE TypeOK'
    <2>1. p \in Builders
      BY <1>2 DEF CreateGenesis, GenesisRecord
    <2> QED
      BY <1>2, <2>1 DEF CreateGenesis
  <1>3. ASSUME NEW p \in Processes, StartLoop(p)
        PROVE  /\ loop' \in [Processes -> [Threads -> {NotAlive, Idle} \union Event]]
               /\ current' \in [Processes -> Threads \union {NoThread}]
               /\ stop' \in [Processes -> BOOLEAN]
    <2>1. NewThread(p) \in Threads
      <3>1. PICK t \in Threads : TRUE
        OBVIOUS
      <3>2. loop[p][t] = NotAlive
        BY <1>3, <3>1 DEF StartLoop, IsRunning, OneLoop, NoThread
      <3> QED
        BY <3>1, <3>2 DEF NewThread
    <2>2. loop' = [loop EXCEPT ![p][NewThread(p)] = Idle]
      BY <1>3 DEF StartLoop
    <2>3. loop' \in [Processes -> [Threads -> {NotAlive, Idle} \union Event]]
      BY ONLY <2>1, <2>2, ThreadSet, TypeOK, p \in Processes
    <2> QED
      BY <1>3, <2>1, <2>3 DEF StartLoop
  <1>4. ASSUME NEW p \in Processes, FinishStart(p) \/ RestartLoop(p) PROVE TypeOK'
    BY <1>3, <1>4 DEF FinishStart, RestartLoop
  <1>5. ASSUME NEW p \in Processes, Fork(p) PROVE TypeOK'
    BY <1>5 DEF Fork
  <1>6. ASSUME NEW p \in Processes, Crash(p) PROVE TypeOK'
    <2>1. crashes' \in 0 .. MaxCrashes
      <3>1. crashes < MaxCrashes /\ crashes' = crashes + 1
        BY ONLY <1>6 DEF Crash
      <3>2. crashes \in 0 .. MaxCrashes /\ MaxCrashes \in Nat
        BY ONLY NodeAssumption, NodeInv DEF NodeInv, TypeOK
      <3> QED
        BY ONLY <3>1, <3>2
    <2>2. NoLoop \in [Threads -> {NotAlive, Idle} \union Event]
      BY DEF NoLoop
    <2>3. /\ phase' \in [Processes -> Phases]
          /\ queue' \in [Processes -> Seq(Event)]
          /\ loop' \in [Processes -> [Threads -> {NotAlive, Idle} \union Event]]
          /\ current' \in [Processes -> Threads \union {NoThread}]
          /\ stop' \in [Processes -> BOOLEAN]
          /\ logging' \in [Processes -> SUBSET Event]
      <3>1. TypeOK
        BY ONLY NodeInv DEF NodeInv
      <3>2. <<>> \in Seq(Event) /\ "down" \in Phases
        BY ONLY DEF Phases
      <3> QED
        BY ONLY <1>6, <2>2, <3>1, <3>2 DEF Crash, TypeOK
    <2>4. UNCHANGED <<deployment, blocks, logged, persisted, received>>
      BY ONLY <1>6 DEF Crash
    <2> QED
      BY ONLY NodeInv, <2>1, <2>3, <2>4 DEF NodeInv, TypeOK, deployment
  <1>7. ASSUME NEW p \in Processes, Receive(p) PROVE TypeOK'
    <2>1. received + 1 \in Event /\ received' \in 0 .. MaxEvents
      <3>1. received < MaxEvents /\ received' = received + 1
        BY ONLY <1>7 DEF Receive
      <3>2. received \in 0 .. MaxEvents /\ MaxEvents \in Nat
        BY ONLY NodeAssumption, NodeInv DEF NodeInv, TypeOK
      <3> QED
        BY ONLY <3>1, <3>2 DEF Event
    <2>2. TypeOK
      BY ONLY NodeInv DEF NodeInv
    <2>3. queue' \in [Processes -> Seq(Event)]
      <3>1. Append(queue[p], received + 1) \in Seq(Event)
        <4>1. queue[p] \in Seq(Event)
          BY ONLY <2>2, p \in Processes DEF TypeOK
        <4> QED
          BY ONLY <2>1, <4>1
      <3> QED
        BY ONLY <1>7, <2>2, <3>1 DEF Receive, TypeOK
    <2>4. logging' \in [Processes -> SUBSET Event]
      BY ONLY <1>7, <2>1, <2>2 DEF Receive, TypeOK
    <2>5. UNCHANGED <<deployment, blocks, logged, persisted, phase, loop, current, stop, crashes>>
      BY ONLY <1>7 DEF Receive
    <2> QED
      BY ONLY <2>1, <2>2, <2>3, <2>4, <2>5 DEF TypeOK, deployment
  <1>8. ASSUME NEW p \in Processes, NEW e \in Event, Log(p, e) \/ LogFails(p, e) PROVE TypeOK'
    <2>1. TypeOK
      BY ONLY NodeInv DEF NodeInv
    <2>2. logging' \in [Processes -> SUBSET Event]
      <3>1. logging' = [logging EXCEPT ![p] = @ \ {e}]
        BY ONLY <1>8 DEF Log, LogFails
      <3> QED
        BY ONLY <2>1, <3>1, p \in Processes DEF TypeOK
    <2>3. logged' = logged \/ logged' = logged \union {e}
      BY ONLY <1>8 DEF Log, LogFails
    <2>4. UNCHANGED <<deployment, blocks, persisted, phase, queue, loop, current, stop, received, crashes>>
      BY ONLY <1>8 DEF Log, LogFails
    <2> QED
      BY ONLY <2>1, <2>2, <2>3, <2>4, e \in Event DEF TypeOK, deployment
  <1>9. ASSUME NEW p \in Processes, NEW t \in Threads, Take(p, t) PROVE TypeOK'
    <2>1. Head(queue[p]) \in Event /\ Tail(queue[p]) \in Seq(Event)
      <3>1. queue[p] \in Seq(Event) /\ queue[p] # <<>>
        BY ONLY NodeInv, <1>9, p \in Processes DEF NodeInv, TypeOK, Take
      <3> QED
        BY ONLY <3>1
    <2>2. loop' = [loop EXCEPT ![p][t] = Head(queue[p])]
      BY <1>9 DEF Take
    <2>3. loop' \in [Processes -> [Threads -> {NotAlive, Idle} \union Event]]
      BY ONLY <2>1, <2>2, ThreadSet, TypeOK, p \in Processes, t \in Threads
    <2>4. queue' \in [Processes -> Seq(Event)]
      BY ONLY NodeInv, <1>9, <2>1 DEF NodeInv, TypeOK, Take
    <2>5. UNCHANGED <<deployment, blocks, logged, persisted, phase, current, stop, logging, received, crashes>>
      BY ONLY <1>9 DEF Take
    <2> QED
      BY ONLY NodeInv, <2>3, <2>4, <2>5 DEF NodeInv, TypeOK, deployment
  <1>10. ASSUME NEW p \in Processes, NEW t \in Threads, Persist(p, t) PROVE TypeOK'
    <2>1. loop' = [loop EXCEPT ![p][t] = Idle]
      BY <1>10 DEF Persist
    <2>2. loop' \in [Processes -> [Threads -> {NotAlive, Idle} \union Event]]
      BY ONLY <2>1, ThreadSet, TypeOK, p \in Processes, t \in Threads
    <2>3. Append(persisted[p], loop[p][t]) \in Seq(Event)
      <3>1. persisted[p] \in Seq(Event) /\ loop[p][t] \in Event
        BY ONLY NodeInv, <1>10, p \in Processes DEF NodeInv, TypeOK, Persist
      <3> QED
        BY ONLY <3>1
    <2>4. persisted' \in [Processes -> Seq(Event)]
      BY ONLY NodeInv, <1>10, <2>3 DEF NodeInv, TypeOK, Persist
    <2>5. UNCHANGED <<deployment, blocks, logged, phase, queue, current, stop, logging, received, crashes>>
      BY ONLY <1>10 DEF Persist
    <2> QED
      BY ONLY NodeInv, <2>2, <2>4, <2>5 DEF NodeInv, TypeOK, deployment
  <1>11. ASSUME NEW p \in Processes, NEW t \in Threads, PersistFails(p, t) \/ ExitLoop(p, t)
         PROVE TypeOK'
    <2>1. loop' = [loop EXCEPT ![p][t] = Idle] \/ loop' = [loop EXCEPT ![p][t] = NotAlive]
      BY <1>11 DEF PersistFails, ExitLoop
    <2>2. loop' \in [Processes -> [Threads -> {NotAlive, Idle} \union Event]]
      BY ONLY <2>1, ThreadSet, TypeOK, p \in Processes, t \in Threads
    <2> QED
      BY <1>11, <2>2 DEF PersistFails, ExitLoop
  <1>12. ASSUME NEW p \in Processes, StopLoop(p) PROVE TypeOK'
    BY <1>12 DEF StopLoop
  <1>13. CASE UNCHANGED vars
    BY <1>13 DEF vars, processVars
  <1> QED
    BY <1>1, <1>2, <1>4, <1>5, <1>6, <1>7, <1>8, <1>9, <1>10, <1>11, <1>12, <1>13
    DEF Next, StartStep, LoopStep

\* No step adds a second genesis block or takes one away.
LEMMA GenesisStep == NodeInv /\ [Next]_vars => GenesisRecord'
  <1> SUFFICES ASSUME NodeInv, [Next]_vars PROVE GenesisRecord'
    OBVIOUS
  <1> USE NodeAssumption DEF NodeInv, TypeOK, GenesisRecord, deployment, GoTo, Builders
  <1>1. ASSUME NEW p \in Processes, Configure(p) \/ CountBlocks(p) \/ CannotStart(p)
        PROVE  GenesisRecord'
    <2>1. UNCHANGED blocks
      BY <1>1 DEF Configure, CountBlocks, CannotStart
    <2>2. CASE Configure(p)
      BY <2>1, <2>2 DEF Configure
    <2>3. CASE CountBlocks(p)
      BY <2>1, <2>3 DEF CountBlocks
    <2>4. CASE CannotStart(p)
      BY <2>1, <2>4 DEF CannotStart
    <2> QED
      BY <1>1, <2>2, <2>3, <2>4
  <1>2. ASSUME NEW p \in Processes, CreateGenesis(p) PROVE GenesisRecord'
    <2>1. /\ phase[p] = "counted none" /\ blocks' = IF blocks = {} THEN {p} ELSE blocks
          /\ phase' = [phase EXCEPT ![p] = "down"]
      BY ONLY <1>2 DEF CreateGenesis, GoTo
    <2>2. GenesisRecord /\ phase \in [Processes -> Phases]
      BY ONLY NodeInv DEF NodeInv, TypeOK
    <2>3. blocks' # {} /\ \A b, c \in blocks' : b = c
      BY ONLY <2>1, <2>2 DEF GenesisRecord
    <2>4. /\ phase'[p] = "down"
          /\ \A r \in Processes \ {p} : phase'[r] = phase[r]
      BY ONLY <2>1, <2>2
    <2> QED
      BY ONLY <2>2, <2>3, <2>4 DEF GenesisRecord
  <1>3. ASSUME NEW p \in Processes, FinishStart(p) \/ RestartLoop(p) PROVE GenesisRecord'
    <2>1. UNCHANGED blocks /\ (UNCHANGED phase \/ (phase[p] = "counted some" /\ GoTo(p, "up")))
      BY ONLY <1>3 DEF FinishStart, RestartLoop
    <2>2. GenesisRecord /\ phase \in [Processes -> Phases]
      BY ONLY NodeInv DEF NodeInv, TypeOK
    <2> QED
      BY ONLY <2>1, <2>2 DEF GenesisRecord, GoTo
  <1>4. ASSUME NEW p \in Processes, Fork(p) PROVE GenesisRecord'
    BY <1>4 DEF Fork
  <1>5. ASSUME NEW p \in Processes, Crash(p) PROVE GenesisRecord'
    BY <1>5 DEF Crash
  <1>6. ASSUME UNCHANGED <<blocks, phase>> PROVE GenesisRecord'
    BY <1>6
  <1> QED
    BY <1>1, <1>2, <1>3, <1>4, <1>5, <1>6 DEF Next, StartStep, LoopStep, Receive, Log, LogFails, Take,
      Persist, PersistFails, ExitLoop, StopLoop, vars, processVars

\* start makes a thread only where none is alive.
LEMMA LoopStepOne == NodeInv /\ [Next]_vars => OneLoop'
  <1> SUFFICES ASSUME NodeInv, [Next]_vars PROVE OneLoop'
    OBVIOUS
  <1> USE NodeAssumption DEF NodeInv, TypeOK, OneLoop, deployment
  <1>1. ASSUME NEW p \in Processes, StartLoop(p) PROVE OneLoop'
    <2>1. \A t \in Threads : loop[p][t] = NotAlive
      BY <1>1 DEF StartLoop, IsRunning
    <2>2. NewThread(p) \in Threads
      BY <2>1 DEF NewThread
    <2>3. /\ loop' = [loop EXCEPT ![p][NewThread(p)] = Idle]
          /\ current' = [current EXCEPT ![p] = NewThread(p)]
      BY ONLY <1>1 DEF StartLoop
    <2>4. TypeOK
      OBVIOUS
    <2>5. /\ \A q \in Processes \ {p} : loop'[q] = loop[q]
          /\ \A u \in Threads : loop'[p][u] = IF u = NewThread(p) THEN Idle ELSE loop[p][u]
      BY ONLY <2>2, <2>3, <2>4, ThreadSet, p \in Processes
    <2>6. /\ current'[p] = NewThread(p)
          /\ \A q \in Processes \ {p} : current'[q] = current[q]
      BY ONLY <2>3, <2>4, p \in Processes DEF TypeOK
    <2>7. OneLoop
      OBVIOUS
    <2> QED
      BY ONLY <2>1, <2>5, <2>6, <2>7 DEF OneLoop
  <1>2. ASSUME NEW p \in Processes, Crash(p) PROVE OneLoop'
    BY <1>2 DEF Crash, NoLoop
  <1>3. ASSUME NEW p \in Processes, NEW t \in Threads, Take(p, t) \/ Persist(p, t) \/ PersistFails(p, t)
        PROVE  OneLoop'
    <2>1. loop[p][t] # NotAlive
      BY <1>3 DEF Take, Persist, PersistFails, NotAlive, Idle, Event
    <2>2. PICK v \in {NotAlive, Idle} \union Event : loop' = [loop EXCEPT ![p][t] = v]
      <3>1. CASE Take(p, t)
        <4>1. queue[p] \in Seq(Event) /\ queue[p] # <<>>
          BY ONLY NodeInv, <3>1, p \in Processes DEF NodeInv, TypeOK, Take
        <4>2. Head(queue[p]) \in Event
          BY ONLY <4>1
        <4> QED
          BY ONLY <3>1, <4>2 DEF Take
      <3>2. CASE Persist(p, t) \/ PersistFails(p, t)
        BY ONLY <3>2 DEF Persist, PersistFails
      <3> QED
        BY <1>3, <3>1, <3>2
    <2>3. current' = current /\ current[p] = t
      BY <1>3, <2>1 DEF Take, Persist, PersistFails
    <2>4. TypeOK /\ OneLoop
      OBVIOUS
    <2>5. /\ \A q \in Processes \ {p} : loop'[q] = loop[q]
          /\ \A u \in Threads : loop'[p][u] = IF u = t THEN v ELSE loop[p][u]
      BY ONLY <2>2, <2>4, ThreadSet, p \in Processes, t \in Threads
    <2>6. ASSUME NEW q \in Processes, NEW u \in Threads, loop'[q][u] # NotAlive
          PROVE  current[q] = u
      <3>1. CASE q = p /\ u = t
        BY ONLY <2>3, <3>1
      <3>2. CASE q = p /\ u # t
        BY ONLY <2>4, <2>5, <2>6, <3>2, q \in Processes, u \in Threads DEF OneLoop
      <3>3. CASE q # p
        BY ONLY <2>4, <2>5, <2>6, <3>3, q \in Processes, u \in Threads DEF OneLoop
      <3> QED
        BY ONLY <3>1, <3>2, <3>3
    <2> QED
      BY ONLY <2>3, <2>6 DEF OneLoop
  <1>4. ASSUME NEW p \in Processes, NEW t \in Threads, ExitLoop(p, t) PROVE OneLoop'
    <2>1. loop' = [loop EXCEPT ![p][t] = NotAlive] /\ current' = current
      BY ONLY <1>4 DEF ExitLoop
    <2>2. TypeOK /\ OneLoop
      OBVIOUS
    <2>3. /\ \A q \in Processes \ {p} : loop'[q] = loop[q]
          /\ \A u \in Threads : loop'[p][u] = IF u = t THEN NotAlive ELSE loop[p][u]
      BY ONLY <2>1, <2>2, ThreadSet, p \in Processes, t \in Threads
    <2> QED
      BY ONLY <2>1, <2>2, <2>3 DEF OneLoop
  <1>5. ASSUME UNCHANGED <<loop, current>> PROVE OneLoop'
    BY <1>5
  <1> QED
    BY <1>1, <1>2, <1>3, <1>4, <1>5 DEF Next, StartStep, LoopStep, Configure, CountBlocks, CreateGenesis,
      CannotStart, FinishStart, RestartLoop, Fork, Receive, Log, LogFails, StopLoop, vars, processVars

\* Only a process that serves enqueues.
LEMMA QueuesStep == NodeInv /\ [Next]_vars => QueuesOfServers'
  <1> SUFFICES ASSUME NodeInv, [Next]_vars PROVE QueuesOfServers'
    OBVIOUS
  <1> USE NodeAssumption DEF NodeInv, TypeOK, QueuesOfServers, deployment
  <1>1. ASSUME NEW p \in Processes, Fork(p) PROVE QueuesOfServers'
    <2>1. queue[Master[p]] = <<>>
      BY <1>1 DEF Fork, Builders
    <2> QED
      BY <1>1, <2>1 DEF Fork
  <1>2. ASSUME NEW p \in Processes, Crash(p) PROVE QueuesOfServers'
    BY <1>2 DEF Crash
  <1>3. ASSUME NEW p \in Processes, Receive(p) PROVE QueuesOfServers'
    BY <1>3 DEF Receive
  <1>4. ASSUME NEW p \in Processes, NEW t \in Threads, Take(p, t) PROVE QueuesOfServers'
    BY <1>4 DEF Take
  <1>5. ASSUME UNCHANGED queue PROVE QueuesOfServers'
    BY <1>5
  <1> QED
    BY <1>1, <1>2, <1>3, <1>4, <1>5 DEF Next, StartStep, LoopStep, Configure, CountBlocks, CreateGenesis,
      CannotStart, FinishStart, RestartLoop, Log, LogFails, Persist, PersistFails, ExitLoop, StopLoop,
      StartLoop, vars, processVars

\* Appending a greater number to increasing ones.
LEMMA AppendKeeps ==
  ASSUME NEW s \in Seq(Event), NEW e \in Event, Increasing(s), \A i \in DOMAIN s : s[i] < e
  PROVE  Increasing(Append(s, e))
  <1> DEFINE r == Append(s, e)
  <1>1. /\ DOMAIN r = 1 .. Len(s) + 1 /\ DOMAIN s = 1 .. Len(s) /\ Len(s) \in Nat
        /\ \A i \in 1 .. Len(s) : r[i] = s[i]
        /\ r[Len(s) + 1] = e
    OBVIOUS
  <1> HIDE DEF r
  <1>2. ASSUME NEW i \in DOMAIN r, NEW j \in DOMAIN r, i < j PROVE r[i] < r[j]
    <2>1. i \in 1 .. Len(s)
      BY ONLY <1>1, <1>2
    <2>2. CASE j \in 1 .. Len(s)
      BY ONLY <1>1, <1>2, <2>1, <2>2, Increasing(s) DEF Increasing
    <2>3. CASE j = Len(s) + 1
      BY ONLY <1>1, <2>1, <2>3, \A k \in DOMAIN s : s[k] < e
    <2> QED
      BY ONLY <1>1, <1>2, <2>2, <2>3
  <1> QED
    BY <1>2 DEF Increasing, r

\* Every step keeps what is persisted, held and queued in line.
LEMMA LineStep == NodeInv /\ [Next]_vars => Line'
  <1> SUFFICES ASSUME NodeInv, [Next]_vars, NEW q \in Processes PROVE LineOf(q)'
    BY DEF Line
  <1>0. /\ LineOf(q)
        /\ persisted[q] \in Seq(Event) /\ queue[q] \in Seq(Event)
        /\ received \in Nat
        /\ loop[q] \in [Threads -> {NotAlive, Idle} \union Event]
    BY DEF NodeInv, Line, TypeOK
  <1>same. ASSUME persisted'[q] = persisted[q], queue'[q] = queue[q], received' = received,
                  \A t \in Threads : loop'[q][t] \in Event => loop'[q][t] = loop[q][t]
           PROVE  LineOf(q)'
    BY <1>0, <1>same DEF LineOf, Increasing
  <1>gone. ASSUME persisted'[q] = persisted[q], queue'[q] = <<>>, received' = received,
                  \A t \in Threads : loop'[q][t] \notin Event
           PROVE  LineOf(q)'
    BY <1>0, <1>gone DEF LineOf, Increasing
  <1> USE NodeAssumption
  <1>1. ASSUME NEW p \in Processes, StartLoop(p), UNCHANGED <<persisted, queue, received>>
        PROVE  LineOf(q)'
    <2>1. ASSUME NEW t \in Threads, loop'[q][t] \in Event PROVE loop'[q][t] = loop[q][t]
      BY <1>1, <2>1 DEF StartLoop, NodeInv, TypeOK, Idle, Event
    <2> QED
      BY <1>same, <1>1, <2>1
  <1>2. ASSUME NEW p \in Processes, Fork(p) PROVE LineOf(q)'
    <2>1. CASE p = q
      <3>1. queue'[q] = <<>>
        BY <1>2, <2>1 DEF Fork, Builders, NodeInv, QueuesOfServers, TypeOK
      <3>2. persisted'[q] = persisted[q] /\ received' = received /\ loop' = loop
        BY <1>2 DEF Fork
      <3> QED
        BY <1>0, <3>1, <3>2 DEF LineOf, Increasing
    <2>2. CASE p # q
      BY <1>same, <1>2, <2>2 DEF Fork, NodeInv, TypeOK
    <2> QED
      BY <2>1, <2>2
  <1>3. ASSUME NEW p \in Processes, Crash(p) PROVE LineOf(q)'
    <2>1. CASE q = p \/ Master[q] = p
      BY <1>gone, <1>3, <2>1 DEF Crash, NoLoop, NotAlive, Event
    <2>2. CASE ~(q = p \/ Master[q] = p)
      BY <1>same, <1>3, <2>2 DEF Crash
    <2> QED
      BY <2>1, <2>2
  <1>4. ASSUME NEW p \in Processes, Receive(p) PROVE LineOf(q)'
    <2>1. CASE p = q
      <3>1. /\ persisted'[q] = persisted[q] /\ received' = received + 1 /\ loop' = loop
            /\ queue'[q] = Append(queue[q], received + 1)
        BY <1>4, <2>1 DEF Receive, NodeInv, TypeOK
      <3>2. /\ DOMAIN queue'[q] = 1 .. Len(queue[q]) + 1 /\ Len(queue[q]) \in Nat
            /\ \A i \in 1 .. Len(queue[q]) : queue'[q][i] = queue[q][i]
            /\ queue'[q][Len(queue[q]) + 1] = received + 1
        BY <1>0, <3>1
      <3>3. /\ \A i \in DOMAIN persisted[q] : persisted[q][i] \in Nat
            /\ \A i \in DOMAIN queue[q] : queue[q][i] \in Nat
            /\ DOMAIN queue[q] = 1 .. Len(queue[q])
        BY <1>0 DEF Event
      <3>a. received + 1 \in Event /\ \A i \in DOMAIN queue[q] : queue[q][i] < received + 1
        <4>1. received < MaxEvents /\ received \in Nat /\ MaxEvents \in Nat
          BY <1>4, <1>0 DEF Receive
        <4> QED
          BY ONLY <1>0, <3>3, <4>1 DEF LineOf, Event
      <3>4. Increasing(queue'[q])
        BY ONLY <1>0, <3>1, <3>a, AppendKeeps DEF LineOf
      <3>5. \A i \in DOMAIN queue'[q] : queue'[q][i] <= received + 1
        BY ONLY <1>0, <3>2, <3>3 DEF LineOf
      <3>6. \A i \in DOMAIN persisted[q], j \in DOMAIN queue'[q] : persisted[q][i] < queue'[q][j]
        <4> SUFFICES ASSUME NEW i \in DOMAIN persisted[q], NEW j \in DOMAIN queue'[q]
                     PROVE  persisted[q][i] < queue'[q][j]
          OBVIOUS
        <4>1. CASE j \in 1 .. Len(queue[q])
          BY ONLY <1>0, <3>2, <3>3, <4>1, i \in DOMAIN persisted[q] DEF LineOf
        <4>2. CASE j = Len(queue[q]) + 1
          <5>1. persisted[q][i] <= received /\ persisted[q][i] \in Nat /\ received \in Nat
            BY ONLY <1>0, <3>3, i \in DOMAIN persisted[q] DEF LineOf
          <5> QED
            BY ONLY <3>2, <4>2, <5>1
        <4> QED
          BY ONLY <3>2, <4>1, <4>2, j \in DOMAIN queue'[q]
      <3>7. ASSUME NEW u \in Threads, loop[q][u] \in Event
            PROVE  \A j \in DOMAIN queue'[q] : loop[q][u] < queue'[q][j]
        BY ONLY <1>0, <3>2, <3>3, <3>7 DEF LineOf, Event
      <3> QED
        BY ONLY <1>0, <3>1, <3>3, <3>4, <3>5, <3>6, <3>7 DEF LineOf, Event
    <2>2. CASE p # q
      <3>1. /\ persisted'[q] = persisted[q] /\ received' = received + 1 /\ loop' = loop
            /\ queue'[q] = queue[q]
        BY <1>4, <2>2 DEF Receive, NodeInv, TypeOK
      <3> QED
        BY <1>0, <3>1 DEF LineOf, Increasing, Event
    <2> QED
      BY <2>1, <2>2
  <1>5. ASSUME NEW p \in Processes, NEW t \in Threads, Take(p, t) PROVE LineOf(q)'
    <2>1. CASE p = q
      <3>1. /\ persisted'[q] = persisted[q] /\ received' = received
            /\ queue[q] # <<>> /\ queue'[q] = Tail(queue[q])
            /\ loop'[q] = [loop[q] EXCEPT ![t] = Head(queue[q])]
            /\ loop[q][t] = Idle
        BY <1>5, <2>1 DEF Take, NodeInv, TypeOK
      <3>2. ASSUME NEW u \in Threads, loop'[q][u] \in Event PROVE u = t
        <4>1. loop[q][t] # NotAlive /\ (loop[q][u] \in Event => loop[q][u] # NotAlive)
          BY ONLY <3>1 DEF Idle, NotAlive, Event
        <4>2. OneLoop
          BY ONLY NodeInv DEF NodeInv
        <4>3. loop'[q][u] = IF u = t THEN Head(queue[q]) ELSE loop[q][u]
          BY ONLY <1>0, <3>1, u \in Threads, t \in Threads
        <4> QED
          BY ONLY <3>2, <4>1, <4>2, <4>3, q \in Processes, u \in Threads, t \in Threads DEF OneLoop
      <3>3. loop'[q][t] = queue[q][1] /\ Len(queue[q]) \in Nat \ {0}
        BY <1>0, <3>1
      <3>4. /\ DOMAIN Tail(queue[q]) = 1 .. Len(queue[q]) - 1
            /\ \A i \in 1 .. Len(queue[q]) - 1 : Tail(queue[q])[i] = queue[q][i + 1]
        BY ONLY <1>0, <3>3
      <3> DEFINE r == Tail(queue[q])
      <3>5. /\ DOMAIN queue[q] = 1 .. Len(queue[q])
            /\ \A i \in DOMAIN r : i + 1 \in DOMAIN queue[q] /\ r[i] = queue[q][i + 1]
            /\ 1 \in DOMAIN queue[q]
        BY ONLY <1>0, <3>3, <3>4
      <3>6. Increasing(r)
        BY ONLY <1>0, <3>3, <3>4, <3>5 DEF LineOf, Increasing
      <3>7. \A i \in DOMAIN r : r[i] <= received /\ queue[q][1] < r[i]
        <4> SUFFICES ASSUME NEW i \in DOMAIN r PROVE r[i] <= received /\ queue[q][1] < r[i]
          OBVIOUS
        <4>1. /\ r[i] = queue[q][i + 1] /\ i + 1 \in DOMAIN queue[q] /\ 1 \in DOMAIN queue[q]
              /\ 1 < i + 1
          BY ONLY <3>3, <3>4, <3>5, i \in DOMAIN r
        <4> QED
          BY ONLY <1>0, <4>1 DEF LineOf, Increasing
      <3>8. \A i \in DOMAIN persisted[q] :
              persisted[q][i] < queue[q][1] /\ \A j \in DOMAIN r : persisted[q][i] < r[j]
        BY ONLY <1>0, <3>5 DEF LineOf
      <3>9. queue[q][1] <= received
        BY ONLY <1>0, <3>5 DEF LineOf
      <3>10. queue'[q] = r
        BY ONLY <3>1
      <3> HIDE DEF r
      <3> QED
        BY ONLY <1>0, <3>1, <3>2, <3>3, <3>6, <3>7, <3>8, <3>9, <3>10 DEF LineOf
    <2>2. CASE p # q
      BY <1>same, <1>5, <2>2 DEF Take, NodeInv, TypeOK
    <2> QED
      BY <2>1, <2>2
  <1>6. ASSUME NEW p \in Processes, NEW t \in Threads, Persist(p, t) PROVE LineOf(q)'
    <2>1. CASE p = q
      <3>1. /\ persisted'[q] = Append(persisted[q], loop[q][t]) /\ received' = received
            /\ queue'[q] = queue[q]
            /\ loop'[q] = [loop[q] EXCEPT ![t] = Idle]
            /\ loop[q][t] \in Event
        BY <1>6, <2>1 DEF Persist, NodeInv, TypeOK
      <3>2. ASSUME NEW u \in Threads PROVE loop'[q][u] \notin Event
        BY <1>0, <3>1 DEF NodeInv, OneLoop, Idle, NotAlive, Event
      <3> DEFINE e == loop[q][t]
                 s == persisted[q]
      <3>3. /\ DOMAIN persisted'[q] = 1 .. Len(s) + 1 /\ DOMAIN s = 1 .. Len(s) /\ Len(s) \in Nat
            /\ \A i \in 1 .. Len(s) : persisted'[q][i] = s[i]
            /\ persisted'[q][Len(s) + 1] = e
        BY <1>0, <3>1
      <3>4. /\ \A i \in DOMAIN s : s[i] \in Nat
            /\ e \in Nat
        BY <1>0, <3>1 DEF Event
      <3>5. /\ e <= received
            /\ \A i \in DOMAIN s : s[i] < e
            /\ \A j \in DOMAIN queue[q] : e < queue[q][j]
        BY <1>0, <3>1 DEF LineOf
      <3> HIDE DEF e, s
      <3>6. Increasing(persisted'[q])
        BY ONLY <1>0, <3>1, <3>5, AppendKeeps DEF LineOf, e, s
      <3>7. ASSUME NEW i \in DOMAIN persisted'[q]
            PROVE  /\ persisted'[q][i] <= received
                   /\ \A j \in DOMAIN queue[q] : persisted'[q][i] < queue[q][j]
        <4>1. i \in 1 .. Len(s) \/ i = Len(s) + 1
          BY ONLY <3>3, i \in DOMAIN persisted'[q]
        <4>2. CASE i \in 1 .. Len(s)
          <5>1. persisted'[q][i] = persisted[q][i] /\ i \in DOMAIN persisted[q]
            BY ONLY <3>3, <4>2 DEF s
          <5> QED
            BY ONLY <1>0, <5>1 DEF LineOf
        <4>3. CASE i = Len(s) + 1
          <5>1. persisted'[q][i] = e
            BY ONLY <3>3, <4>3
          <5> QED
            BY ONLY <3>5, <5>1
        <4> QED
          BY ONLY <4>1, <4>2, <4>3
      <3> QED
        BY ONLY <1>0, <3>1, <3>2, <3>6, <3>7 DEF LineOf
    <2>2. CASE p # q
      BY <1>same, <1>6, <2>2 DEF Persist, NodeInv, TypeOK
    <2> QED
      BY <2>1, <2>2
  <1>7. ASSUME NEW p \in Processes, NEW t \in Threads, PersistFails(p, t) \/ ExitLoop(p, t)
        PROVE  LineOf(q)'
    <2>1. \A u \in Threads : loop'[q][u] \in Event => loop'[q][u] = loop[q][u]
      <3>1. loop' = [loop EXCEPT ![p][t] = Idle] \/ loop' = [loop EXCEPT ![p][t] = NotAlive]
        BY <1>7 DEF PersistFails, ExitLoop
      <3>2. Idle \notin Event /\ NotAlive \notin Event
        BY DEF Idle, NotAlive, Event
      <3>3. TypeOK
        BY DEF NodeInv
      <3>4. PICK v \in {NotAlive, Idle} : loop' = [loop EXCEPT ![p][t] = v]
        BY ONLY <3>1
      <3>5. /\ \A r \in Processes \ {p} : loop'[r] = loop[r]
            /\ \A u \in Threads : loop'[p][u] = IF u = t THEN v ELSE loop[p][u]
        BY ONLY <3>3, <3>4, ThreadSet, p \in Processes, t \in Threads
      <3>6. CASE q = p
        BY ONLY <3>2, <3>5, <3>6, v \in {NotAlive, Idle}
      <3>7. CASE q # p
        BY ONLY <3>5, <3>7, q \in Processes
      <3> QED
        BY ONLY <3>6, <3>7
    <2> QED
      BY <1>same, <1>7, <2>1 DEF PersistFails, ExitLoop
  <1>8. ASSUME UNCHANGED <<persisted, queue, loop, received>> PROVE LineOf(q)'
    BY <1>same, <1>8
  <1> QED
    BY <1>1, <1>2, <1>3, <1>4, <1>5, <1>6, <1>7, <1>8 DEF Next, StartStep, LoopStep, Configure,
      CountBlocks, CreateGenesis, CannotStart, FinishStart, RestartLoop, Log, LogFails, StopLoop,
      vars, processVars

\* The invariant holds in every reachable state.
THEOREM NodeInvariance == Spec => []NodeInv
  <1>1. NodeInv /\ [Next]_vars => NodeInv'
    BY TypeStep, GenesisStep, LoopStepOne, QueuesStep, LineStep DEF NodeInv
  <1> QED
    BY <1>1, NodeInvInit, PTL DEF Spec

\* Every reachable state is well typed.
THEOREM NodeTypeCorrect == Spec => []TypeOK
  BY NodeInvariance, PTL DEF NodeInv

\* Whatever the processes that start at once and the crashes, who serves does
\* so on one genesis block.
THEOREM GenesisIsUnique == Spec => []ServesOnOneGenesis
  <1>1. NodeInv => ServesOnOneGenesis
    <2> SUFFICES ASSUME NodeInv, NEW p \in Processes, phase[p] = "up" PROVE Cardinality(blocks) = 1
      BY DEF ServesOnOneGenesis
    <2>0. PICK b \in blocks : TRUE
      BY DEF NodeInv, GenesisRecord
    <2>1. blocks = {b}
      BY <2>0 DEF NodeInv, GenesisRecord
    <2> QED
      BY <2>1, FS_Singleton
  <1> QED
    BY <1>1, NodeInvariance, PTL

\* However often a loop is stopped and started, it persists in order and
\* nothing twice.
THEOREM LoopKeepsOrder == Spec => []PersistedInOrder
  <1>1. NodeInv => PersistedInOrder
    BY DEF NodeInv, Line, LineOf, Increasing, PersistedInOrder
  <1> QED
    BY <1>1, NodeInvariance, PTL
=============================================================================
