---------------------------- MODULE KernelProofs ----------------------------
(***************************************************************************)
(* Theorems about module Kernel, for every number of threads, processes,   *)
(* table entries and every set of system calls, terminate included.        *)
(***************************************************************************)
EXTENDS Kernel, LoopLemmas, FiniteSetTheorems, SequenceTheorems

-----------------------------------------------------------------------------
(***************************************************************************)
(* Lemmas about the operators the model is built from.                     *)
(***************************************************************************)

\* Every scan of the table that finds a slot finds a slot of the table.
LEMMA SlotFacts ==
  /\ Slots \subseteq Nat /\ UserSlots \subseteq Slots /\ Pids \subseteq Nat
  /\ Roots \subseteq Nat /\ NO_THREAD \notin Slots /\ IDLE_THREAD \in Slots
  /\ IDLE_THREAD \notin UserSlots /\ 1 \in UserSlots
  /\ 1 \in Pids /\ NoProcess \notin Pids /\ 1 \in Roots
BY ThreadsAssumption DEF Slots, UserSlots, Pids, Roots, NO_THREAD, IDLE_THREAD, NoProcess

\* enqueue() keeps the queue a queue of slots within its capacity.
LEMMA EnqueueType ==
  ASSUME NEW q \in Seq(Slots), NEW s \in Seq(Slots)
  PROVE  Enqueue(q, s) \in Seq(Slots) /\ Len(Enqueue(q, s)) <= MaxThreads
<1> DEFINE n == Min({MaxThreads, Len(q) + Len(s)})
<1>1. Len(q) \in Nat /\ Len(s) \in Nat /\ MaxThreads \in Nat
  BY LenProperties, ThreadsAssumption
<1>2. n \in Nat /\ n <= MaxThreads /\ n <= Len(q) + Len(s)
  <2>1. {MaxThreads, Len(q) + Len(s)} \subseteq Nat /\ {MaxThreads, Len(q) + Len(s)} # {}
    BY <1>1
  <2> QED BY <2>1, MinIsLeast, <1>1
<1>3. q \o s \in Seq(Slots) /\ Len(q \o s) = Len(q) + Len(s)
  BY ConcatProperties
<1>4. \A i \in 1 .. n : (q \o s)[i] \in Slots
  BY <1>1, <1>2, <1>3, ElementOfSeq
<1> HIDE DEF n
<1>5. SubSeq(q \o s, 1, n) \in Seq(Slots) /\ Len(SubSeq(q \o s, 1, n)) <= MaxThreads
  BY <1>1, <1>2, <1>4, SubSeqProperties
<1> QED BY <1>5 DEF Enqueue, n

\* next_ready() returns a slot that has not exited, or the idle thread, and
\* leaves a queue behind.
LEMMA NextReadyType ==
  ASSUME NEW q \in Seq(Slots), Len(q) <= MaxThreads, NEW st
  PROVE  /\ NextReady(q, st) \in Slots
         /\ NextReady(q, st) = IDLE_THREAD \/ st[NextReady(q, st)] # "Exited"
         /\ AfterNextReady(q, st) \in Seq(Slots)
         /\ Len(AfterNextReady(q, st)) <= MaxThreads
<1>1. CASE Runnable(q, st) = {}
  BY <1>1, SlotFacts, EmptySeq, ThreadsAssumption DEF NextReady, AfterNextReady
<1>2. CASE Runnable(q, st) # {}
  <2> DEFINE m == Min(Runnable(q, st))
  <2>1. Len(q) \in Nat /\ DOMAIN q = 1 .. Len(q)
    BY LenProperties
  <2>2. Runnable(q, st) \subseteq 1 .. Len(q)
    BY <2>1 DEF Runnable
  <2>3. m \in Runnable(q, st)
    BY <1>2, <2>1, <2>2, MinIsLeast
  <2>4. m \in 1 .. Len(q) /\ q[m] \in Slots /\ st[q[m]] # "Exited"
    BY <2>1, <2>2, <2>3, ElementOfSeq DEF Runnable
  <2> HIDE DEF m
  <2>5. \A i \in (m + 1) .. Len(q) : q[i] \in Slots
    BY <2>1, <2>4, ElementOfSeq
  <2>6. /\ SubSeq(q, m + 1, Len(q)) \in Seq(Slots)
        /\ Len(SubSeq(q, m + 1, Len(q))) <= MaxThreads
    BY <2>1, <2>4, <2>5, SubSeqProperties, ThreadsAssumption
  <2> QED BY <1>2, <2>4, <2>6 DEF NextReady, AfterNextReady, m
<1> QED BY <1>1, <1>2

\* The order in which a wake pass enqueues threads is a sequence of slots.
LEMMA WakeOrderType ==
  ASSUME NEW f, Range(f) \subseteq Slots, NEW st, NEW order \in WakeOrders(f, st)
  PROVE  order \in Seq(Slots)
<1>1. IsFiniteSet(Slots)
  BY FS_Interval, ThreadsAssumption DEF Slots
<1>2. Woken(f, st) \subseteq Slots
  BY DEF Woken
<1>3. Cardinality(Woken(f, st)) \in Nat
  BY <1>1, <1>2, FS_Subset, FS_CardinalityType
<1>4. order \in [1 .. Cardinality(Woken(f, st)) -> Slots]
  BY <1>2 DEF WakeOrders
<1> QED BY <1>3, <1>4, SeqDef

-----------------------------------------------------------------------------
(***************************************************************************)
(* Type correctness.                                                       *)
(***************************************************************************)

\* What the scheduler does to the thread states, the queue and CR3, whatever
\* thread states st and queue q it starts from.
LEMMA ScheduleType ==
  ASSUME ThreadsTypeOK, NEW q \in Seq(Slots), Len(q) <= MaxThreads,
         NEW st \in [Slots -> ThreadState], Schedule(q, st)
  PROVE  /\ current' \in Slots
         /\ current' = IDLE_THREAD \/ st[current'] # "Exited"
         /\ state' = [st EXCEPT ![current'] = "Running"]
         /\ state' \in [Slots -> ThreadState]
         /\ runQueue' \in Seq(Slots) /\ Len(runQueue') <= MaxThreads
         /\ cr3' \in Roots
<1>1. current' = NextReady(q, st) /\ runQueue' = AfterNextReady(q, st)
  BY DEF Schedule
<1>2. state' = [st EXCEPT ![current'] = "Running"]
  BY DEF Schedule
<1>3. cr3' \in Roots
  <2>1. process[current'] \in Pids \cup {NoProcess}
    BY <1>1, NextReadyType DEF ThreadsTypeOK
  <2>2. \/ cr3' = cr3
        \/ /\ process[current'] # NoProcess /\ Used(process[current'])
           /\ cr3' = processes[process[current']].address_space
    BY DEF Schedule
  <2> QED BY <2>1, <2>2 DEF ThreadsTypeOK, ProcessRecords, EMPTY, Used
<1> QED BY <1>1, <1>2, <1>3, NextReadyType DEF ThreadState

\* A wake pass over slots keeps the thread states and the queue typed.
LEMMA AfterWakeType ==
  ASSUME NEW f, NEW st \in [Slots -> ThreadState]
  PROVE  AfterWake(f, st) \in [Slots -> ThreadState]
BY DEF AfterWake, ThreadState

LEMMA WakeAllType ==
  ASSUME ThreadsTypeOK, NEW f, Range(f) \subseteq Slots, WakeAll(f)
  PROVE  /\ state' \in [Slots -> ThreadState]
         /\ runQueue' \in Seq(Slots) /\ Len(runQueue') <= MaxThreads
         /\ current' = current /\ cr3' = cr3
<1>1. PICK order \in WakeOrders(f, state) : runQueue' = Enqueue(runQueue, order)
  BY DEF WakeAll
<1>2. order \in Seq(Slots)
  BY WakeOrderType
<1> QED BY <1>1, <1>2, EnqueueType, AfterWakeType DEF WakeAll, ThreadsTypeOK

\* The joiners recorded for a slot are slots.
LEMMA JoinWaitersRange ==
  ASSUME ThreadsTypeOK, NEW t \in Slots
  PROVE  Range(join_waiters[t]) \subseteq Slots
BY LenProperties, ElementOfSeq DEF ThreadsTypeOK, Range

\* block_current() and the continuation it parks the caller at.
LEMMA BlockType ==
  ASSUME ThreadsTypeOK, current \in Slots, NEW c \in Continuations, Block(c)
  PROVE  /\ parked' \in [Slots -> Continuations]
         /\ current' \in Slots
         /\ current' = IDLE_THREAD \/ [state EXCEPT ![current] = "Blocked"][current'] # "Exited"
         /\ state' = [[state EXCEPT ![current] = "Blocked"] EXCEPT ![current'] = "Running"]
         /\ state' \in [Slots -> ThreadState]
         /\ runQueue' \in Seq(Slots) /\ Len(runQueue') <= MaxThreads
         /\ cr3' \in Roots
<1>1. [state EXCEPT ![current] = "Blocked"] \in [Slots -> ThreadState]
  BY DEF ThreadsTypeOK, ThreadState
<1>2. Schedule(runQueue, [state EXCEPT ![current] = "Blocked"])
  BY DEF Block
<1>3. runQueue \in Seq(Slots) /\ Len(runQueue) <= MaxThreads
  BY DEF ThreadsTypeOK
<1>4. parked' \in [Slots -> Continuations]
  BY DEF Block, ThreadsTypeOK
<1> HIDE DEF Schedule, Block
<1> QED BY <1>1, <1>2, <1>3, <1>4, ScheduleType

\* The continuations the system calls park at.
LEMMA ContinuationTypes ==
  /\ ReturnToUser \in Continuations
  /\ \A t \in Slots : Continuation("join", t, NoProcess) \in Continuations
  /\ \A t \in Slots, p \in Pids : Continuation("wait", t, p) \in Continuations
  /\ Continuation("sleep", NO_THREAD, NoProcess) \in Continuations
  /\ Continuation("futex", NO_THREAD, NoProcess) \in Continuations
  /\ Continuation("start", NO_THREAD, NoProcess) \in Continuations
BY DEF ReturnToUser, Continuation, Continuations

\* Where a resumed thread finds the slot and the pid it waited for.
LEMMA ParkedTypes ==
  ASSUME ThreadsTypeOK, NEW t \in Slots
  PROVE  /\ parked[t].op \in {"join", "wait"} => parked[t].thread \in Slots
         /\ parked[t].op = "wait" => parked[t].pid \in Pids
         /\ parked[t].op \in {"user", "join", "wait", "sleep", "futex",
                              "start", "halt", "woken"}
<1>1. parked[t] \in Continuations
  BY DEF ThreadsTypeOK
<1> QED BY <1>1 DEF Continuations

\* The idle thread moves between its own continuations.
LEMMA IdleContinuation ==
  ASSUME ThreadsTypeOK, parked[IDLE_THREAD].op \in {"start", "halt", "woken"},
         NEW o \in {"halt", "woken"}
  PROVE  [parked EXCEPT ![IDLE_THREAD].op = o] \in [Slots -> Continuations]
<1>1. parked[IDLE_THREAD] \in Continuations
  BY SlotFacts DEF ThreadsTypeOK
<1>2. [parked[IDLE_THREAD] EXCEPT !.op = o] \in Continuations
  BY <1>1 DEF Continuations
<1> QED BY <1>2, SlotFacts DEF ThreadsTypeOK

\* The initial state is typed.
LEMMA InitType == Init => TypeOK
<1> SUFFICES ASSUME Init PROVE TypeOK
  OBVIOUS
<1> USE SlotFacts
<1>1. state \in [Slots -> ThreadState] /\ process \in [Slots -> Pids \cup {NoProcess}]
  BY DEF Init, ThreadsInit, ThreadState, USER_PROCESS_ID
<1>2. reapable \in [Slots -> BOOLEAN] /\ join_waiters \in [Slots -> Seq(Slots)]
  BY EmptySeq DEF Init, ThreadsInit
<1>3. parked \in [Slots -> Continuations]
  BY ContinuationTypes DEF Init, ThreadsInit
<1>4. runQueue \in Seq(Slots) /\ Len(runQueue) <= MaxThreads /\ current \in Slots \cup {NO_THREAD}
  BY ThreadsAssumption DEF Init, ThreadsInit
<1>5. processes \in [Pids -> ProcessRecords]
  BY DEF Init, ThreadsInit, ProcessRecords, EMPTY, USER_PROCESS_ID
<1>6. cr3 \in Roots /\ roots \subseteq Roots
  BY DEF Init, ThreadsInit
<1>7. /\ sleepers \in [1 .. MaxSleepers ->
                     [thread : Slots \cup {NO_THREAD}, left : Nat, owed : Nat]]
      /\ futexWaiters \in [1 .. MaxFutexWaiters ->
                     [thread : Slots \cup {NO_THREAD}, left : Nat,
                      address : Addresses \cup {NoAddress}]]
  BY KernelAssumption DEF Init, NoSleeper, NoFutexWaiter
<1> QED BY <1>1, <1>2, <1>3, <1>4, <1>5, <1>6, <1>7 DEF TypeOK, ThreadsTypeOK

\* The calls of threads.rs that create threads and processes.
LEMMA SpawnType ==
  ASSUME ThreadsTypeOK, NEW t \in UserSlots, NEW p \in Pids, SpawnInto(t, p)
  PROVE  /\ state' \in [Slots -> ThreadState]
         /\ process' \in [Slots -> Pids \cup {NoProcess}]
         /\ reapable' \in [Slots -> BOOLEAN]
         /\ join_waiters' \in [Slots -> Seq(Slots)]
         /\ parked' \in [Slots -> Continuations]
         /\ runQueue' \in Seq(Slots) /\ Len(runQueue') <= MaxThreads
         /\ current' = current /\ cr3' = cr3
<1>1. t \in Slots /\ <<t>> \in Seq(Slots)
  BY SlotFacts
<1>2. runQueue' \in Seq(Slots) /\ Len(runQueue') <= MaxThreads
  BY <1>1, EnqueueType DEF SpawnInto, ThreadsTypeOK
<1>3. state' \in [Slots -> ThreadState] /\ process' \in [Slots -> Pids \cup {NoProcess}]
  BY <1>1 DEF SpawnInto, ThreadsTypeOK, ThreadState
<1>4. reapable' \in [Slots -> BOOLEAN]
  BY <1>1 DEF SpawnInto, ThreadsTypeOK
<1>5. join_waiters' \in [Slots -> Seq(Slots)]
  BY <1>1, EmptySeq DEF SpawnInto, ThreadsTypeOK
<1>6. parked' \in [Slots -> Continuations]
  BY <1>1, ContinuationTypes DEF SpawnInto, ThreadsTypeOK
<1> QED BY <1>2, <1>3, <1>4, <1>5, <1>6 DEF SpawnInto

\* A new process record, with or without a main thread, is a process record.
LEMMA RecordType ==
  ASSUME ThreadsTypeOK, current \in UserSlots, NEW p \in Pids, NEW r \in Roots,
         NEW m \in Slots \cup {NO_THREAD}, RecordProcess(p, r, m)
  PROVE  processes' \in [Pids -> ProcessRecords]
BY SlotFacts DEF RecordProcess, ThreadsTypeOK, ProcessRecords

\* Releasing a record keeps the table typed.
LEMMA ReleaseType ==
  ASSUME ThreadsTypeOK, NEW p \in Pids, Release(p)
  PROVE  processes' \in [Pids -> ProcessRecords] /\ roots' \subseteq Roots
BY DEF Release, ThreadsTypeOK, ProcessRecords, processVars

\* Reparenting keeps the table typed and changes no id and no main thread.
LEMMA ReparentedType ==
  ASSUME ThreadsTypeOK, NEW t
  PROVE  Reparented(t) \in [Pids -> ProcessRecords]
<1> DEFINE owners == {p \in Pids : processes[p].main_thread = t}
<1>1. ASSUME NEW p \in Pids, owners # {}, processes[p].parent = Min(owners)
      PROVE  [processes[p] EXCEPT !.parent = USER_PROCESS_ID] \in ProcessRecords
  <2>1. Min(owners) \in Pids
    BY <1>1, MinIsLeast, SlotFacts
  <2>2. processes[p] # EMPTY
    BY <1>1, <2>1, SlotFacts DEF EMPTY
  <2> QED BY <2>2, SlotFacts DEF ThreadsTypeOK, ProcessRecords, USER_PROCESS_ID
<1> QED BY <1>1 DEF Reparented, ThreadsTypeOK

\* The wait tables stay tables when an entry is written into a free slot.
LEMMA FreeEntryType ==
  ASSUME NEW n \in Nat, NEW T, NEW table \in [1 .. n -> T], FreeEntries(table) # {}
  PROVE  Min(FreeEntries(table)) \in 1 .. n
<1>1. FreeEntries(table) \subseteq 1 .. n
  BY DEF FreeEntries
<1> QED BY <1>1, MinIsLeast

\* Every step of threads.rs keeps its tables typed.
LEMMA ThreadsTypeStep == ThreadsTypeOK /\ ThreadsNext => ThreadsTypeOK'
<1> SUFFICES ASSUME ThreadsTypeOK, ThreadsNext PROVE ThreadsTypeOK'
  OBVIOUS
<1> USE DEF tableVars, queueVars, processVars
<1>u. InUser => current \in UserSlots /\ current \in Slots /\ <<current>> \in Seq(Slots)
  BY SlotFacts DEF InUser
<1>1. CASE Start
  <2> DEFINE q == Enqueue(runQueue, <<IDLE_THREAD>>)
             st == [state EXCEPT ![IDLE_THREAD] = "Ready"]
  <2>1. <<IDLE_THREAD>> \in Seq(Slots) /\ runQueue \in Seq(Slots)
    BY SlotFacts DEF ThreadsTypeOK
  <2>2. q \in Seq(Slots) /\ Len(q) <= MaxThreads
    BY <2>1, EnqueueType
  <2>3. st \in [Slots -> ThreadState]
    BY SlotFacts DEF ThreadsTypeOK, ThreadState
  <2>4. /\ current' = NextReady(q, st) /\ runQueue' = AfterNextReady(q, st)
        /\ state' = [st EXCEPT ![NextReady(q, st)] = "Running"]
        /\ UNCHANGED <<tableVars, parked, cr3, processVars>>
    BY <1>1 DEF Start
  <2> HIDE DEF q, st
  <2>5. NextReady(q, st) \in Slots /\ runQueue' \in Seq(Slots) /\ Len(runQueue') <= MaxThreads
    BY <2>2, <2>4, NextReadyType
  <2>6. state' \in [Slots -> ThreadState]
    BY <2>3, <2>4 DEF ThreadState
  <2> QED BY <2>4, <2>5, <2>6 DEF ThreadsTypeOK
<1>2. CASE Yield
  <2> DEFINE q == Enqueue(runQueue, <<current>>)
             st == [state EXCEPT ![current] = "Ready"]
  <2>1. Schedule(q, st) /\ UNCHANGED <<tableVars, parked, processVars>> /\ InUser
    BY <1>2 DEF Yield
  <2>2. q \in Seq(Slots) /\ Len(q) <= MaxThreads
    BY <1>u, <2>1, EnqueueType DEF ThreadsTypeOK
  <2>3. st \in [Slots -> ThreadState]
    BY <1>u, <2>1 DEF ThreadsTypeOK, ThreadState
  <2> HIDE DEF q, st
  <2>4. /\ current' \in Slots /\ state' \in [Slots -> ThreadState] /\ cr3' \in Roots
        /\ runQueue' \in Seq(Slots) /\ Len(runQueue') <= MaxThreads
    BY <2>1, <2>2, <2>3, ScheduleType
  <2> QED BY <2>1, <2>4 DEF ThreadsTypeOK
<1>3. CASE IdleYield
  <2>1. /\ Schedule(runQueue, state) /\ UNCHANGED <<tableVars, processVars>>
        /\ parked' = [parked EXCEPT ![IDLE_THREAD].op = "halt"]
        /\ parked[IDLE_THREAD].op \in {"start", "woken"}
    BY <1>3 DEF IdleYield
  <2>2. /\ current' \in Slots /\ state' \in [Slots -> ThreadState] /\ cr3' \in Roots
        /\ runQueue' \in Seq(Slots) /\ Len(runQueue') <= MaxThreads
    BY <2>1, ScheduleType DEF ThreadsTypeOK
  <2>3. parked' \in [Slots -> Continuations]
    BY <2>1, IdleContinuation
  <2> QED BY <2>1, <2>2, <2>3 DEF ThreadsTypeOK
<1>4. CASE ThreadCreate
  <2>1. Min(FreeSlots) \in UserSlots
    BY <1>4, MinIsLeast, SlotFacts DEF ThreadCreate, FreeSlots
  <2>2. SpawnInto(Min(FreeSlots), USER_PROCESS_ID) /\ UNCHANGED processVars
    BY <1>4 DEF ThreadCreate
  <2> QED BY <2>1, <2>2, SpawnType, SlotFacts DEF ThreadsTypeOK, USER_PROCESS_ID
<1>5. CASE ProcessSpawn
  <2>1. Min(FreeSlots) \in UserSlots
    BY <1>5, MinIsLeast, SlotFacts DEF ProcessSpawn, FreeSlots
  <2>2. Min(FreePids) \in Pids
    BY <1>5, MinIsLeast, SlotFacts DEF ProcessSpawn, FreePids
  <2>3. Min(FreeRoots) \in Roots
    BY <1>5, MinIsLeast, SlotFacts DEF ProcessSpawn, FreeRoots
  <2>4. /\ SpawnInto(Min(FreeSlots), Min(FreePids))
        /\ RecordProcess(Min(FreePids), Min(FreeRoots), Min(FreeSlots))
        /\ roots' = roots \cup {Min(FreeRoots)}
        /\ InUser
    BY <1>5 DEF ProcessSpawn
  <2>5. processes' \in [Pids -> ProcessRecords]
    BY <1>u, <2>1, <2>2, <2>3, <2>4, RecordType, SlotFacts
  <2>6. roots' \subseteq Roots
    BY <2>3, <2>4 DEF ThreadsTypeOK
  <2>7. /\ state' \in [Slots -> ThreadState]
        /\ process' \in [Slots -> Pids \cup {NoProcess}]
        /\ reapable' \in [Slots -> BOOLEAN]
        /\ join_waiters' \in [Slots -> Seq(Slots)]
        /\ parked' \in [Slots -> Continuations]
        /\ runQueue' \in Seq(Slots) /\ Len(runQueue') <= MaxThreads
        /\ current' = current /\ cr3' = cr3
    BY <2>1, <2>2, <2>4, SpawnType
  <2> QED BY <2>5, <2>6, <2>7 DEF ThreadsTypeOK
<1>6. CASE ProcessSpawnFails
  <2>1. Min(FreeRoots) \in Roots
    BY <1>6, MinIsLeast, SlotFacts DEF ProcessSpawnFails, FreeRoots
  <2>2. processes' \in [Pids -> ProcessRecords]
    <3>1. CASE UNCHANGED processes
      BY <3>1 DEF ThreadsTypeOK
    <3>2. CASE FreePids # {} /\ RecordProcess(Min(FreePids), Min(FreeRoots), NO_THREAD)
      <4>1. Min(FreePids) \in Pids
        BY <3>2, MinIsLeast, SlotFacts DEF FreePids
      <4> QED BY <1>6, <1>u, <2>1, <3>2, <4>1, RecordType DEF ProcessSpawnFails
    <3> QED BY <1>6, <3>1, <3>2 DEF ProcessSpawnFails
  <2>3. roots' \subseteq Roots /\ UNCHANGED <<tableVars, parked, queueVars>>
    BY <1>6, <2>1 DEF ProcessSpawnFails, ThreadsTypeOK
  <2> QED BY <2>2, <2>3 DEF ThreadsTypeOK
<1>7. CASE Exit
  <2> DEFINE w == join_waiters[current]
             st == [state EXCEPT ![current] = "Exited"]
  <2>1. /\ InUser /\ reapable' = [reapable EXCEPT ![current] = FALSE]
        /\ processes' = Reparented(current)
        /\ UNCHANGED <<process, join_waiters, parked, roots>>
    BY <1>7 DEF Exit
  <2>2. PICK order \in WakeOrders(w, st) :
            Schedule(Enqueue(runQueue, order), AfterWake(w, st))
    BY <1>7 DEF Exit
  <2>3. st \in [Slots -> ThreadState]
    BY <1>u, <2>1 DEF ThreadsTypeOK, ThreadState
  <2>4. Range(w) \subseteq Slots
    BY <1>u, <2>1, JoinWaitersRange
  <2> HIDE DEF st, w
  <2>5. order \in Seq(Slots)
    BY <2>4, WakeOrderType
  <2>6. Enqueue(runQueue, order) \in Seq(Slots) /\ Len(Enqueue(runQueue, order)) <= MaxThreads
    BY <2>5, EnqueueType DEF ThreadsTypeOK
  <2>7. AfterWake(w, st) \in [Slots -> ThreadState]
    BY <2>3, AfterWakeType
  <2>8. /\ current' \in Slots /\ state' \in [Slots -> ThreadState] /\ cr3' \in Roots
        /\ runQueue' \in Seq(Slots) /\ Len(runQueue') <= MaxThreads
    BY <2>2, <2>6, <2>7, ScheduleType
  <2>9. reapable' \in [Slots -> BOOLEAN]
    BY <2>1 DEF ThreadsTypeOK
  <2> QED BY <2>1, <2>8, <2>9, ReparentedType DEF ThreadsTypeOK
<1>8. ASSUME NEW t \in Slots, CollectExited(t)
      PROVE  reapable' \in [Slots -> BOOLEAN]
  BY <1>8 DEF CollectExited, ThreadsTypeOK
<1>9. ASSUME NEW t \in Slots, NEW c \in Continuations, InUser, JoinBlocks(t, c)
      PROVE  ThreadsTypeOK'
  <2>1. Block(c) /\ UNCHANGED <<process, reapable, processVars>>
    BY <1>9 DEF JoinBlocks
  <2>2. join_waiters' \in [Slots -> Seq(Slots)]
    BY <1>9, <1>u DEF JoinBlocks, ThreadsTypeOK
  <2>3. /\ parked' \in [Slots -> Continuations] /\ current' \in Slots
        /\ state' \in [Slots -> ThreadState] /\ cr3' \in Roots
        /\ runQueue' \in Seq(Slots) /\ Len(runQueue') <= MaxThreads
    BY <2>1, <1>9, <1>u, BlockType
  <2> QED BY <2>1, <2>2, <2>3 DEF ThreadsTypeOK
<1>10. ASSUME NEW t \in Slots, Join(t) PROVE ThreadsTypeOK'
  <2>1. CASE CollectExited(t) /\ UNCHANGED <<process, join_waiters, parked, queueVars, processVars>>
    BY <2>1, <1>8 DEF ThreadsTypeOK
  <2>2. CASE JoinBlocks(t, Continuation("join", t, NoProcess))
    BY <2>2, <1>9, <1>10, ContinuationTypes DEF Join
  <2> QED BY <1>10, <2>1, <2>2 DEF Join
<1>11. ASSUME NEW t \in Slots, JoinCollects(t)
       PROVE  join_waiters' \in [Slots -> Seq(Slots)] /\ reapable' \in [Slots -> BOOLEAN]
  <2>1. join_waiters[t] \in Seq(Slots)
    BY DEF ThreadsTypeOK
  <2>2. SubSeq(join_waiters[t], 1, Len(join_waiters[t]) - 1) \in Seq(Slots)
    BY <2>1, LenProperties, ElementOfSeq, SubSeqProperties
  <2> QED BY <1>11, <2>2, EmptySeq DEF JoinCollects, ThreadsTypeOK
<1>12. ASSUME NEW op, Returning(op)
       PROVE  parked' \in [Slots -> Continuations] /\ current \in Slots
  BY <1>12, ContinuationTypes, SlotFacts DEF Returning, ThreadsTypeOK
<1>13. CASE JoinReturn
  <2>1. parked[current].thread \in Slots
    BY <1>13, ParkedTypes, SlotFacts DEF JoinReturn, Returning
  <2>2. parked' \in [Slots -> Continuations] /\ UNCHANGED <<process, queueVars, processVars>>
    BY <1>12, <1>13 DEF JoinReturn
  <2>3. join_waiters' \in [Slots -> Seq(Slots)] /\ reapable' \in [Slots -> BOOLEAN]
    BY <1>11, <1>13, <2>1 DEF JoinReturn, ThreadsTypeOK
  <2> QED BY <2>2, <2>3 DEF ThreadsTypeOK
<1>14. CASE WaitReturn
  <2>1. parked[current].thread \in Slots /\ parked[current].pid \in Pids
    BY <1>14, ParkedTypes, SlotFacts DEF WaitReturn, Returning
  <2>2. parked' \in [Slots -> Continuations] /\ UNCHANGED <<process, queueVars>>
    BY <1>12, <1>14 DEF WaitReturn
  <2>3. CASE JoinCollects(parked[current].thread) /\ Release(parked[current].pid)
    BY <1>11, <2>1, <2>2, <2>3, ReleaseType DEF ThreadsTypeOK
  <2>4. CASE UNCHANGED <<reapable, join_waiters, processVars>>
    BY <2>2, <2>4 DEF ThreadsTypeOK
  <2> QED BY <1>14, <2>3, <2>4 DEF WaitReturn
<1>15. ASSUME NEW p \in Pids, IsChild(p)
       PROVE  processes[p].main_thread \in Slots
  BY <1>15 DEF IsChild, ThreadsTypeOK, ProcessRecords, EMPTY
<1>16. ASSUME NEW p \in Pids, IsChild(p), ReapExited(p) PROVE ThreadsTypeOK'
  <2>1. reapable' \in [Slots -> BOOLEAN]
    BY <1>8, <1>15, <1>16 DEF ReapExited
  <2>2. processes' \in [Pids -> ProcessRecords] /\ roots' \subseteq Roots
    BY <1>16, ReleaseType DEF ReapExited
  <2> QED BY <1>16, <2>1, <2>2 DEF ReapExited, ThreadsTypeOK
<1>17. ASSUME NEW p \in Pids, WaitProcess(p) PROVE ThreadsTypeOK'
  <2>1. IsChild(p) /\ InUser
    BY <1>17 DEF WaitProcess
  <2>2. CASE ReapExited(p)
    BY <2>1, <2>2, <1>16
  <2>3. CASE JoinBlocks(processes[p].main_thread,
                        Continuation("wait", processes[p].main_thread, p))
    BY <2>1, <2>3, <1>9, <1>15, ContinuationTypes
  <2> QED BY <1>17, <2>2, <2>3 DEF WaitProcess
<1>18. ASSUME NEW p \in Pids, TryWaitProcess(p) PROVE ThreadsTypeOK'
  BY <1>16, <1>18 DEF TryWaitProcess
<1>19. CASE ReapAnyChild
  <2>1. Min(ExitedChildren) \in ExitedChildren
    BY <1>19, MinIsLeast, SlotFacts DEF ReapAnyChild, ExitedChildren
  <2> QED BY <2>1, <1>16, <1>19 DEF ReapAnyChild, ExitedChildren
<1>20. ASSUME NEW p \in Pids, TerminateProcess(p) PROVE ThreadsTypeOK'
  <2> DEFINE t == processes[p].main_thread
             st == [state EXCEPT ![t] = "Exited"]
  <2>1. /\ IsChild(p) /\ state' = AfterWake(join_waiters[t], st)
        /\ UNCHANGED <<tableVars, parked, current, cr3, processVars>>
    BY <1>20 DEF TerminateProcess
  <2>2. PICK order \in WakeOrders(join_waiters[t], st) : runQueue' = Enqueue(runQueue, order)
    BY <1>20 DEF TerminateProcess
  <2>3. t \in Slots
    BY <2>1, <1>15
  <2>4. st \in [Slots -> ThreadState]
    BY <2>3 DEF ThreadsTypeOK, ThreadState
  <2>5. Range(join_waiters[t]) \subseteq Slots
    BY <2>3, JoinWaitersRange
  <2> HIDE DEF st, t
  <2>6. order \in Seq(Slots)
    BY <2>5, WakeOrderType
  <2>7. runQueue' \in Seq(Slots) /\ Len(runQueue') <= MaxThreads
    BY <2>2, <2>6, EnqueueType DEF ThreadsTypeOK
  <2>8. state' \in [Slots -> ThreadState]
    BY <2>1, <2>4, AfterWakeType
  <2> QED BY <2>1, <2>7, <2>8 DEF ThreadsTypeOK
<1> QED
  BY <1>1, <1>2, <1>3, <1>4, <1>5, <1>6, <1>7, <1>10, <1>13, <1>14, <1>17, <1>18,
     <1>19, <1>20 DEF ThreadsNext
\* The threads named by the expiring entries, and by the entries a futex wake
\* clears, are slots.
LEMMA WakeTargets ==
  ASSUME TypeOK
  PROVE  /\ Range(ExpiredThreads) \subseteq Slots
         /\ \A a \in Addresses, n \in Nat :
              Range([i \in FutexCleared(a, n) |-> futexWaiters[i].thread]) \subseteq Slots
<1> USE KernelAssumption DEF TypeOK
<1>1. ASSUME NEW i \in DOMAIN ExpiredThreads PROVE ExpiredThreads[i] \in Slots
  <2>1. CASE i \in Expired(sleepers)
    <3>1. i \in 1 .. MaxSleepers /\ sleepers[i].thread # NO_THREAD
      BY <2>1 DEF Expired
    <3> QED BY <3>1, <2>1 DEF ExpiredThreads
  <2>2. CASE i \notin Expired(sleepers)
    <3>1. PICK j \in Expired(futexWaiters) : i = MaxSleepers + j
      BY <2>2 DEF ExpiredThreads
    <3>2. j \in 1 .. MaxFutexWaiters /\ futexWaiters[j].thread \in Slots
      BY DEF Expired
    <3> QED BY <3>1, <3>2 DEF ExpiredThreads
  <2> QED BY <2>1, <2>2
<1>2. ASSUME NEW a, NEW n, NEW i \in FutexCleared(a, n) PROVE futexWaiters[i].thread \in Slots
  BY DEF FutexCleared, FutexMatches
<1> QED BY <1>1, <1>2 DEF Range

\* The rounding of arch.rs: so many ticks cover the time asked for, one tick
\* fewer does not, and there is always one.
LEMMA TicksCover ==
  ASSUME NEW ms \in Nat
  PROVE  /\ Ticks(ms) \in Nat \ {0}
         /\ ms <= Ticks(ms) * MsPerTick
         /\ ms # 0 => (Ticks(ms) - 1) * MsPerTick < ms
<1>1. PICK m \in Nat \ {0} : m = MsPerTick
  BY KernelAssumption
<1>2. PICK q : q = (ms + m - 1) \div m
  OBVIOUS
<1>3. q \in Nat /\ q * m <= ms + m - 1 /\ ms + m - 1 < (q + 1) * m
  BY <1>1, <1>2
<1>4. (q + 1) * m = q * m + m /\ (q - 1) * m = q * m - m
  BY <1>1, <1>3
<1>5. ms <= q * m /\ (q - 1) * m < ms
  BY <1>1, <1>3, <1>4
<1>6. CASE q < 1
  <2>1. q = 0 /\ q * m = 0
    BY <1>1, <1>3, <1>6
  <2>2. Ticks(ms) = 1 /\ ms = 0
    BY <1>1, <1>2, <1>5, <1>6, <2>1 DEF Ticks
  <2> QED BY <1>1, <2>2
<1>7. CASE ~ (q < 1)
  <2>1. Ticks(ms) = q
    BY <1>1, <1>2, <1>7 DEF Ticks
  <2> QED BY <1>1, <1>3, <1>5, <1>7, <2>1
<1> QED BY <1>6, <1>7

\* SLEEPERS after a tick, entry by entry.
LEMMA TickedSleepers ==
  ASSUME TypeOK
  PROVE  LET after == Elapsed(Advanced(sleepers, NoSleeper))
         IN /\ after \in [1 .. MaxSleepers ->
                             [thread : Slots \cup {NO_THREAD}, left : Nat, owed : Nat]]
            /\ \A i \in 1 .. MaxSleepers :
                 /\ i \in Expired(sleepers) => after[i].thread = NO_THREAD
                 /\ i \notin Expired(sleepers) =>
                      /\ after[i].thread = sleepers[i].thread
                      /\ after[i].left = IF sleepers[i].left > 1 THEN sleepers[i].left - 1
                                         ELSE sleepers[i].left
                      /\ after[i].owed = IF sleepers[i].owed > MsPerTick
                                         THEN sleepers[i].owed - MsPerTick ELSE 0
<1> DEFINE SleeperSet == [thread : Slots \cup {NO_THREAD}, left : Nat, owed : Nat]
           advanced == Advanced(sleepers, NoSleeper)
           after == Elapsed(advanced)
<1>1. sleepers \in [1 .. MaxSleepers -> SleeperSet] /\ MsPerTick \in Nat \ {0}
  BY KernelAssumption DEF TypeOK
<1>2. NoSleeper \in SleeperSet /\ NoSleeper.thread = NO_THREAD
  BY DEF NoSleeper
<1>3. DOMAIN advanced = 1 .. MaxSleepers /\ DOMAIN after = 1 .. MaxSleepers
  BY <1>1 DEF Advanced, Elapsed
<1>4. ASSUME NEW i \in 1 .. MaxSleepers
      PROVE  /\ advanced[i] \in SleeperSet
             /\ i \in Expired(sleepers) => advanced[i].thread = NO_THREAD
             /\ i \notin Expired(sleepers) =>
                  /\ advanced[i].thread = sleepers[i].thread
                  /\ advanced[i].owed = sleepers[i].owed
                  /\ advanced[i].left = IF sleepers[i].left > 1 THEN sleepers[i].left - 1
                                        ELSE sleepers[i].left
  <2>1. CASE i \in Expired(sleepers)
    BY <1>1, <1>2, <2>1 DEF Advanced
  <2>2. CASE i \notin Expired(sleepers)
    <3>1. advanced[i] = [sleepers[i] EXCEPT !.left = IF @ > 1 THEN @ - 1 ELSE @]
      BY <1>1, <2>2 DEF Advanced
    <3> QED BY <1>1, <2>2, <3>1
  <2> QED BY <2>1, <2>2
<1> HIDE DEF advanced
<1>5. ASSUME NEW i \in 1 .. MaxSleepers
      PROVE  /\ after[i] \in SleeperSet
             /\ after[i].thread = advanced[i].thread /\ after[i].left = advanced[i].left
             /\ after[i].owed = IF advanced[i].owed > MsPerTick
                                THEN advanced[i].owed - MsPerTick ELSE 0
  <2>1. after[i] = [advanced[i] EXCEPT !.owed = IF @ > MsPerTick THEN @ - MsPerTick ELSE 0]
    BY <1>3 DEF Elapsed
  <2> QED BY <1>1, <1>4, <2>1
<1>6. after \in [1 .. MaxSleepers -> SleeperSet]
  <2>1. after = [i \in 1 .. MaxSleepers |-> after[i]]
    BY <1>3 DEF Elapsed
  <2> QED BY <1>5, <2>1
<1> QED BY <1>4, <1>5, <1>6 DEF advanced

\* Every step of Kernel keeps the state typed.
LEMMA TypeStep == TypeOK /\ [Next]_vars => TypeOK'
<1> SUFFICES ASSUME TypeOK, [Next]_vars PROVE TypeOK'
  OBVIOUS
<1> DEFINE SleeperSet == [thread : Slots \cup {NO_THREAD}, left : Nat, owed : Nat]
           FutexSet == [thread : Slots \cup {NO_THREAD}, left : Nat,
                        address : Addresses \cup {NoAddress}]
<1>t. /\ ThreadsTypeOK
      /\ sleepers \in [1 .. MaxSleepers -> SleeperSet]
      /\ futexWaiters \in [1 .. MaxFutexWaiters -> FutexSet]
  BY DEF TypeOK
<1>u. InUser => current \in Slots
  BY SlotFacts DEF InUser
<1>1. CASE ThreadsNext /\ UNCHANGED waitVars
  BY <1>1, <1>t, ThreadsTypeStep DEF TypeOK, waitVars
<1>2. CASE SleepReturn
  <2>1. parked' \in [Slots -> Continuations]
    BY <1>2, <1>t, ContinuationTypes DEF SleepReturn, Returning, ThreadsTypeOK
  <2> QED BY <1>2, <1>t, <2>1
        DEF SleepReturn, TypeOK, ThreadsTypeOK, tableVars, queueVars, processVars, waitVars
<1>3. ASSUME Interruptible PROVE AfterInterrupt \in [Slots -> Continuations]
  <2>1. CASE current = IDLE_THREAD
    <3>1. parked[IDLE_THREAD].op \in {"start", "halt", "woken"}
      BY <1>3, <2>1, SlotFacts DEF Interruptible, InUser
    <3> QED BY <2>1, <3>1, <1>t, IdleContinuation DEF AfterInterrupt
  <2>2. CASE current # IDLE_THREAD
    BY <2>2, <1>t DEF AfterInterrupt, ThreadsTypeOK
  <2> QED BY <2>1, <2>2
<1>4. CASE Tick
  <2>1. WakeAll(ExpiredThreads) /\ UNCHANGED <<tableVars, processVars>>
    BY <1>4 DEF Tick
  <2>2. /\ state' \in [Slots -> ThreadState]
        /\ runQueue' \in Seq(Slots) /\ Len(runQueue') <= MaxThreads
        /\ current' = current /\ cr3' = cr3
    BY <2>1, <1>t, WakeTargets, WakeAllType
  <2>3. parked' \in [Slots -> Continuations]
    BY <1>3, <1>4 DEF Tick
  <2>4. sleepers' \in [1 .. MaxSleepers -> SleeperSet]
    BY <1>4, TickedSleepers DEF Tick
  <2>5. futexWaiters' \in [1 .. MaxFutexWaiters -> FutexSet]
    <3>1. NoFutexWaiter \in FutexSet
      BY KernelAssumption DEF NoFutexWaiter
    <3>2. ASSUME NEW i \in 1 .. MaxFutexWaiters
          PROVE  [futexWaiters[i] EXCEPT !.left = IF @ > 1 THEN @ - 1 ELSE @] \in FutexSet
      BY <1>t, KernelAssumption
    <3> QED BY <1>4, <1>t, <3>1, <3>2 DEF Tick, Advanced
  <2> QED BY <1>t, <2>1, <2>2, <2>3, <2>4, <2>5
        DEF TypeOK, ThreadsTypeOK, tableVars, processVars
<1>5. CASE OtherInterrupt
  BY <1>3, <1>5, <1>t
     DEF OtherInterrupt, TypeOK, ThreadsTypeOK, tableVars, queueVars, processVars, waitVars
<1>6. ASSUME NEW ms \in 1 .. MaxDelay, Sleep(ms) PROVE TypeOK'
  <2> DEFINE c == Continuation("sleep", NO_THREAD, NoProcess)
  <2>1. Block(c) /\ current \in Slots /\ UNCHANGED <<tableVars, processVars, futexWaiters>>
    BY <1>6, <1>u DEF Sleep
  <2>2. /\ parked' \in [Slots -> Continuations] /\ current' \in Slots
        /\ state' \in [Slots -> ThreadState] /\ cr3' \in Roots
        /\ runQueue' \in Seq(Slots) /\ Len(runQueue') <= MaxThreads
    BY <1>t, <2>1, BlockType, ContinuationTypes
  <2>3. sleepers' \in [1 .. MaxSleepers -> SleeperSet]
    <3>1. Min(FreeEntries(sleepers)) \in 1 .. MaxSleepers
      BY <1>6, <1>t, FreeEntryType, KernelAssumption DEF Sleep
    <3>2. [thread |-> current, left |-> Ticks(ms), owed |-> ms] \in SleeperSet
      BY <2>1, TicksCover, KernelAssumption
    <3> QED BY <1>6, <1>t, <3>1, <3>2 DEF Sleep
  <2> QED BY <1>t, <2>1, <2>2, <2>3 DEF TypeOK, ThreadsTypeOK, tableVars, processVars
<1>7. ASSUME NEW a \in Addresses, NEW d \in Timeouts, FutexWait(a, d) PROVE TypeOK'
  <2> DEFINE c == Continuation("futex", NO_THREAD, NoProcess)
  <2>1. Block(c) /\ current \in Slots /\ UNCHANGED <<tableVars, processVars, sleepers>>
    BY <1>7, <1>u DEF FutexWait
  <2>2. /\ parked' \in [Slots -> Continuations] /\ current' \in Slots
        /\ state' \in [Slots -> ThreadState] /\ cr3' \in Roots
        /\ runQueue' \in Seq(Slots) /\ Len(runQueue') <= MaxThreads
    BY <1>t, <2>1, BlockType, ContinuationTypes
  <2>3. futexWaiters' \in [1 .. MaxFutexWaiters -> FutexSet]
    <3>1. Min(FreeEntries(futexWaiters)) \in 1 .. MaxFutexWaiters
      BY <1>7, <1>t, FreeEntryType, KernelAssumption DEF FutexWait
    <3>2. [thread |-> current, address |-> a, left |-> d] \in FutexSet
      BY <2>1, TicksCover, KernelAssumption DEF Timeouts
    <3> QED BY <1>7, <1>t, <3>1, <3>2 DEF FutexWait
  <2> QED BY <1>t, <2>1, <2>2, <2>3 DEF TypeOK, ThreadsTypeOK, tableVars, processVars
<1>8. ASSUME NEW a \in Addresses, NEW n \in 1 .. MaxFutexWaiters, FutexWake(a, n)
      PROVE  TypeOK'
  <2>1. /\ WakeAll([i \in FutexCleared(a, n) |-> futexWaiters[i].thread])
        /\ UNCHANGED <<tableVars, parked, processVars, sleepers>>
    BY <1>8 DEF FutexWake
  <2>2. n \in Nat
    BY KernelAssumption
  <2>3. /\ state' \in [Slots -> ThreadState]
        /\ runQueue' \in Seq(Slots) /\ Len(runQueue') <= MaxThreads
        /\ current' = current /\ cr3' = cr3
    BY <2>1, <2>2, <1>t, WakeTargets, WakeAllType
  <2>4. futexWaiters' \in [1 .. MaxFutexWaiters -> FutexSet]
    BY <1>8, <1>t, KernelAssumption DEF FutexWake, NoFutexWaiter
  <2> QED BY <1>t, <2>1, <2>3, <2>4 DEF TypeOK, ThreadsTypeOK, tableVars, processVars
<1>9. CASE UNCHANGED vars
  BY <1>9 DEF vars, threadVars, tableVars, queueVars, processVars, waitVars, TypeOK, ThreadsTypeOK
<1> QED BY <1>1, <1>2, <1>4, <1>5, <1>6, <1>7, <1>8, <1>9 DEF Next

\* Every reachable state of the kernel's tables is typed; in particular the run
\* queue never exceeds its MAX_THREADS entries and CR3 always holds the root
\* of some address space.
THEOREM TypeCorrect == Spec => []TypeOK
BY InitType, TypeStep, PTL DEF Spec

-----------------------------------------------------------------------------
(***************************************************************************)
(* Join targets.  JoinTargetsKept is not inductive: that a reapable slot   *)
(* has no joiners follows from its waiter count being zero, so the count   *)
(* has to bound the number of parked joiners (JoinCountBounds), and no     *)
(* joiner may register with a slot once it is reapable (ReapableIsIdle):   *)
(* the conjuncts of JoinInv.                                               *)
(***************************************************************************)
\* The joiners of a slot are finitely many, and a smaller set has no more.
LEMMA JoinersFinite ==
  ASSUME NEW s
  PROVE  /\ IsFiniteSet(Joiners(s)) /\ Cardinality(Joiners(s)) \in Nat
         /\ Joiners(s)' \subseteq Joiners(s)
              => Cardinality(Joiners(s)') <= Cardinality(Joiners(s))
<1>1. IsFiniteSet(Slots) /\ Joiners(s) \subseteq Slots
  BY FS_Interval, ThreadsAssumption DEF Slots, Joiners
<1>2. IsFiniteSet(Joiners(s))
  BY <1>1, FS_Subset
<1> QED BY <1>2, FS_Subset, FS_CardinalityType

\* A step that registers and frees nothing, and adds no joiner, keeps JoinInv
\* as long as it leaves reapable slots alone.
LEMMA JoinFrame ==
  ASSUME TypeOK, JoinInv, TypeOK', join_waiters' = join_waiters, reapable' = reapable,
         \A s \in Slots : Joiners(s)' \subseteq Joiners(s), NoSelfJoin',
         \A s \in UserSlots : reapable[s] => state'[s] = "Exited" /\ s # current'
  PROVE  JoinInv'
<1>1. JoinCountBounds'
  <2> SUFFICES ASSUME NEW s \in Slots
               PROVE  Cardinality(Joiners(s)') <= Len(join_waiters'[s])
    BY DEF JoinCountBounds
  <2>1. Cardinality(Joiners(s)') <= Cardinality(Joiners(s))
    BY JoinersFinite
  <2>2. Cardinality(Joiners(s)) <= Len(join_waiters[s]) /\ Cardinality(Joiners(s)) \in Nat
    BY JoinersFinite DEF JoinInv, JoinCountBounds
  <2>3. Joiners(s)' \subseteq Slots /\ IsFiniteSet(Slots)
    BY FS_Interval, ThreadsAssumption DEF Slots, Joiners
  <2>4. Cardinality(Joiners(s)') \in Nat
    BY <2>3, FS_Subset, FS_CardinalityType
  <2>5. Len(join_waiters[s]) \in Nat
    BY LenProperties DEF TypeOK, ThreadsTypeOK
  <2> QED BY <2>1, <2>2, <2>4, <2>5
<1>2. ReapableIsIdle'
  BY DEF JoinInv, ReapableIsIdle
<1> QED BY <1>1, <1>2 DEF JoinInv

\* The scheduler dispatches no reapable slot and leaves it exited.
LEMMA ScheduleSparesReapable ==
  ASSUME ThreadsTypeOK, NEW q \in Seq(Slots), Len(q) <= MaxThreads,
         NEW st \in [Slots -> ThreadState], Schedule(q, st),
         NEW s \in UserSlots, st[s] = "Exited"
  PROVE  state'[s] = "Exited" /\ s # current'
<1>1. /\ current' \in Slots
      /\ current' = IDLE_THREAD \/ st[current'] # "Exited"
      /\ state' = [st EXCEPT ![current'] = "Running"]
  BY ScheduleType
<1>2. s # current' /\ s \in Slots
  BY <1>1, SlotFacts
<1> QED BY <1>1, <1>2

\* A wake pass changes Blocked threads only.
LEMMA WakeSparesExited ==
  ASSUME NEW f, NEW st, NEW s \in Slots, st[s] = "Exited"
  PROVE  AfterWake(f, st)[s] = "Exited"
BY DEF AfterWake, Woken

\* A slot that is spawned into has no joiner, so its fresh, empty waiter list
\* forgets nobody.
LEMMA SpawnKeepsJoinInv ==
  ASSUME TypeOK, JoinInv, TypeOK', NEW t \in UserSlots, reapable[t], NEW p, SpawnInto(t, p)
  PROVE  JoinInv'
<1>t. /\ t \in Slots /\ parked \in [Slots -> Continuations] /\ state \in [Slots -> ThreadState]
      /\ join_waiters \in [Slots -> Seq(Slots)] /\ reapable \in [Slots -> BOOLEAN]
  BY SlotFacts DEF TypeOK, ThreadsTypeOK
<1>0. ReturnToUser.op = "user"
  BY DEF ReturnToUser, Continuation
<1>1. \A s \in Slots : Joiners(s)' \subseteq Joiners(s)
  BY <1>0, <1>t DEF SpawnInto, Joiners
<1>2. Joiners(t)' = {}
  <2>1. join_waiters[t] = <<>> /\ Len(join_waiters[t]) = 0
    BY EmptySeq DEF JoinInv, ReapableIsIdle
  <2>2. Cardinality(Joiners(t)) = 0
    BY <2>1, <1>t, JoinersFinite DEF JoinInv, JoinCountBounds
  <2>3. Joiners(t) = {}
    BY <2>2, JoinersFinite, FS_EmptySet
  <2> QED BY <2>3, <1>1, <1>t
<1>3. JoinCountBounds'
  <2> SUFFICES ASSUME NEW s \in Slots
               PROVE  Cardinality(Joiners(s)') <= Len(join_waiters'[s])
    BY DEF JoinCountBounds
  <2>1. CASE s = t
    <3>1. join_waiters'[s] = <<>> /\ Len(join_waiters'[s]) = 0
      BY <1>t, <2>1, EmptySeq DEF SpawnInto
    <3>2. Cardinality(Joiners(s)') = 0
      BY <1>2, <2>1, FS_EmptySet
    <3> QED BY <3>1, <3>2
  <2>2. CASE s # t
    <3>1. join_waiters'[s] = join_waiters[s]
      BY <1>t, <2>2 DEF SpawnInto
    <3>2. Cardinality(Joiners(s)) <= Len(join_waiters[s]) /\ Cardinality(Joiners(s)) \in Nat
      BY JoinersFinite DEF JoinInv, JoinCountBounds
    <3>3. Cardinality(Joiners(s)') <= Cardinality(Joiners(s))
      BY <1>1, JoinersFinite
    <3>4. IsFiniteSet(Joiners(s)')
      BY <1>1, JoinersFinite, FS_Subset
    <3>5. Cardinality(Joiners(s)') \in Nat /\ Len(join_waiters[s]) \in Nat
      BY <1>t, <3>4, FS_CardinalityType, LenProperties
    <3> QED BY <3>1, <3>2, <3>3, <3>5
  <2> QED BY <2>1, <2>2
<1>4. ReapableIsIdle'
  BY <1>t DEF SpawnInto, ReapableIsIdle, JoinInv
<1>5. NoSelfJoin'
  BY <1>0, <1>t DEF SpawnInto, NoSelfJoin, JoinInv
<1> QED BY <1>3, <1>4, <1>5 DEF JoinInv

\* Registering a joiner adds one to both sides of JoinCountBounds.
LEMMA RegisterKeepsJoinInv ==
  ASSUME TypeOK, JoinInv, TypeOK', InUser, NEW t \in Slots, NEW c \in Continuations,
         c.op \in {"join", "wait"}, c.thread = t, t # current, JoinBlocks(t, c)
  PROVE  JoinInv'
<1>t. /\ current \in UserSlots /\ current \in Slots
      /\ parked \in [Slots -> Continuations] /\ parked[current].op = "user"
      /\ state \in [Slots -> ThreadState] /\ ThreadsTypeOK
      /\ runQueue \in Seq(Slots) /\ Len(runQueue) <= MaxThreads
      /\ join_waiters \in [Slots -> Seq(Slots)] /\ reapable \in [Slots -> BOOLEAN]
  BY SlotFacts DEF TypeOK, ThreadsTypeOK, InUser
<1>1. /\ state[t] # "Exited" /\ reapable' = reapable
      /\ join_waiters' = [join_waiters EXCEPT ![t] = Append(@, current)]
      /\ parked' = [parked EXCEPT ![current] = c]
      /\ Schedule(runQueue, [state EXCEPT ![current] = "Blocked"])
  BY DEF JoinBlocks, Block
<1>2. Joiners(t)' = Joiners(t) \cup {current} /\ current \notin Joiners(t)
  BY <1>t, <1>1 DEF Joiners
<1>3. \A s \in Slots : s # t => Joiners(s)' = Joiners(s)
  BY <1>t, <1>1 DEF Joiners
<1>4. JoinCountBounds'
  <2> SUFFICES ASSUME NEW s \in Slots
               PROVE  Cardinality(Joiners(s)') <= Len(join_waiters'[s])
    BY DEF JoinCountBounds
  <2>0. Cardinality(Joiners(s)) <= Len(join_waiters[s]) /\ Cardinality(Joiners(s)) \in Nat
    BY JoinersFinite DEF JoinInv, JoinCountBounds
  <2>1. CASE s = t
    <3>1. Cardinality(Joiners(s)') = Cardinality(Joiners(s)) + 1
      BY <1>2, <2>1, JoinersFinite, FS_AddElement
    <3>2. join_waiters[s] \in Seq(Slots) /\ join_waiters'[s] = Append(join_waiters[s], current)
      BY <1>t, <1>1, <2>1
    <3>3. Len(join_waiters'[s]) = Len(join_waiters[s]) + 1 /\ Len(join_waiters[s]) \in Nat
      BY <3>2, <1>t, LenProperties
    <3> QED BY <2>0, <3>1, <3>3
  <2>2. CASE s # t
    BY <1>1, <1>3, <1>t, <2>0, <2>2
  <2> QED BY <2>1, <2>2
<1>5. ReapableIsIdle'
  <2> SUFFICES ASSUME NEW s \in UserSlots, reapable'[s]
               PROVE  state'[s] = "Exited" /\ join_waiters'[s] = <<>> /\ s # current'
    BY DEF ReapableIsIdle
  <2>1. s \in Slots /\ state[s] = "Exited" /\ join_waiters[s] = <<>> /\ s # current
    BY <1>1, SlotFacts DEF JoinInv, ReapableIsIdle
  <2>2. s # t
    BY <1>1, <2>1
  <2>3. [state EXCEPT ![current] = "Blocked"][s] = "Exited"
    BY <1>t, <2>1
  <2>4. [state EXCEPT ![current] = "Blocked"] \in [Slots -> ThreadState]
    BY <1>t DEF ThreadState
  <2>5. state'[s] = "Exited" /\ s # current'
    BY <1>1, <1>t, <2>3, <2>4, ScheduleSparesReapable
  <2> QED BY <1>1, <1>t, <2>1, <2>2, <2>5
<1>6. NoSelfJoin'
  BY <1>1, <1>t DEF NoSelfJoin, JoinInv
<1> QED BY <1>4, <1>5, <1>6 DEF JoinInv

\* A joiner that collects leaves: both sides go down by one, and when the
\* count reaches zero nobody else is parked on the slot.
LEMMA CollectKeepsJoinInv ==
  ASSUME TypeOK, JoinInv, TypeOK', NEW t \in Slots, current \in UserSlots,
         parked[current].op \in {"join", "wait"}, parked[current].thread = t,
         JoinCollects(t), parked' = [parked EXCEPT ![current] = ReturnToUser],
         UNCHANGED <<state, current>>
  PROVE  JoinInv'
<1>t. /\ current \in Slots /\ parked \in [Slots -> Continuations]
      /\ state \in [Slots -> ThreadState]
      /\ join_waiters \in [Slots -> Seq(Slots)] /\ reapable \in [Slots -> BOOLEAN]
  BY SlotFacts DEF TypeOK, ThreadsTypeOK
<1>0. ReturnToUser.op = "user"
  BY DEF ReturnToUser, Continuation
<1>1. current \in Joiners(t) /\ Joiners(t)' = Joiners(t) \ {current}
  BY <1>0, <1>t DEF Joiners
<1>2. \A s \in Slots : s # t => Joiners(s)' = Joiners(s)
  BY <1>0, <1>t DEF Joiners
<1> DEFINE w == join_waiters[t]
           rest == SubSeq(w, 1, Len(w) - 1)
<1>3. /\ Cardinality(Joiners(t)) \in Nat
      /\ Cardinality(Joiners(t)') = Cardinality(Joiners(t)) - 1
      /\ Cardinality(Joiners(t)') \in Nat
  <2>1. IsFiniteSet(Joiners(t)')
    BY <1>1, JoinersFinite, FS_RemoveElement
  <2> QED BY <1>1, <2>1, JoinersFinite, FS_RemoveElement, FS_CardinalityType
<1>4. /\ w \in Seq(Slots) /\ Len(w) \in Nat /\ w # <<>>
      /\ Cardinality(Joiners(t)) <= Len(w)
  <2>1. w \in Seq(Slots) /\ Len(w) \in Nat /\ Cardinality(Joiners(t)) <= Len(w)
    BY <1>t, LenProperties DEF JoinInv, JoinCountBounds
  <2>2. Len(w) # 0
    BY <1>3, <2>1
  <2> QED BY <2>1, <2>2, EmptySeq
<1>5. rest \in Seq(Slots) /\ Len(rest) = Len(w) - 1
  BY <1>3, <1>4, ElementOfSeq, SubSeqProperties
<1>6. /\ state[t] = "Exited"
      /\ join_waiters' = [join_waiters EXCEPT ![t] = rest]
      /\ reapable' = [reapable EXCEPT ![t] = @ \/ rest = <<>>]
  BY <1>4 DEF JoinCollects
<1> HIDE DEF rest, w
<1>7. JoinCountBounds'
  <2> SUFFICES ASSUME NEW s \in Slots
               PROVE  Cardinality(Joiners(s)') <= Len(join_waiters'[s])
    BY DEF JoinCountBounds
  <2>1. CASE s = t
    <3>1. join_waiters'[s] = rest
      BY <1>6, <1>t, <2>1
    <3> QED BY <1>3, <1>4, <1>5, <2>1, <3>1
  <2>2. CASE s # t
    BY <1>2, <1>6, <1>t, <2>2 DEF JoinInv, JoinCountBounds
  <2> QED BY <2>1, <2>2
<1>8. ReapableIsIdle'
  <2> SUFFICES ASSUME NEW s \in UserSlots, reapable'[s]
               PROVE  state'[s] = "Exited" /\ join_waiters'[s] = <<>> /\ s # current'
    BY DEF ReapableIsIdle
  <2>1. CASE s = t
    <3>1. ~ reapable[t]
      BY <1>4, <2>1 DEF JoinInv, ReapableIsIdle, w
    <3>2. join_waiters'[s] = rest /\ rest = <<>>
      BY <1>6, <1>t, <2>1, <3>1
    <3>3. t # current
      BY <1>t DEF JoinInv, NoSelfJoin
    <3> QED BY <1>6, <2>1, <3>2, <3>3
  <2>2. CASE s # t
    BY <1>6, <1>t, <2>2, SlotFacts DEF JoinInv, ReapableIsIdle
  <2> QED BY <2>1, <2>2
<1>9. NoSelfJoin'
  BY <1>0, <1>t DEF NoSelfJoin, JoinInv
<1> QED BY <1>7, <1>8, <1>9 DEF JoinInv

\* Collecting a thread that has exited frees its slot only when nobody is
\* registered with it.
LEMMA FreeKeepsJoinInv ==
  ASSUME TypeOK, JoinInv, TypeOK', NEW t \in Slots, t # current, state[t] = "Exited",
         CollectExited(t), UNCHANGED <<state, current, join_waiters, parked>>
  PROVE  JoinInv'
<1>1. JoinCountBounds' /\ NoSelfJoin'
  BY DEF JoinInv, JoinCountBounds, Joiners, NoSelfJoin
<1>2. ReapableIsIdle'
  BY SlotFacts DEF CollectExited, JoinInv, ReapableIsIdle, TypeOK, ThreadsTypeOK
<1> QED BY <1>1, <1>2 DEF JoinInv

\* A step that only moves threads through the scheduler keeps JoinInv.
LEMMA ScheduleKeepsJoinInv ==
  ASSUME TypeOK, JoinInv, TypeOK', join_waiters' = join_waiters, reapable' = reapable,
         \A s \in Slots : Joiners(s)' \subseteq Joiners(s), NoSelfJoin',
         NEW q \in Seq(Slots), Len(q) <= MaxThreads, NEW st \in [Slots -> ThreadState],
         \A s \in UserSlots : reapable[s] => st[s] = "Exited", Schedule(q, st)
  PROVE  JoinInv'
<1>1. ThreadsTypeOK
  BY DEF TypeOK
<1>2. \A s \in UserSlots : reapable[s] => state'[s] = "Exited" /\ s # current'
  BY <1>1, ScheduleSparesReapable
<1> QED BY <1>2, JoinFrame

\* Every step of Kernel keeps JoinInv.
LEMMA JoinStep == TypeOK /\ JoinInv /\ [Next]_vars => JoinInv'
<1> SUFFICES ASSUME TypeOK, JoinInv, [Next]_vars PROVE JoinInv'
  OBVIOUS
<1> USE DEF tableVars, queueVars, processVars
<1>t. TypeOK'
  BY TypeStep
<1>s. /\ ThreadsTypeOK /\ state \in [Slots -> ThreadState]
      /\ runQueue \in Seq(Slots) /\ Len(runQueue) <= MaxThreads
      /\ parked \in [Slots -> Continuations]
      /\ join_waiters \in [Slots -> Seq(Slots)] /\ reapable \in [Slots -> BOOLEAN]
  BY DEF TypeOK, ThreadsTypeOK
<1>u. InUser => /\ current \in UserSlots /\ current \in Slots /\ <<current>> \in Seq(Slots)
                /\ parked[current].op = "user"
  BY SlotFacts DEF InUser
<1>r. \A s \in UserSlots : reapable[s] => state[s] = "Exited" /\ s # current /\ s \in Slots
  BY SlotFacts DEF JoinInv, ReapableIsIdle
<1>n. NoSelfJoin
  BY DEF JoinInv
<1>p. parked' = parked => NoSelfJoin' /\ \A s \in Slots : Joiners(s)' \subseteq Joiners(s)
  BY <1>n DEF NoSelfJoin, Joiners
<1>1. CASE Start
  <2> DEFINE q == Enqueue(runQueue, <<IDLE_THREAD>>)
             st == [state EXCEPT ![IDLE_THREAD] = "Ready"]
  <2>1. q \in Seq(Slots) /\ Len(q) <= MaxThreads
    <3>1. <<IDLE_THREAD>> \in Seq(Slots)
      BY SlotFacts
    <3> QED BY <1>s, <3>1, EnqueueType
  <2>2. /\ current' = NextReady(q, st) /\ state' = [st EXCEPT ![NextReady(q, st)] = "Running"]
        /\ parked' = parked /\ join_waiters' = join_waiters /\ reapable' = reapable
    BY <1>1 DEF Start
  <2>3. \A s \in UserSlots : reapable[s] => st[s] = "Exited"
    BY <1>r, <1>s, SlotFacts
  <2>4. st \in [Slots -> ThreadState]
    BY <1>s, SlotFacts DEF ThreadState
  <2> HIDE DEF q, st
  <2>5. NextReady(q, st) \in Slots /\ (NextReady(q, st) = IDLE_THREAD \/ st[NextReady(q, st)] # "Exited")
    BY <2>1, NextReadyType
  <2>6. \A s \in UserSlots : reapable[s] => state'[s] = "Exited" /\ s # current'
    BY <2>2, <2>3, <2>4, <2>5, SlotFacts
  <2> QED BY <1>t, <1>p, <2>2, <2>6, JoinFrame
<1>2. CASE Yield
  <2> DEFINE q == Enqueue(runQueue, <<current>>)
             st == [state EXCEPT ![current] = "Ready"]
  <2>1. /\ Schedule(q, st) /\ InUser
        /\ parked' = parked /\ join_waiters' = join_waiters /\ reapable' = reapable
    BY <1>2 DEF Yield
  <2>2. q \in Seq(Slots) /\ Len(q) <= MaxThreads
    BY <1>s, <1>u, <2>1, EnqueueType
  <2>3. st \in [Slots -> ThreadState] /\ \A s \in UserSlots : reapable[s] => st[s] = "Exited"
    BY <1>s, <1>r, <1>u, <2>1 DEF ThreadState
  <2> HIDE DEF q, st
  <2> QED BY <1>t, <1>p, <2>1, <2>2, <2>3, ScheduleKeepsJoinInv
<1>3. CASE IdleYield
  <2>1. /\ Schedule(runQueue, state) /\ join_waiters' = join_waiters /\ reapable' = reapable
        /\ parked' = [parked EXCEPT ![IDLE_THREAD].op = "halt"]
    BY <1>3 DEF IdleYield
  <2>2. NoSelfJoin' /\ \A s \in Slots : Joiners(s)' \subseteq Joiners(s)
    BY <1>n, <1>s, <2>1, SlotFacts DEF NoSelfJoin, Joiners
  <2> QED BY <1>t, <1>s, <1>r, <2>1, <2>2, ScheduleKeepsJoinInv
<1>4. ASSUME FreeSlots # {} PROVE Min(FreeSlots) \in UserSlots /\ reapable[Min(FreeSlots)]
  BY <1>4, MinIsLeast, SlotFacts DEF FreeSlots
<1>5. CASE ThreadCreate
  BY <1>t, <1>4, <1>5, SpawnKeepsJoinInv DEF ThreadCreate
<1>6. CASE ProcessSpawn
  BY <1>t, <1>4, <1>6, SpawnKeepsJoinInv DEF ProcessSpawn
<1>7. CASE ProcessSpawnFails
  <2>1. UNCHANGED <<state, current, join_waiters, parked, reapable>>
    BY <1>7 DEF ProcessSpawnFails
  <2> QED BY <1>t, <1>p, <1>r, <2>1, JoinFrame
<1>8. CASE Exit
  <2> DEFINE w == join_waiters[current]
             st == [state EXCEPT ![current] = "Exited"]
  <2>1. /\ InUser /\ reapable' = [reapable EXCEPT ![current] = FALSE]
        /\ parked' = parked /\ join_waiters' = join_waiters
    BY <1>8 DEF Exit
  <2>2. PICK order \in WakeOrders(w, st) :
            Schedule(Enqueue(runQueue, order), AfterWake(w, st))
    BY <1>8 DEF Exit
  <2>3. st \in [Slots -> ThreadState] /\ \A s \in UserSlots : reapable[s] => st[s] = "Exited"
    BY <1>u, <1>r, <1>s, <2>1 DEF ThreadState
  <2>4. Range(w) \subseteq Slots
    BY <1>u, <1>s, <2>1, JoinWaitersRange
  <2> HIDE DEF st, w
  <2>5. Enqueue(runQueue, order) \in Seq(Slots) /\ Len(Enqueue(runQueue, order)) <= MaxThreads
    <3>1. order \in Seq(Slots)
      BY <2>4, WakeOrderType
    <3> QED BY <1>s, <3>1, EnqueueType
  <2>6. /\ AfterWake(w, st) \in [Slots -> ThreadState]
        /\ \A s \in UserSlots : reapable[s] => AfterWake(w, st)[s] = "Exited"
    BY <1>r, <2>3, AfterWakeType, WakeSparesExited
  <2>7. \A s \in UserSlots : reapable[s] => state'[s] = "Exited" /\ s # current'
    BY <1>s, <2>2, <2>5, <2>6, ScheduleSparesReapable
  <2>8. JoinCountBounds' /\ NoSelfJoin'
    BY <1>p, <2>1 DEF JoinInv, JoinCountBounds, Joiners
  <2>9. ReapableIsIdle'
    <3>1. \A s \in UserSlots : reapable'[s] => reapable[s]
      BY <1>s, <1>u, <2>1, SlotFacts
    <3> QED BY <2>1, <2>7, <3>1 DEF ReapableIsIdle, JoinInv
  <2> QED BY <2>8, <2>9 DEF JoinInv
<1>9. ASSUME NEW t \in Slots, Join(t) PROVE JoinInv'
  <2>1. InUser /\ t # current
    BY <1>9 DEF Join
  <2>2. CASE /\ state[t] = "Exited" /\ CollectExited(t)
             /\ UNCHANGED <<process, join_waiters, parked, queueVars, processVars>>
    BY <1>t, <2>1, <2>2, FreeKeepsJoinInv
  <2>3. CASE JoinBlocks(t, Continuation("join", t, NoProcess))
    <3>1. /\ Continuation("join", t, NoProcess) \in Continuations
          /\ Continuation("join", t, NoProcess).op = "join"
          /\ Continuation("join", t, NoProcess).thread = t
      BY ContinuationTypes DEF Continuation
    <3> QED BY <1>t, <2>1, <2>3, <3>1, RegisterKeepsJoinInv
  <2> QED BY <1>9, <2>2, <2>3 DEF Join
<1>10. ASSUME NEW op, Returning(op),
              UNCHANGED <<state, current, join_waiters, reapable>>
       PROVE  JoinInv'
  <2>1. NoSelfJoin' /\ \A s \in Slots : Joiners(s)' \subseteq Joiners(s)
    BY <1>10, <1>n, <1>s, SlotFacts
       DEF Returning, NoSelfJoin, Joiners, ReturnToUser, Continuation
  <2> QED BY <1>10, <1>t, <1>r, <2>1, JoinFrame
<1>11. CASE JoinReturn
  <2> DEFINE t == parked[current].thread
  <2>1. Returning("join") /\ UNCHANGED <<state, current>>
    BY <1>11 DEF JoinReturn
  <2>2. t \in Slots /\ current \in UserSlots /\ parked[current].op = "join"
    BY <1>s, <2>1, ParkedTypes, SlotFacts DEF Returning
  <2>3. CASE JoinCollects(t)
    BY <1>t, <2>1, <2>2, <2>3, CollectKeepsJoinInv DEF Returning
  <2>4. CASE UNCHANGED <<reapable, join_waiters>>
    BY <1>10, <2>1, <2>4
  <2> QED BY <1>11, <2>3, <2>4 DEF JoinReturn
<1>12. CASE WaitReturn
  <2> DEFINE t == parked[current].thread
  <2>1. Returning("wait") /\ UNCHANGED <<state, current>>
    BY <1>12 DEF WaitReturn
  <2>2. t \in Slots /\ current \in UserSlots /\ parked[current].op = "wait"
    BY <1>s, <2>1, ParkedTypes, SlotFacts DEF Returning
  <2>3. CASE JoinCollects(t)
    BY <1>t, <2>1, <2>2, <2>3, CollectKeepsJoinInv DEF Returning
  <2>4. CASE UNCHANGED <<reapable, join_waiters>>
    BY <1>10, <2>1, <2>4
  <2> QED BY <1>12, <2>3, <2>4 DEF WaitReturn
<1>13. ASSUME NEW p \in Pids, IsChild(p)
       PROVE  processes[p].main_thread \in Slots
  BY <1>13, <1>s DEF IsChild, ThreadsTypeOK, ProcessRecords, EMPTY
<1>14. ASSUME NEW p \in Pids, IsChild(p), ReapExited(p) PROVE JoinInv'
  BY <1>t, <1>13, <1>14, FreeKeepsJoinInv DEF ReapExited
<1>15. ASSUME NEW p \in Pids, WaitProcess(p) PROVE JoinInv'
  <2> DEFINE t == processes[p].main_thread
             c == Continuation("wait", t, p)
  <2>1. IsChild(p) /\ InUser /\ t \in Slots
    BY <1>13, <1>15 DEF WaitProcess
  <2>2. CASE ReapExited(p)
    BY <2>1, <2>2, <1>14
  <2>3. CASE t # current /\ JoinBlocks(t, c)
    <3>1. c \in Continuations /\ c.op = "wait" /\ c.thread = t
      BY <2>1, ContinuationTypes DEF Continuation
    <3> QED BY <1>t, <2>1, <2>3, <3>1, RegisterKeepsJoinInv
  <2> QED BY <1>15, <2>2, <2>3 DEF WaitProcess
<1>16. ASSUME NEW p \in Pids, TryWaitProcess(p) PROVE JoinInv'
  BY <1>14, <1>16 DEF TryWaitProcess
<1>17. CASE ReapAnyChild
  <2>1. Min(ExitedChildren) \in ExitedChildren
    BY <1>17, MinIsLeast, SlotFacts DEF ReapAnyChild, ExitedChildren
  <2> QED BY <2>1, <1>14, <1>17 DEF ReapAnyChild, ExitedChildren
<1>18. ASSUME NEW p \in Pids, TerminateProcess(p) PROVE JoinInv'
  <2> DEFINE t == processes[p].main_thread
             st == [state EXCEPT ![t] = "Exited"]
  <2>1. /\ IsChild(p) /\ state' = AfterWake(join_waiters[t], st)
        /\ UNCHANGED <<join_waiters, reapable, parked, current>>
    BY <1>18 DEF TerminateProcess
  <2>2. \A s \in UserSlots : reapable[s] => st[s] = "Exited"
    BY <1>r, <1>s, <1>13, <2>1
  <2> HIDE DEF st, t
  <2>3. \A s \in UserSlots : reapable[s] => state'[s] = "Exited" /\ s # current'
    BY <1>r, <2>1, <2>2, WakeSparesExited
  <2> QED BY <1>t, <1>p, <2>1, <2>3, JoinFrame
<1>19. ASSUME NEW c, c.op \notin {"join", "wait"}, InUser, Block(c),
              UNCHANGED <<join_waiters, reapable>>
       PROVE  JoinInv'
  <2> DEFINE st == [state EXCEPT ![current] = "Blocked"]
  <2>1. Schedule(runQueue, st) /\ parked' = [parked EXCEPT ![current] = c]
    BY <1>19 DEF Block
  <2>2. st \in [Slots -> ThreadState] /\ \A s \in UserSlots : reapable[s] => st[s] = "Exited"
    BY <1>19, <1>u, <1>r, <1>s DEF ThreadState
  <2>3. NoSelfJoin' /\ \A s \in Slots : Joiners(s)' \subseteq Joiners(s)
    BY <1>19, <1>u, <1>n, <1>s, <2>1 DEF NoSelfJoin, Joiners
  <2> HIDE DEF st
  <2> QED BY <1>19, <1>t, <1>s, <2>1, <2>2, <2>3, ScheduleKeepsJoinInv
<1>20. ASSUME NEW ms \in 1 .. MaxDelay, Sleep(ms) PROVE JoinInv'
  BY <1>19, <1>20 DEF Sleep, Continuation
<1>21. ASSUME NEW a \in Addresses, NEW d \in Timeouts, FutexWait(a, d) PROVE JoinInv'
  BY <1>19, <1>21 DEF FutexWait, Continuation
<1>22. CASE SleepReturn
  BY <1>10, <1>22 DEF SleepReturn
<1>23. ASSUME NEW f, WakeAll(f), UNCHANGED <<join_waiters, reapable>>,
              NoSelfJoin', \A s \in Slots : Joiners(s)' \subseteq Joiners(s)
       PROVE  JoinInv'
  <2>1. \A s \in UserSlots : reapable[s] => state'[s] = "Exited" /\ s # current'
    BY <1>23, <1>r, WakeSparesExited DEF WakeAll
  <2> QED BY <1>23, <1>t, <2>1, JoinFrame
<1>24. ASSUME NEW a, NEW n, FutexWake(a, n) PROVE JoinInv'
  BY <1>23, <1>24, <1>p DEF FutexWake
<1>25. ASSUME parked' = AfterInterrupt, Interruptible
       PROVE  NoSelfJoin' /\ \A s \in Slots : Joiners(s)' \subseteq Joiners(s)
  <2>1. \A t \in Slots : parked'[t] = parked[t] \/ parked'[t].op = "woken"
    BY <1>25, <1>s, SlotFacts DEF AfterInterrupt, Continuations
  <2> QED BY <2>1, <1>n DEF NoSelfJoin, Joiners
<1>26. CASE Tick
  BY <1>23, <1>25, <1>26 DEF Tick
<1>27. CASE OtherInterrupt
  <2>1. UNCHANGED <<state, current, join_waiters, reapable>> /\ parked' = AfterInterrupt
        /\ Interruptible
    BY <1>27 DEF OtherInterrupt
  <2> QED BY <1>25, <1>t, <1>r, <2>1, JoinFrame
<1>28. CASE UNCHANGED vars
  <2>1. UNCHANGED <<state, current, join_waiters, parked, reapable>>
    BY <1>28 DEF vars, threadVars
  <2> QED BY <1>t, <1>p, <1>r, <2>1, JoinFrame
<1> QED
  BY <1>1, <1>2, <1>3, <1>5, <1>6, <1>7, <1>8, <1>9, <1>11, <1>12, <1>15, <1>16,
     <1>17, <1>18, <1>20, <1>21, <1>22, <1>24, <1>26, <1>27, <1>28
     DEF Next, ThreadsNext

\* A slot whose exit status some thread is still waiting to collect is never
\* handed to a new thread, for any number of threads and any mix of calls.
THEOREM JoinTargetsSafe == Spec => [](JoinInv /\ JoinTargetsKept)
<1>1. Init => JoinInv
  <2> SUFFICES ASSUME Init PROVE JoinInv
    OBVIOUS
  <2>1. \A t \in Slots : parked[t].op \notin {"join", "wait"}
    BY DEF Init, ThreadsInit, ReturnToUser, Continuation
  <2>2. NoSelfJoin /\ \A s \in Slots : Joiners(s) = {}
    BY <2>1 DEF NoSelfJoin, Joiners
  <2>3. \A s \in Slots : join_waiters[s] = <<>> /\ Len(join_waiters[s]) = 0
    BY EmptySeq DEF Init, ThreadsInit
  <2>4. JoinCountBounds
    <3>1. \A s \in Slots : Cardinality(Joiners(s)) = 0
      BY <2>2, FS_EmptySet, Zenon
    <3> QED BY <2>3, <3>1 DEF JoinCountBounds
  <2>5. ReapableIsIdle
    BY <2>3, SlotFacts DEF ReapableIsIdle, Init, ThreadsInit
  <2> QED BY <2>2, <2>4, <2>5 DEF JoinInv
<1>2. TypeOK /\ JoinInv => JoinTargetsKept
  <2> SUFFICES ASSUME TypeOK, JoinInv, NEW s \in UserSlots, reapable[s]
               PROVE  Joiners(s) = {}
    BY DEF JoinTargetsKept
  <2>1. s \in Slots /\ Len(join_waiters[s]) = 0
    BY SlotFacts, EmptySeq DEF JoinInv, ReapableIsIdle
  <2>2. Cardinality(Joiners(s)) = 0
    BY <2>1, JoinersFinite DEF JoinInv, JoinCountBounds
  <2> QED BY <2>2, JoinersFinite, FS_EmptySet
<1> QED BY <1>1, <1>2, TypeCorrect, JoinStep, PTL DEF Spec

-----------------------------------------------------------------------------
(***************************************************************************)
(* No lost wakeup, for every set of system calls.  The property needs one  *)
(* more fact to be inductive: the thread the CPU runs is not Blocked, so   *)
(* that a call that returns, an idle thread that yields and a thread whose *)
(* continuation changes is not one that waits.                             *)
(***************************************************************************)
WakeupInv ==
  /\ current \in Slots => state[current] # "Blocked"
  /\ NoLostWakeup

\* The scheduler blocks and ends nobody: it makes one thread run.
LEMMA ScheduleEffect ==
  ASSUME ThreadsTypeOK, NEW q \in Seq(Slots), Len(q) <= MaxThreads,
         NEW st \in [Slots -> ThreadState], Schedule(q, st)
  PROVE  /\ current' \in Slots /\ state'[current'] = "Running"
         /\ \A t \in Slots : t # current' => state'[t] = st[t]
<1>1. current' \in Slots /\ state' = [st EXCEPT ![current'] = "Running"]
  BY ScheduleType
<1> QED BY <1>1

\* A wake pass leaves nobody Blocked that it names, and changes nobody else.
LEMMA WakeEffect ==
  ASSUME NEW f, NEW st, NEW t \in Slots
  PROVE  /\ AfterWake(f, st)[t] = "Blocked" <=> st[t] = "Blocked" /\ t \notin Range(f)
         /\ AfterWake(f, st)[t] = "Exited" <=> st[t] = "Exited"
BY DEF AfterWake, Woken

\* A registration adds the caller to the waiters and forgets nobody.
LEMMA AppendRange ==
  ASSUME NEW S, NEW w \in Seq(S), NEW x \in S
  PROVE  Range(Append(w, x)) = Range(w) \cup {x}
<1>1. /\ Len(w) \in Nat /\ DOMAIN w = 1 .. Len(w)
      /\ DOMAIN Append(w, x) = 1 .. Len(w) + 1
      /\ \A i \in 1 .. Len(w) : Append(w, x)[i] = w[i]
      /\ Append(w, x)[Len(w) + 1] = x
  BY LenProperties, AppendProperties
<1> QED BY <1>1 DEF Range

\* What has to survive a step for a waiting thread to stay registered.
LEMMA StillRegistered ==
  ASSUME ThreadsTypeOK, NEW t \in Slots, Registered(t), parked'[t] = parked[t],
         \A s \in Slots : state'[s] = "Exited" /\ state[s] # "Exited"
                            => t \notin Range(join_waiters[s]),
         \A s \in Slots : state[s] # "Exited" /\ t \in Range(join_waiters[s])
                            => t \in Range(join_waiters'[s]),
         \A i \in DOMAIN sleepers : sleepers[i].thread = t
                            => i \in DOMAIN sleepers' /\ sleepers'[i].thread = t,
         \A i \in DOMAIN futexWaiters : futexWaiters[i].thread = t
                            => i \in DOMAIN futexWaiters' /\ futexWaiters'[i].thread = t
  PROVE  Registered(t)'
<1>1. CASE parked[t].op \in {"join", "wait"}
  <2>1. parked[t].thread \in Slots
    BY <1>1, ParkedTypes
  <2> QED BY <1>1, <2>1 DEF Registered
<1>2. CASE parked[t].op = "sleep"
  BY <1>2 DEF Registered
<1>3. CASE parked[t].op = "futex"
  BY <1>3 DEF Registered
<1> QED BY <1>1, <1>2, <1>3 DEF Registered

\* sleep() and futex_wait() write to an entry that is free.
LEMMA FreeEntryFacts ==
  ASSUME TypeOK
  PROVE  /\ FreeEntries(sleepers) # {} =>
              LET i == Min(FreeEntries(sleepers))
              IN i \in DOMAIN sleepers /\ sleepers[i].thread = NO_THREAD
         /\ FreeEntries(futexWaiters) # {} =>
              LET i == Min(FreeEntries(futexWaiters))
              IN i \in DOMAIN futexWaiters /\ futexWaiters[i].thread = NO_THREAD
<1>1. FreeEntries(sleepers) \subseteq Nat /\ FreeEntries(futexWaiters) \subseteq Nat
  BY KernelAssumption DEF FreeEntries, TypeOK
<1>2. ASSUME NEW S, S \subseteq Nat, S # {} PROVE Min(S) \in S
  BY <1>2, MinIsLeast
<1>3. /\ FreeEntries(sleepers) # {} => Min(FreeEntries(sleepers)) \in FreeEntries(sleepers)
      /\ FreeEntries(futexWaiters) # {} =>
           Min(FreeEntries(futexWaiters)) \in FreeEntries(futexWaiters)
  BY <1>1, <1>2
<1>4. /\ \A i \in FreeEntries(sleepers) : i \in DOMAIN sleepers /\ sleepers[i].thread = NO_THREAD
      /\ \A i \in FreeEntries(futexWaiters) :
           i \in DOMAIN futexWaiters /\ futexWaiters[i].thread = NO_THREAD
  BY DEF FreeEntries
<1> QED BY <1>3, <1>4

\* A step that clears no entry of a thread that stays Blocked loses no wakeup.
LEMMA WakeupFrame ==
  ASSUME ThreadsTypeOK, WakeupInv,
         current' \in Slots => state'[current'] # "Blocked",
         \A t \in Slots : state'[t] = "Blocked" =>
           /\ state[t] = "Blocked" /\ parked'[t] = parked[t]
           /\ \A s \in Slots : state'[s] = "Exited" /\ state[s] # "Exited"
                                 => t \notin Range(join_waiters[s])
           /\ \A s \in Slots : state[s] # "Exited" /\ t \in Range(join_waiters[s])
                                 => t \in Range(join_waiters'[s])
           /\ \A i \in DOMAIN sleepers : sleepers[i].thread = t
                                 => i \in DOMAIN sleepers' /\ sleepers'[i].thread = t
           /\ \A i \in DOMAIN futexWaiters : futexWaiters[i].thread = t
                                 => i \in DOMAIN futexWaiters' /\ futexWaiters'[i].thread = t
  PROVE  WakeupInv'
<1>1. ASSUME NEW t \in Slots, state'[t] = "Blocked" PROVE Registered(t)'
  <2>1. Registered(t)
    BY <1>1 DEF WakeupInv, NoLostWakeup
  <2> QED BY <1>1, <2>1, StillRegistered
<1> QED BY <1>1 DEF WakeupInv, NoLostWakeup

\* block_current() of a caller that has registered itself.
LEMMA BlockKeepsWakeup ==
  ASSUME TypeOK, WakeupInv, InUser, NEW me, me = current, NEW c \in Continuations, Block(c),
         \A s \in Slots : Range(join_waiters[s]) \subseteq Range(join_waiters'[s]),
         \A i \in DOMAIN sleepers : sleepers[i].thread # NO_THREAD
           => i \in DOMAIN sleepers' /\ sleepers'[i].thread = sleepers[i].thread,
         \A i \in DOMAIN futexWaiters : futexWaiters[i].thread # NO_THREAD
           => i \in DOMAIN futexWaiters' /\ futexWaiters'[i].thread = futexWaiters[i].thread,
         Registered(me)'
  PROVE  WakeupInv'
<1> DEFINE st == [state EXCEPT ![current] = "Blocked"]
<1>1. /\ ThreadsTypeOK /\ current \in Slots /\ state \in [Slots -> ThreadState]
      /\ parked \in [Slots -> Continuations]
  BY SlotFacts DEF TypeOK, ThreadsTypeOK, InUser
<1>2. /\ current' \in Slots
      /\ state' = [st EXCEPT ![current'] = "Running"]
      /\ parked' = [parked EXCEPT ![current] = c]
  BY <1>1, BlockType DEF Block
<1>3. state'[current'] = "Running"
  BY <1>1, <1>2
<1>4. ASSUME NEW t \in Slots, t # me, state'[t] = "Blocked"
      PROVE  Registered(t)'
  <2>1. state[t] = "Blocked" /\ parked'[t] = parked[t]
    BY <1>1, <1>2, <1>4
  <2>2. \A s \in Slots : state'[s] = "Exited" => state[s] = "Exited"
    BY <1>1, <1>2
  <2>3. Registered(t) /\ t # NO_THREAD
    BY <2>1, SlotFacts DEF WakeupInv, NoLostWakeup
  <2> QED BY <1>1, <2>1, <2>2, <2>3, StillRegistered
<1> QED BY <1>3, <1>4 DEF WakeupInv, NoLostWakeup

\* Registering with a thread that has not exited, and blocking.
LEMMA JoinKeepsWakeup ==
  ASSUME TypeOK, WakeupInv, InUser, NEW t \in Slots, t # current, NEW c \in Continuations,
         c.op \in {"join", "wait"}, c.thread = t, JoinBlocks(t, c), UNCHANGED waitVars
  PROVE  WakeupInv'
<1>1. /\ ThreadsTypeOK /\ current \in Slots /\ state \in [Slots -> ThreadState]
      /\ parked \in [Slots -> Continuations] /\ join_waiters \in [Slots -> Seq(Slots)]
  BY SlotFacts DEF TypeOK, ThreadsTypeOK, InUser
<1>2. /\ state[t] # "Exited" /\ Block(c)
      /\ join_waiters' = [join_waiters EXCEPT ![t] = Append(@, current)]
      /\ UNCHANGED <<sleepers, futexWaiters>>
  BY DEF JoinBlocks, waitVars
<1>3. /\ current' \in Slots
      /\ state' = [[state EXCEPT ![current] = "Blocked"] EXCEPT ![current'] = "Running"]
      /\ parked' = [parked EXCEPT ![current] = c]
  BY <1>1, <1>2, BlockType DEF Block
<1>4. /\ Range(join_waiters[t]) \subseteq Range(Append(join_waiters[t], current))
      /\ current \in Range(Append(join_waiters[t], current))
  BY <1>1, AppendRange
<1>5. \A s \in Slots : Range(join_waiters[s]) \subseteq Range(join_waiters'[s])
  BY <1>1, <1>2, <1>4
<1>6. PICK m : m = current
  OBVIOUS
<1>7. Registered(m)'
  <2>1. parked'[m] = c
    BY <1>1, <1>3, <1>6
  <2>2. state'[t] # "Exited" /\ m \in Range(join_waiters'[t])
    BY <1>1, <1>2, <1>3, <1>4, <1>6
  <2> QED BY <2>1, <2>2 DEF Registered
<1> QED BY <1>2, <1>5, <1>6, <1>7, BlockKeepsWakeup

\* Giving an exited slot to a new thread: nobody Blocked waited for it.
LEMMA SpawnKeepsWakeup ==
  ASSUME TypeOK, WakeupInv, NEW t \in Slots, state[t] = "Exited", NEW p, SpawnInto(t, p),
         UNCHANGED waitVars
  PROVE  WakeupInv'
<1>1. /\ ThreadsTypeOK /\ state \in [Slots -> ThreadState]
      /\ parked \in [Slots -> Continuations] /\ join_waiters \in [Slots -> Seq(Slots)]
  BY DEF TypeOK, ThreadsTypeOK
<1>2. /\ state' = [state EXCEPT ![t] = "Ready"] /\ parked' = [parked EXCEPT ![t] = ReturnToUser]
      /\ join_waiters' = [join_waiters EXCEPT ![t] = <<>>]
      /\ UNCHANGED <<current, sleepers, futexWaiters>>
  BY DEF SpawnInto, waitVars
<1>3. current' \in Slots => state'[current'] # "Blocked"
  BY <1>1, <1>2 DEF WakeupInv
<1>4. \A x \in Slots : state'[x] = "Blocked" => state[x] = "Blocked" /\ parked'[x] = parked[x]
  BY <1>1, <1>2
<1>5. \A s \in Slots : state'[s] = "Exited" => state[s] = "Exited"
  BY <1>1, <1>2
<1>6. \A s \in Slots : state[s] # "Exited" => join_waiters'[s] = join_waiters[s]
  BY <1>1, <1>2
<1> QED BY <1>1, <1>2, <1>3, <1>4, <1>5, <1>6, WakeupFrame

\* The end of a call: the caller runs, and a joiner collects from a thread that
\* has exited, with which nobody Blocked is registered.
LEMMA ReturnKeepsWakeup ==
  ASSUME TypeOK, WakeupInv, NEW op, Returning(op), UNCHANGED <<state, current, waitVars>>,
         \A s \in Slots : state[s] # "Exited" => join_waiters'[s] = join_waiters[s]
  PROVE  WakeupInv'
<1>1. /\ ThreadsTypeOK /\ parked \in [Slots -> Continuations] /\ current \in Slots
      /\ state[current] # "Blocked"
  BY SlotFacts DEF TypeOK, ThreadsTypeOK, Returning, WakeupInv
<1>2. parked' = [parked EXCEPT ![current] = ReturnToUser] /\ UNCHANGED <<sleepers, futexWaiters>>
  BY DEF Returning, waitVars
<1>3. \A t \in Slots : state[t] = "Blocked" => parked'[t] = parked[t]
  BY <1>1, <1>2
<1> QED BY <1>1, <1>2, <1>3, WakeupFrame

\* A dispatch without a registration: who is Blocked afterwards was before.
LEMMA DispatchKeepsWakeup ==
  ASSUME TypeOK, WakeupInv, NEW q \in Seq(Slots), Len(q) <= MaxThreads,
         NEW st \in [Slots -> ThreadState], Schedule(q, st),
         \A t \in Slots : st[t] = "Blocked" => state[t] = "Blocked" /\ parked'[t] = parked[t],
         \A t, s \in Slots : st[t] = "Blocked" /\ st[s] = "Exited" /\ state[s] # "Exited"
                               => t \notin Range(join_waiters[s]),
         UNCHANGED <<join_waiters, waitVars>>
  PROVE  WakeupInv'
<1>1. ThreadsTypeOK
  BY DEF TypeOK
<1>2. /\ current' \in Slots /\ state'[current'] = "Running"
      /\ \A t \in Slots : t # current' => state'[t] = st[t]
  BY <1>1, ScheduleEffect
<1>3. \A t \in Slots : /\ state'[t] = "Blocked" => st[t] = "Blocked"
                       /\ state'[t] = "Exited" => st[t] = "Exited"
  BY <1>2
<1>4. UNCHANGED <<join_waiters, sleepers, futexWaiters>>
  BY DEF waitVars
<1> QED BY <1>1, <1>2, <1>3, <1>4, WakeupFrame

\* Every step of Kernel keeps every Blocked thread registered with something
\* that will wake it.
LEMMA WakeupStep == TypeOK /\ WakeupInv /\ [Next]_vars => WakeupInv'
<1> SUFFICES ASSUME TypeOK, WakeupInv, [Next]_vars PROVE WakeupInv'
  OBVIOUS
<1> USE DEF tableVars, queueVars, processVars
<1>s. /\ ThreadsTypeOK /\ state \in [Slots -> ThreadState]
      /\ runQueue \in Seq(Slots) /\ Len(runQueue) <= MaxThreads
      /\ parked \in [Slots -> Continuations]
      /\ join_waiters \in [Slots -> Seq(Slots)]
  BY DEF TypeOK, ThreadsTypeOK
<1>u. InUser => /\ current \in UserSlots /\ current \in Slots /\ <<current>> \in Seq(Slots)
                /\ state[current] # "Blocked"
  BY SlotFacts DEF InUser, WakeupInv
<1>i. IDLE_THREAD \in Slots /\ <<IDLE_THREAD>> \in Seq(Slots)
  BY SlotFacts
\* A step that leaves the threads, their waiters and the tables alone.
<1>f. ASSUME UNCHANGED <<state, current, join_waiters, sleepers, futexWaiters>>,
             \A t \in Slots : t # current => parked'[t] = parked[t]
      PROVE  WakeupInv'
  <2>1. \A t \in Slots : state[t] = "Blocked" => t # current
    BY DEF WakeupInv
  <2>2. current' \in Slots => state'[current'] # "Blocked"
    BY <1>f DEF WakeupInv
  <2> QED BY <1>s, <1>f, <2>1, <2>2, WakeupFrame
<1>1. CASE Start /\ UNCHANGED waitVars
  <2> DEFINE q == Enqueue(runQueue, <<IDLE_THREAD>>)
             st == [state EXCEPT ![IDLE_THREAD] = "Ready"]
  <2>1. q \in Seq(Slots) /\ Len(q) <= MaxThreads
    BY <1>s, <1>i, EnqueueType
  <2>2. /\ current' = NextReady(q, st) /\ state' = [st EXCEPT ![NextReady(q, st)] = "Running"]
        /\ UNCHANGED <<parked, join_waiters, sleepers, futexWaiters>>
    BY <1>1 DEF Start, waitVars
  <2>3. NextReady(q, st) \in Slots
    BY <2>1, NextReadyType
  <2>4. /\ state'[current'] = "Running"
        /\ \A t \in Slots : /\ state'[t] = "Blocked" => state[t] = "Blocked"
                            /\ state'[t] = "Exited" => state[t] = "Exited"
    <3>1. state'[current'] = "Running" /\ \A t \in Slots : t # current' => state'[t] = st[t]
      <4> HIDE DEF q
      <4> QED BY <1>s, <2>2, <2>3
    <3>2. \A t \in Slots : st[t] = "Ready" \/ st[t] = state[t]
      BY <1>s
    <3> QED BY <3>1, <3>2
  <2> HIDE DEF q, st
  <2> QED BY <1>s, <2>2, <2>4, WakeupFrame
<1>2. CASE Yield /\ UNCHANGED waitVars
  <2> DEFINE q == Enqueue(runQueue, <<current>>)
             st == [state EXCEPT ![current] = "Ready"]
  <2>1. Schedule(q, st) /\ UNCHANGED <<parked, join_waiters, waitVars>> /\ InUser
    BY <1>2 DEF Yield
  <2>2. q \in Seq(Slots) /\ Len(q) <= MaxThreads
    BY <1>s, <1>u, <2>1, EnqueueType
  <2>3. /\ st \in [Slots -> ThreadState]
        /\ \A t \in Slots : /\ st[t] = "Blocked" => state[t] = "Blocked"
                            /\ st[t] = "Exited" => state[t] = "Exited"
    BY <1>s, <1>u, <2>1 DEF ThreadState
  <2> HIDE DEF q, st
  <2> QED BY <2>1, <2>2, <2>3, DispatchKeepsWakeup
<1>3. CASE IdleYield /\ UNCHANGED waitVars
  <2>1. /\ Schedule(runQueue, state) /\ UNCHANGED <<join_waiters, waitVars>>
        /\ parked' = [parked EXCEPT ![IDLE_THREAD].op = "halt"] /\ current = IDLE_THREAD
    BY <1>3 DEF IdleYield
  <2>2. \A t \in Slots : state[t] = "Blocked" => parked'[t] = parked[t]
    BY <1>s, <1>i, <2>1 DEF WakeupInv
  <2> QED BY <1>s, <2>1, <2>2, DispatchKeepsWakeup
<1>4. ASSUME FreeSlots # {} PROVE Min(FreeSlots) \in Slots /\ state[Min(FreeSlots)] = "Exited"
  BY <1>4, MinIsLeast, SlotFacts DEF FreeSlots
<1>5. CASE (ThreadCreate \/ ProcessSpawn) /\ UNCHANGED waitVars
  BY <1>4, <1>5, SpawnKeepsWakeup DEF ThreadCreate, ProcessSpawn
<1>6. CASE ProcessSpawnFails /\ UNCHANGED waitVars
  BY <1>f, <1>6 DEF ProcessSpawnFails, waitVars
<1>7. CASE Exit /\ UNCHANGED waitVars
  <2> DEFINE w == join_waiters[current]
             ended == [state EXCEPT ![current] = "Exited"]
             st == AfterWake(w, ended)
  <2>1. InUser /\ UNCHANGED <<parked, join_waiters, waitVars>>
    BY <1>7 DEF Exit
  <2>2. PICK order \in WakeOrders(w, ended) : Schedule(Enqueue(runQueue, order), st)
    BY <1>7 DEF Exit
  <2>3. ended \in [Slots -> ThreadState]
    BY <1>s, <1>u, <2>1 DEF ThreadState
  <2>4. Enqueue(runQueue, order) \in Seq(Slots) /\ Len(Enqueue(runQueue, order)) <= MaxThreads
    <3>1. order \in Seq(Slots)
      BY <1>s, <1>u, <2>1, JoinWaitersRange, WakeOrderType
    <3> QED BY <1>s, <3>1, EnqueueType
  <2>5. st \in [Slots -> ThreadState]
    BY <2>3, AfterWakeType
  <2>6. \A t \in Slots : /\ st[t] = "Blocked" => ended[t] = "Blocked" /\ t \notin Range(w)
                         /\ st[t] = "Exited" => ended[t] = "Exited"
    BY WakeEffect
  <2>7. \A t \in Slots : /\ ended[t] = "Blocked" => state[t] = "Blocked"
                         /\ ended[t] = "Exited" /\ state[t] # "Exited" => t = current
    BY <1>s, <1>u, <2>1
  <2>8. \A t \in Slots : st[t] = "Blocked" => state[t] = "Blocked" /\ parked'[t] = parked[t]
    BY <2>1, <2>6, <2>7
  <2>9. \A t, s \in Slots : st[t] = "Blocked" /\ st[s] = "Exited" /\ state[s] # "Exited"
                              => t \notin Range(join_waiters[s])
    BY <2>6, <2>7
  <2> HIDE DEF st, ended, w
  <2> QED BY <2>1, <2>2, <2>4, <2>5, <2>8, <2>9, DispatchKeepsWakeup
<1>8. ASSUME NEW t \in Slots, Join(t), UNCHANGED waitVars PROVE WakeupInv'
  <2>1. InUser /\ t # current
    BY <1>8 DEF Join
  <2>2. CASE UNCHANGED <<process, join_waiters, parked, queueVars, processVars>>
    BY <1>f, <1>8, <2>2 DEF waitVars
  <2>3. CASE JoinBlocks(t, Continuation("join", t, NoProcess))
    <3>1. /\ Continuation("join", t, NoProcess) \in Continuations
          /\ Continuation("join", t, NoProcess).op = "join"
          /\ Continuation("join", t, NoProcess).thread = t
      BY ContinuationTypes DEF Continuation
    <3> QED BY <1>8, <2>1, <2>3, <3>1, JoinKeepsWakeup
  <2> QED BY <1>8, <2>2, <2>3 DEF Join
<1>9. ASSUME NEW t \in Slots, JoinCollects(t), NEW s \in Slots, state[s] # "Exited"
      PROVE  join_waiters'[s] = join_waiters[s]
  BY <1>9, <1>s DEF JoinCollects
<1>10. CASE (JoinReturn \/ WaitReturn) /\ UNCHANGED waitVars
  <2> DEFINE t == parked[current].thread
  <2>1. PICK op \in {"join", "wait"} : Returning(op) /\ UNCHANGED <<state, current, waitVars>>
    BY <1>10 DEF JoinReturn, WaitReturn
  <2>2. t \in Slots
    BY <1>s, <2>1, ParkedTypes, SlotFacts DEF Returning
  <2>3. JoinCollects(t) \/ UNCHANGED join_waiters
    BY <1>10 DEF JoinReturn, WaitReturn
  <2> HIDE DEF t
  <2>4. \A s \in Slots : state[s] # "Exited" => join_waiters'[s] = join_waiters[s]
    BY <1>9, <2>2, <2>3
  <2> QED BY <2>1, <2>4, ReturnKeepsWakeup
<1>11. ASSUME NEW p \in Pids, ReapExited(p), UNCHANGED waitVars PROVE WakeupInv'
  BY <1>f, <1>11 DEF ReapExited, waitVars
<1>12. ASSUME NEW p \in Pids, WaitProcess(p), UNCHANGED waitVars PROVE WakeupInv'
  <2> DEFINE t == processes[p].main_thread
             c == Continuation("wait", t, p)
  <2>1. InUser /\ IsChild(p)
    BY <1>12 DEF WaitProcess
  <2>2. t \in Slots
    BY <1>s, <2>1 DEF IsChild, ThreadsTypeOK, ProcessRecords, EMPTY
  <2>3. CASE ReapExited(p)
    BY <1>11, <1>12, <2>3
  <2>4. CASE t # current /\ JoinBlocks(t, c)
    <3>1. c \in Continuations /\ c.op = "wait" /\ c.thread = t
      BY <2>2, ContinuationTypes DEF Continuation
    <3> QED BY <1>12, <2>1, <2>2, <2>4, <3>1, JoinKeepsWakeup
  <2> QED BY <1>12, <2>3, <2>4 DEF WaitProcess
<1>13. ASSUME NEW p \in Pids, TryWaitProcess(p), UNCHANGED waitVars PROVE WakeupInv'
  BY <1>11, <1>13 DEF TryWaitProcess
<1>14. CASE ReapAnyChild /\ UNCHANGED waitVars
  <2>1. Min(ExitedChildren) \in ExitedChildren
    BY <1>14, MinIsLeast, SlotFacts DEF ReapAnyChild, ExitedChildren
  <2> QED BY <2>1, <1>11, <1>14 DEF ReapAnyChild, ExitedChildren
<1>15. ASSUME NEW p \in Pids, TerminateProcess(p), UNCHANGED waitVars PROVE WakeupInv'
  <2> DEFINE t == processes[p].main_thread
             ended == [state EXCEPT ![t] = "Exited"]
  <2>1. /\ IsChild(p) /\ InUser /\ state' = AfterWake(join_waiters[t], ended)
        /\ UNCHANGED <<join_waiters, parked, current, sleepers, futexWaiters>>
    BY <1>15 DEF TerminateProcess, waitVars
  <2>2. t \in Slots
    BY <1>s, <2>1 DEF IsChild, ThreadsTypeOK, ProcessRecords, EMPTY
  <2>3. \A x \in Slots : /\ ended[x] = "Blocked" => state[x] = "Blocked"
                         /\ ended[x] = "Exited" /\ state[x] # "Exited" => x = t
    BY <1>s, <2>2
  <2> HIDE DEF t, ended
  <2>4. \A x \in Slots :
          /\ state'[x] = "Blocked" => state[x] = "Blocked" /\ x \notin Range(join_waiters[t])
          /\ state'[x] = "Exited" /\ state[x] # "Exited" => x = t
    BY <2>1, <2>3, WakeEffect
  <2>5. state'[current'] # "Blocked"
    BY <1>u, <2>1, <2>4
  <2> QED BY <1>s, <2>1, <2>4, <2>5, WakeupFrame
<1>16. CASE SleepReturn
  BY <1>16, ReturnKeepsWakeup DEF SleepReturn
<1>17. ASSUME NEW ms \in 1 .. MaxDelay, Sleep(ms) PROVE WakeupInv'
  <2> DEFINE c == Continuation("sleep", NO_THREAD, NoProcess)
             i == Min(FreeEntries(sleepers))
  <2>1. /\ Block(c) /\ InUser /\ UNCHANGED <<join_waiters, futexWaiters>>
        /\ sleepers' = [sleepers EXCEPT ![i] =
             [thread |-> current, left |-> Ticks(ms), owed |-> ms]]
        /\ FreeEntries(sleepers) # {}
    BY <1>17 DEF Sleep
  <2>2. i \in DOMAIN sleepers /\ sleepers[i].thread = NO_THREAD
    BY <2>1, FreeEntryFacts
  <2> HIDE DEF i
  <2>3. PICK m : m = current
    OBVIOUS
  <2>4. Registered(m)'
    <3>1. parked'[m] = c /\ c.op = "sleep"
      BY <1>s, <1>u, <2>1, <2>3 DEF Block, Continuation
    <3>2. i \in DOMAIN sleepers' /\ sleepers'[i].thread = m
      BY <2>1, <2>2, <2>3
    <3> QED BY <3>1, <3>2 DEF Registered
  <2>5. \A k \in DOMAIN sleepers : sleepers[k].thread # NO_THREAD
           => k \in DOMAIN sleepers' /\ sleepers'[k].thread = sleepers[k].thread
    BY <2>1, <2>2
  <2> QED BY <2>1, <2>3, <2>4, <2>5, ContinuationTypes, BlockKeepsWakeup
<1>18. ASSUME NEW a \in Addresses, NEW d \in Timeouts, FutexWait(a, d) PROVE WakeupInv'
  <2> DEFINE c == Continuation("futex", NO_THREAD, NoProcess)
             i == Min(FreeEntries(futexWaiters))
  <2>1. /\ Block(c) /\ InUser /\ UNCHANGED <<join_waiters, sleepers>>
        /\ futexWaiters' =
             [futexWaiters EXCEPT ![i] = [thread |-> current, address |-> a, left |-> d]]
        /\ FreeEntries(futexWaiters) # {}
    BY <1>18 DEF FutexWait
  <2>2. i \in DOMAIN futexWaiters /\ futexWaiters[i].thread = NO_THREAD
    BY <2>1, FreeEntryFacts
  <2> HIDE DEF i
  <2>3. PICK m : m = current
    OBVIOUS
  <2>4. Registered(m)'
    <3>1. parked'[m] = c /\ c.op = "futex"
      BY <1>s, <1>u, <2>1, <2>3 DEF Block, Continuation
    <3>2. i \in DOMAIN futexWaiters' /\ futexWaiters'[i].thread = m
      BY <2>1, <2>2, <2>3
    <3> QED BY <3>1, <3>2 DEF Registered
  <2>5. \A k \in DOMAIN futexWaiters : futexWaiters[k].thread # NO_THREAD
           => k \in DOMAIN futexWaiters' /\ futexWaiters'[k].thread = futexWaiters[k].thread
    BY <2>1, <2>2
  <2> QED BY <2>1, <2>3, <2>4, <2>5, ContinuationTypes, BlockKeepsWakeup
\* A wake pass that clears the entries of the threads it names.
<1>19. ASSUME NEW f, WakeAll(f), UNCHANGED join_waiters,
              \A t \in Slots : t # current => parked'[t] = parked[t],
              \A i \in DOMAIN sleepers : sleepers[i].thread \in Slots \ Range(f)
                => i \in DOMAIN sleepers' /\ sleepers'[i].thread = sleepers[i].thread,
              \A i \in DOMAIN futexWaiters : futexWaiters[i].thread \in Slots \ Range(f)
                => i \in DOMAIN futexWaiters' /\ futexWaiters'[i].thread = futexWaiters[i].thread
       PROVE  WakeupInv'
  <2>1. state' = AfterWake(f, state) /\ current' = current
    BY <1>19 DEF WakeAll
  <2>2. \A t \in Slots : /\ state'[t] = "Blocked" => state[t] = "Blocked" /\ t \notin Range(f)
                         /\ state'[t] = "Exited" => state[t] = "Exited"
    BY <2>1, WakeEffect
  <2>3. current' \in Slots => state'[current'] # "Blocked"
    BY <2>1, <2>2 DEF WakeupInv
  <2>4. \A t \in Slots : state'[t] = "Blocked" => t # current
    BY <2>1, <2>2 DEF WakeupInv
  <2> QED BY <1>s, <1>19, <2>2, <2>3, <2>4, WakeupFrame
<1>20. ASSUME NEW a \in Addresses, NEW n \in 1 .. MaxFutexWaiters, FutexWake(a, n)
       PROVE  WakeupInv'
  <2> DEFINE cleared == FutexCleared(a, n)
             f == [i \in cleared |-> futexWaiters[i].thread]
  <2>1. /\ WakeAll(f) /\ UNCHANGED <<join_waiters, parked, sleepers>>
        /\ futexWaiters' = [i \in DOMAIN futexWaiters |->
                              IF i \in cleared THEN NoFutexWaiter ELSE futexWaiters[i]]
    BY <1>20 DEF FutexWake
  <2>2. \A i \in cleared : futexWaiters[i].thread \in Range(f)
    BY DEF Range
  <2> HIDE DEF f, cleared
  <2>3. \A i \in DOMAIN futexWaiters : futexWaiters[i].thread \in Slots \ Range(f)
          => i \in DOMAIN futexWaiters' /\ futexWaiters'[i].thread = futexWaiters[i].thread
    BY <2>1, <2>2
  <2> QED BY <1>19, <2>1, <2>3
<1>21. ASSUME parked' = AfterInterrupt, NEW t \in Slots, t # current PROVE parked'[t] = parked[t]
  BY <1>21, <1>s, <1>i DEF AfterInterrupt
<1>22. CASE Tick
  <2> DEFINE f == ExpiredThreads
  <2>1. /\ WakeAll(f) /\ UNCHANGED join_waiters /\ parked' = AfterInterrupt
        /\ sleepers' = Elapsed(Advanced(sleepers, NoSleeper))
        /\ futexWaiters' = Advanced(futexWaiters, NoFutexWaiter)
    BY <1>22 DEF Tick
  <2>2. \A i \in Expired(sleepers) : sleepers[i].thread \in Range(f)
    <3> SUFFICES ASSUME NEW i \in Expired(sleepers) PROVE sleepers[i].thread \in Range(f)
      OBVIOUS
    <3>1. i \in DOMAIN f /\ i <= MaxSleepers
      BY KernelAssumption DEF ExpiredThreads, Expired, TypeOK
    <3>2. f[i] = sleepers[i].thread
      BY <3>1 DEF ExpiredThreads
    <3> QED BY <3>1, <3>2 DEF Range
  <2>3. \A i \in Expired(futexWaiters) : futexWaiters[i].thread \in Range(f)
    <3> SUFFICES ASSUME NEW i \in Expired(futexWaiters) PROVE futexWaiters[i].thread \in Range(f)
      OBVIOUS
    <3>1. /\ MaxSleepers + i \in DOMAIN f /\ ~ (MaxSleepers + i <= MaxSleepers)
          /\ (MaxSleepers + i) - MaxSleepers = i
      BY KernelAssumption DEF ExpiredThreads, Expired, TypeOK
    <3>2. f[MaxSleepers + i] = futexWaiters[i].thread
      BY <3>1 DEF ExpiredThreads
    <3> QED BY <3>1, <3>2 DEF Range
  <2> HIDE DEF f
  <2>4. \A i \in DOMAIN sleepers : sleepers[i].thread \in Slots \ Range(f)
          => i \in DOMAIN sleepers' /\ sleepers'[i].thread = sleepers[i].thread
    BY <2>1, <2>2, TickedSleepers DEF TypeOK
  <2>5. \A i \in DOMAIN futexWaiters : futexWaiters[i].thread \in Slots \ Range(f)
          => i \in DOMAIN futexWaiters' /\ futexWaiters'[i].thread = futexWaiters[i].thread
    BY <2>1, <2>3 DEF Advanced, TypeOK
  <2> QED BY <1>19, <1>21, <2>1, <2>4, <2>5
<1>23. CASE OtherInterrupt
  BY <1>f, <1>21, <1>23 DEF OtherInterrupt, waitVars
<1>24. CASE UNCHANGED vars
  BY <1>f, <1>24 DEF vars, threadVars, waitVars
<1> QED
  BY <1>1, <1>2, <1>3, <1>5, <1>6, <1>7, <1>8, <1>10, <1>12, <1>13, <1>14, <1>15, <1>16,
     <1>17, <1>18, <1>20, <1>22, <1>23, <1>24 DEF Next, ThreadsNext

\* No thread is ever left Blocked with nothing that names it, whatever threads
\* exit, are terminated, woken, timed out and recycled in between.
THEOREM NoWakeupIsLost == Spec => []NoLostWakeup
<1>1. Init => WakeupInv
  BY DEF Init, ThreadsInit, WakeupInv, NoLostWakeup
<1>2. WakeupInv => NoLostWakeup
  BY DEF WakeupInv
<1> QED BY <1>1, <1>2, WakeupStep, TypeCorrect, PTL DEF Spec

-----------------------------------------------------------------------------
(***************************************************************************)
(* The run queue, for programs without terminate_process().  RunQueueExact *)
(* is inductive together with the fact that the current thread is Running, *)
(* so that a yield or a wake adds a thread the queue does not hold.  The   *)
(* queue then has at most MaxThreads entries and enqueue() drops nothing.  *)
(***************************************************************************)
QueueExact(q, st) == IsInjective(q) /\ Range(q) = {t \in Slots : st[t] = "Ready"}

QueueInv ==
  /\ current \in Slots => state[current] = "Running"
  /\ current = NO_THREAD => state[IDLE_THREAD] = "Exited"
  /\ QueueExact(runQueue, state)

\* A queue without repetitions fits: there are no more threads than entries.
LEMMA InjectiveFits ==
  ASSUME NEW q \in Seq(Slots), IsInjective(q)
  PROVE  Len(q) <= MaxThreads
<1>1. Len(q) \in Nat /\ q \in [1 .. Len(q) -> Slots]
  BY LenProperties
<1>2. q \in Injection(1 .. Len(q), Slots)
  BY <1>1 DEF Injection
<1>3. IsFiniteSet(Slots) /\ Cardinality(Slots) = MaxThreads
  BY FS_Interval, ThreadsAssumption DEF Slots
<1>4. Cardinality(1 .. Len(q)) <= Cardinality(Slots)
  BY <1>2, <1>3, FS_Injection
<1>5. Cardinality(1 .. Len(q)) = Len(q)
  <2>1. PICK n \in Nat : n = Len(q)
    BY <1>1
  <2>2. 1 \in Int /\ n \in Int /\ (IF 1 > n THEN 0 ELSE n - 1 + 1) = n
    OBVIOUS
  <2>3. Cardinality(1 .. n) = n
    BY <2>2, FS_Interval
  <2> QED BY <2>1, <2>3
<1> QED BY <1>3, <1>4, <1>5

\* enqueue() of threads that are not queued drops none of them.
LEMMA EnqueueAll ==
  ASSUME NEW q \in Seq(Slots), NEW s \in Seq(Slots), IsInjective(q), IsInjective(s),
         Range(q) \cap Range(s) = {}
  PROVE  /\ Enqueue(q, s) \in Seq(Slots) /\ Len(Enqueue(q, s)) <= MaxThreads
         /\ IsInjective(Enqueue(q, s)) /\ Range(Enqueue(q, s)) = Range(q) \cup Range(s)
<1> DEFINE c == q \o s
<1>1. /\ Len(q) \in Nat /\ Len(s) \in Nat /\ DOMAIN q = 1 .. Len(q) /\ DOMAIN s = 1 .. Len(s)
      /\ c \in Seq(Slots) /\ Len(c) = Len(q) + Len(s) /\ DOMAIN c = 1 .. Len(c)
  BY LenProperties, ConcatProperties
<1>2. \A i \in 1 .. Len(c) : c[i] = IF i <= Len(q) THEN q[i] ELSE s[i - Len(q)]
  BY <1>1, ConcatProperties
<1> HIDE DEF c
<1>3. \A i \in 1 .. Len(c) : \/ i \in DOMAIN q /\ c[i] = q[i] /\ c[i] \in Range(q)
                             \/ /\ i - Len(q) \in DOMAIN s /\ c[i] = s[i - Len(q)]
                                /\ c[i] \in Range(s)
  <2> SUFFICES ASSUME NEW i \in 1 .. Len(c)
               PROVE  \/ i \in DOMAIN q /\ c[i] = q[i] /\ c[i] \in Range(q)
                      \/ /\ i - Len(q) \in DOMAIN s /\ c[i] = s[i - Len(q)]
                         /\ c[i] \in Range(s)
    OBVIOUS
  <2>1. CASE i <= Len(q)
    <3>1. i \in DOMAIN q /\ c[i] = q[i]
      BY <1>1, <1>2, <2>1
    <3> QED BY <3>1 DEF Range
  <2>2. CASE ~ (i <= Len(q))
    <3>1. i - Len(q) \in DOMAIN s /\ c[i] = s[i - Len(q)]
      BY <1>1, <1>2, <2>2
    <3> QED BY <3>1 DEF Range
  <2> QED BY <2>1, <2>2
<1>4. IsInjective(c)
  <2> SUFFICES ASSUME NEW i \in 1 .. Len(c), NEW j \in 1 .. Len(c), c[i] = c[j] PROVE i = j
    BY <1>1 DEF IsInjective
  <2>1. \/ i \in DOMAIN q /\ j \in DOMAIN q /\ q[i] = q[j]
        \/ i - Len(q) \in DOMAIN s /\ j - Len(q) \in DOMAIN s /\ s[i - Len(q)] = s[j - Len(q)]
    BY <1>3
  <2>2. i = j \/ i - Len(q) = j - Len(q)
    BY <2>1 DEF IsInjective
  <2> QED BY <1>1, <2>2
<1>5. Range(c) = Range(q) \cup Range(s)
  <2>1. Range(c) \subseteq Range(q) \cup Range(s)
    BY <1>1, <1>3 DEF Range
  <2>2. ASSUME NEW i \in 1 .. Len(q) PROVE q[i] \in Range(c)
    BY <1>1, <1>2 DEF Range
  <2>3. ASSUME NEW i \in 1 .. Len(s) PROVE s[i] \in Range(c)
    <3>1. i + Len(q) \in 1 .. Len(c) /\ ~ (i + Len(q) <= Len(q)) /\ (i + Len(q)) - Len(q) = i
      BY <1>1
    <3>2. c[i + Len(q)] = s[i]
      BY <1>2, <3>1
    <3> QED BY <1>1, <3>1, <3>2 DEF Range
  <2>4. Range(q) \subseteq Range(c) /\ Range(s) \subseteq Range(c)
    BY <1>1, <2>2, <2>3 DEF Range
  <2> QED BY <2>1, <2>4
<1>6. Len(c) <= MaxThreads /\ MaxThreads \in Nat
  BY <1>1, <1>4, InjectiveFits, ThreadsAssumption
<1>7. Min({MaxThreads, Len(c)}) = Len(c)
  <2>1. {MaxThreads, Len(c)} \subseteq Nat /\ {MaxThreads, Len(c)} # {}
    BY <1>1, <1>6
  <2>2. /\ Min({MaxThreads, Len(c)}) \in {MaxThreads, Len(c)}
        /\ Min({MaxThreads, Len(c)}) <= Len(c)
    BY <2>1, MinIsLeast
  <2> QED BY <1>1, <1>6, <2>2
<1>8. SubSeq(c, 1, Len(c)) = c
  BY <1>1
<1>9. Enqueue(q, s) = c
  BY <1>1, <1>7, <1>8 DEF Enqueue, c
<1> QED BY <1>1, <1>4, <1>5, <1>6, <1>9

\* A wake pass enqueues every thread it wakes, once.
LEMMA WakeOrderFacts ==
  ASSUME NEW f, Range(f) \subseteq Slots, NEW st, NEW order \in WakeOrders(f, st),
         DOMAIN f \subseteq Nat
  PROVE  /\ order \in Seq(Slots) /\ IsInjective(order) /\ Range(order) = Woken(f, st)
<1> DEFINE W == Woken(f, st)
           n == Cardinality(W)
<1>1. IsFiniteSet(W) /\ n \in Nat
  <2>1. IsFiniteSet(Slots) /\ W \subseteq Slots
    BY FS_Interval, ThreadsAssumption DEF Slots, Woken
  <2> QED BY <2>1, FS_Subset, FS_CardinalityType
<1>2. /\ order \in [1 .. n -> W]
      /\ \A i, j \in 1 .. n : i < j => FirstIndex(f, order[i]) < FirstIndex(f, order[j])
  BY DEF WakeOrders
<1> HIDE DEF W, n
<1>3. \A t \in W : FirstIndex(f, t) \in Nat
  <2> SUFFICES ASSUME NEW t \in W PROVE FirstIndex(f, t) \in Nat
    OBVIOUS
  <2>1. {i \in DOMAIN f : f[i] = t} \subseteq Nat /\ {i \in DOMAIN f : f[i] = t} # {}
    BY DEF W, Woken, Range
  <2> QED BY <2>1, MinIsLeast DEF FirstIndex
<1>4. IsInjective(order)
  <2> SUFFICES ASSUME NEW i \in 1 .. n, NEW j \in 1 .. n, order[i] = order[j] PROVE i = j
    BY <1>2 DEF IsInjective
  <2>1. FirstIndex(f, order[i]) \in Nat /\ FirstIndex(f, order[i]) = FirstIndex(f, order[j])
    BY <1>2, <1>3
  <2>2. ~ (i < j) /\ ~ (j < i)
    BY <1>2, <2>1
  <2> QED BY <1>1, <2>2
<1>5. order \in Surjection(1 .. n, W)
  <2>1. order \in Injection(1 .. n, W)
    BY <1>2, <1>4 DEF Injection
  <2>2. Cardinality(1 .. n) = n
    BY <1>1, FS_Interval
  <2> QED BY <1>1, <2>1, <2>2, FS_Injection DEF n
<1>6. Range(order) = W
  BY <1>2, <1>5 DEF Surjection, Range
<1> QED BY <1>4, <1>6, WakeOrderType DEF W

\* The scheduler takes the head of the queue, or the idle thread when it is
\* empty, and leaves the rest queued.
LEMMA DispatchExact ==
  ASSUME ThreadsTypeOK, NEW q \in Seq(Slots), Len(q) <= MaxThreads,
         NEW st \in [Slots -> ThreadState], QueueExact(q, st)
  PROVE  /\ NextReady(q, st) \in Slots
         /\ QueueExact(AfterNextReady(q, st), [st EXCEPT ![NextReady(q, st)] = "Running"])
<1>1. /\ Len(q) \in Nat /\ DOMAIN q = 1 .. Len(q)
      /\ \A i \in DOMAIN q : q[i] \in Slots /\ st[q[i]] = "Ready"
  BY LenProperties, ElementOfSeq DEF QueueExact, Range
<1>2. Runnable(q, st) = 1 .. Len(q)
  BY <1>1 DEF Runnable
<1>3. CASE Len(q) = 0
  <2>1. Runnable(q, st) = {} /\ Range(q) = {}
    BY <1>1, <1>2, <1>3 DEF Range
  <2>2. NextReady(q, st) = IDLE_THREAD /\ AfterNextReady(q, st) = <<>>
    BY <2>1 DEF NextReady, AfterNextReady
  <2>3. IsInjective(<<>>) /\ Range(<<>>) = {}
    BY DEF IsInjective, Range
  <2>4. {t \in Slots : [st EXCEPT ![IDLE_THREAD] = "Running"][t] = "Ready"} = {}
    BY <2>1, SlotFacts DEF QueueExact
  <2> QED BY <2>2, <2>3, <2>4, SlotFacts DEF QueueExact
<1>4. CASE Len(q) # 0
  <2>1. Runnable(q, st) # {} /\ Min(Runnable(q, st)) = 1
    <3>1. 1 \in Runnable(q, st) /\ Runnable(q, st) \subseteq Nat
      BY <1>1, <1>2, <1>4
    <3>2. Min(Runnable(q, st)) \in Runnable(q, st) /\ Min(Runnable(q, st)) <= 1
      BY <3>1, MinIsLeast
    <3> QED BY <1>1, <1>2, <3>1, <3>2
  <2> DEFINE r == SubSeq(q, 2, Len(q))
  <2>2. NextReady(q, st) = q[1] /\ AfterNextReady(q, st) = r
    BY <2>1 DEF NextReady, AfterNextReady
  <2>3. /\ DOMAIN r = 1 .. (Len(q) - 1)
        /\ \A i \in 1 .. (Len(q) - 1) : r[i] = q[i + 1]
    BY <1>1, <1>4
  <2> HIDE DEF r
  <2>4. IsInjective(r)
    <3> SUFFICES ASSUME NEW i \in DOMAIN r, NEW j \in DOMAIN r, r[i] = r[j] PROVE i = j
      BY DEF IsInjective
    <3>1. q[i + 1] = q[j + 1] /\ i + 1 \in DOMAIN q /\ j + 1 \in DOMAIN q
      BY <1>1, <2>3
    <3>2. i + 1 = j + 1
      BY <3>1 DEF QueueExact, IsInjective
    <3> QED BY <1>1, <2>3, <3>2
  <2>5. Range(r) = Range(q) \ {q[1]}
    <3>1. ASSUME NEW i \in DOMAIN r PROVE r[i] \in Range(q) /\ r[i] # q[1]
      <4>1. i + 1 \in DOMAIN q /\ 1 \in DOMAIN q /\ i + 1 # 1 /\ r[i] = q[i + 1]
        BY <1>1, <2>3
      <4> QED BY <4>1 DEF QueueExact, IsInjective, Range
    <3>2. ASSUME NEW i \in DOMAIN q, q[i] # q[1] PROVE q[i] \in Range(r)
      <4>1. i - 1 \in DOMAIN r /\ r[i - 1] = q[(i - 1) + 1] /\ (i - 1) + 1 = i
        BY <1>1, <2>3, <3>2
      <4> QED BY <4>1 DEF Range
    <3> QED BY <3>1, <3>2 DEF Range
  <2>6. q[1] \in Slots
    BY <1>1, <1>4
  <2>7. {t \in Slots : [st EXCEPT ![q[1]] = "Running"][t] = "Ready"}
          = {t \in Slots : st[t] = "Ready"} \ {q[1]}
    BY <2>6
  <2> QED BY <2>2, <2>4, <2>5, <2>6, <2>7 DEF QueueExact
<1> QED BY <1>1, <1>3, <1>4

\* Threads that become Ready and are enqueued keep the queue exact.
LEMMA AddExact ==
  ASSUME NEW q \in Seq(Slots), NEW st, QueueExact(q, st),
         NEW s \in Seq(Slots), IsInjective(s), NEW after,
         \A t \in Range(s) : st[t] # "Ready",
         \A t \in Slots : after[t] = "Ready" <=> st[t] = "Ready" \/ t \in Range(s)
  PROVE  /\ Enqueue(q, s) \in Seq(Slots) /\ Len(Enqueue(q, s)) <= MaxThreads
         /\ QueueExact(Enqueue(q, s), after)
<1>1. Range(s) \subseteq Slots
  BY LenProperties, ElementOfSeq DEF Range
<1>2. Range(q) \cap Range(s) = {}
  BY DEF QueueExact
<1>3. /\ Enqueue(q, s) \in Seq(Slots) /\ Len(Enqueue(q, s)) <= MaxThreads
      /\ IsInjective(Enqueue(q, s)) /\ Range(Enqueue(q, s)) = Range(q) \cup Range(s)
  BY <1>2, EnqueueAll DEF QueueExact
<1>4. {t \in Slots : after[t] = "Ready"} = {t \in Slots : st[t] = "Ready"} \cup Range(s)
  BY <1>1
<1> QED BY <1>3, <1>4 DEF QueueExact

\* The same for one thread.
LEMMA AddOneExact ==
  ASSUME NEW q \in Seq(Slots), NEW st, QueueExact(q, st), NEW t \in Slots, st[t] # "Ready",
         NEW after, \A x \in Slots : after[x] = "Ready" <=> st[x] = "Ready" \/ x = t
  PROVE  /\ Enqueue(q, <<t>>) \in Seq(Slots) /\ Len(Enqueue(q, <<t>>)) <= MaxThreads
         /\ QueueExact(Enqueue(q, <<t>>), after)
<1>1. <<t>> \in Seq(Slots) /\ IsInjective(<<t>>) /\ Range(<<t>>) = {t}
  BY DEF IsInjective, Range
<1> QED BY <1>1, AddExact

\* A wake pass.
LEMMA WakeExact ==
  ASSUME NEW q \in Seq(Slots), NEW st, QueueExact(q, st), NEW f, Range(f) \subseteq Slots,
         DOMAIN f \subseteq Nat, NEW order \in WakeOrders(f, st)
  PROVE  /\ Enqueue(q, order) \in Seq(Slots) /\ Len(Enqueue(q, order)) <= MaxThreads
         /\ QueueExact(Enqueue(q, order), AfterWake(f, st))
<1>1. order \in Seq(Slots) /\ IsInjective(order) /\ Range(order) = Woken(f, st)
  BY WakeOrderFacts
<1>2. \A t \in Woken(f, st) : st[t] # "Ready"
  BY DEF Woken
<1>3. \A t \in Slots : AfterWake(f, st)[t] = "Ready" <=> st[t] = "Ready" \/ t \in Woken(f, st)
  BY DEF AfterWake
<1> QED BY <1>1, <1>2, <1>3, AddExact

\* A dispatch from an exact queue.
LEMMA ScheduleKeepsQueue ==
  ASSUME ThreadsTypeOK, NEW q \in Seq(Slots), Len(q) <= MaxThreads,
         NEW st \in [Slots -> ThreadState], QueueExact(q, st), Schedule(q, st)
  PROVE  QueueInv'
<1>1. /\ current' = NextReady(q, st) /\ runQueue' = AfterNextReady(q, st)
      /\ state' = [st EXCEPT ![current'] = "Running"]
  BY DEF Schedule
<1>2. current' \in Slots /\ QueueExact(runQueue', state')
  BY <1>1, DispatchExact
<1>3. state'[current'] = "Running" /\ current' # NO_THREAD
  BY <1>1, <1>2, SlotFacts
<1> QED BY <1>2, <1>3 DEF QueueInv, QueueExact

\* block_current().
LEMMA BlockKeepsQueue ==
  ASSUME TypeOK, QueueInv, InUser, NEW c, Block(c)
  PROVE  QueueInv'
<1> DEFINE st == [state EXCEPT ![current] = "Blocked"]
<1>1. /\ ThreadsTypeOK /\ current \in Slots /\ state \in [Slots -> ThreadState]
      /\ runQueue \in Seq(Slots) /\ Len(runQueue) <= MaxThreads /\ state[current] = "Running"
  BY SlotFacts DEF TypeOK, ThreadsTypeOK, InUser, QueueInv
<1>2. st \in [Slots -> ThreadState] /\ \A t \in Slots : st[t] = "Ready" <=> state[t] = "Ready"
  BY <1>1 DEF ThreadState
<1>3. Schedule(runQueue, st)
  BY DEF Block
<1> HIDE DEF st
<1>4. QueueExact(runQueue, st)
  BY <1>2 DEF QueueExact, QueueInv
<1> QED BY <1>1, <1>2, <1>3, <1>4, ScheduleKeepsQueue

\* A new thread in a slot that had exited.
LEMMA SpawnKeepsQueue ==
  ASSUME TypeOK, QueueInv, current \in Slots, NEW t \in Slots, state[t] = "Exited",
         NEW p, SpawnInto(t, p)
  PROVE  QueueInv'
<1>1. state \in [Slots -> ThreadState] /\ runQueue \in Seq(Slots)
  BY DEF TypeOK, ThreadsTypeOK
<1>2. /\ state' = [state EXCEPT ![t] = "Ready"] /\ current' = current
      /\ runQueue' = Enqueue(runQueue, <<t>>)
  BY DEF SpawnInto
<1>3. \A x \in Slots : state'[x] = "Ready" <=> state[x] = "Ready" \/ x = t
  BY <1>1, <1>2
<1>4. QueueExact(Enqueue(runQueue, <<t>>), state')
  BY <1>1, <1>3, AddOneExact DEF QueueInv
<1>5. state'[current'] = "Running" /\ current' # NO_THREAD
  BY <1>1, <1>2, SlotFacts DEF QueueInv
<1> QED BY <1>2, <1>4, <1>5 DEF QueueInv, QueueExact

\* A wake pass without a dispatch.
LEMMA WakeKeepsQueue ==
  ASSUME TypeOK, QueueInv, current \in Slots, NEW f, Range(f) \subseteq Slots,
         DOMAIN f \subseteq Nat, WakeAll(f)
  PROVE  QueueInv'
<1>1. state \in [Slots -> ThreadState] /\ runQueue \in Seq(Slots)
  BY DEF TypeOK, ThreadsTypeOK
<1>2. PICK order \in WakeOrders(f, state) : runQueue' = Enqueue(runQueue, order)
  BY DEF WakeAll
<1>3. state' = AfterWake(f, state) /\ current' = current
  BY DEF WakeAll
<1>4. QueueExact(runQueue', state')
  BY <1>1, <1>2, <1>3, WakeExact DEF QueueInv
<1>5. state'[current'] = "Running" /\ current' # NO_THREAD
  BY <1>1, <1>3, SlotFacts DEF QueueInv, AfterWake, Woken
<1> QED BY <1>4, <1>5 DEF QueueInv, QueueExact

\* The indices at which a wake pass finds its threads are numbers.
LEMMA WakeIndices ==
  ASSUME TypeOK
  PROVE  /\ DOMAIN ExpiredThreads \subseteq Nat
         /\ \A a, n : DOMAIN [i \in FutexCleared(a, n) |-> futexWaiters[i].thread] \subseteq Nat
<1>1. Expired(sleepers) \subseteq Nat /\ Expired(futexWaiters) \subseteq Nat
  BY KernelAssumption DEF Expired, TypeOK
<1>2. DOMAIN ExpiredThreads \subseteq Nat
  BY <1>1, KernelAssumption DEF ExpiredThreads
<1>3. \A a, n : FutexCleared(a, n) \subseteq Nat
  BY KernelAssumption DEF FutexCleared, FutexMatches, TypeOK
<1> QED BY <1>2, <1>3

\* Without terminate_process() every step keeps the queue exact.
LEMMA QueueStep ==
  ASSUME TypeOK, QueueInv, [Next]_vars, "terminate" \notin Syscalls
  PROVE  QueueInv'
<1> USE DEF tableVars, queueVars, processVars
<1>s. /\ ThreadsTypeOK /\ state \in [Slots -> ThreadState]
      /\ runQueue \in Seq(Slots) /\ Len(runQueue) <= MaxThreads
      /\ join_waiters \in [Slots -> Seq(Slots)]
  BY DEF TypeOK, ThreadsTypeOK
<1>u. InUser => current \in Slots /\ state[current] = "Running"
  BY SlotFacts DEF InUser, QueueInv
<1>f. ASSUME UNCHANGED <<state, runQueue, current>> PROVE QueueInv'
  BY <1>f DEF QueueInv, QueueExact
<1>1. CASE Start
  <2> DEFINE q == Enqueue(runQueue, <<IDLE_THREAD>>)
             st == [state EXCEPT ![IDLE_THREAD] = "Ready"]
  <2>1. state[IDLE_THREAD] = "Exited" /\ IDLE_THREAD \in Slots
    BY <1>1, SlotFacts DEF Start, QueueInv
  <2>2. /\ st \in [Slots -> ThreadState]
        /\ \A x \in Slots : st[x] = "Ready" <=> state[x] = "Ready" \/ x = IDLE_THREAD
    BY <1>s, <2>1 DEF ThreadState
  <2>3. /\ current' = NextReady(q, st) /\ runQueue' = AfterNextReady(q, st)
        /\ state' = [st EXCEPT ![NextReady(q, st)] = "Running"]
    BY <1>1 DEF Start
  <2> HIDE DEF st
  <2>4. q \in Seq(Slots) /\ Len(q) <= MaxThreads /\ QueueExact(q, st)
    BY <1>s, <2>1, <2>2, AddOneExact DEF QueueInv
  <2> HIDE DEF q
  <2>5. current' \in Slots /\ QueueExact(runQueue', state')
    BY <1>s, <2>2, <2>3, <2>4, DispatchExact
  <2>6. state'[current'] = "Running" /\ current' # NO_THREAD
    BY <2>2, <2>3, <2>5, SlotFacts
  <2> QED BY <2>5, <2>6 DEF QueueInv, QueueExact
<1>2. CASE Yield
  <2> DEFINE q == Enqueue(runQueue, <<current>>)
             st == [state EXCEPT ![current] = "Ready"]
  <2>1. Schedule(q, st) /\ InUser
    BY <1>2 DEF Yield
  <2>2. /\ st \in [Slots -> ThreadState]
        /\ \A x \in Slots : st[x] = "Ready" <=> state[x] = "Ready" \/ x = current
    BY <1>s, <1>u, <2>1 DEF ThreadState
  <2> HIDE DEF st
  <2>3. q \in Seq(Slots) /\ Len(q) <= MaxThreads /\ QueueExact(q, st)
    BY <1>s, <1>u, <2>1, <2>2, AddOneExact DEF QueueInv
  <2> HIDE DEF q
  <2> QED BY <1>s, <2>1, <2>2, <2>3, ScheduleKeepsQueue
<1>3. CASE IdleYield
  BY <1>s, <1>3, ScheduleKeepsQueue DEF IdleYield, QueueInv
<1>4. ASSUME FreeSlots # {} PROVE Min(FreeSlots) \in Slots /\ state[Min(FreeSlots)] = "Exited"
  BY <1>4, MinIsLeast, SlotFacts DEF FreeSlots
<1>5. CASE ThreadCreate \/ ProcessSpawn
  BY <1>4, <1>5, <1>u, SpawnKeepsQueue DEF ThreadCreate, ProcessSpawn
<1>6. CASE ProcessSpawnFails
  BY <1>f, <1>6 DEF ProcessSpawnFails
<1>7. CASE Exit
  <2> DEFINE w == join_waiters[current]
             st == [state EXCEPT ![current] = "Exited"]
  <2>1. InUser
    BY <1>7 DEF Exit
  <2>2. PICK order \in WakeOrders(w, st) : Schedule(Enqueue(runQueue, order), AfterWake(w, st))
    BY <1>7 DEF Exit
  <2>3. /\ st \in [Slots -> ThreadState]
        /\ \A x \in Slots : st[x] = "Ready" <=> state[x] = "Ready"
    BY <1>s, <1>u, <2>1 DEF ThreadState
  <2>4. Range(w) \subseteq Slots /\ DOMAIN w \subseteq Nat
    BY <1>s, <1>u, <2>1, JoinWaitersRange, LenProperties
  <2> HIDE DEF w, st
  <2>5. QueueExact(runQueue, st)
    BY <2>3 DEF QueueInv, QueueExact
  <2>6. /\ Enqueue(runQueue, order) \in Seq(Slots) /\ Len(Enqueue(runQueue, order)) <= MaxThreads
        /\ QueueExact(Enqueue(runQueue, order), AfterWake(w, st))
    BY <1>s, <2>4, <2>5, WakeExact
  <2>7. AfterWake(w, st) \in [Slots -> ThreadState]
    BY <2>3, AfterWakeType
  <2> QED BY <1>s, <2>2, <2>6, <2>7, ScheduleKeepsQueue
<1>8. ASSUME NEW t \in Slots, Join(t) PROVE QueueInv'
  BY <1>f, <1>8, BlockKeepsQueue DEF Join, JoinBlocks
<1>9. CASE JoinReturn \/ WaitReturn \/ SleepReturn \/ OtherInterrupt
  BY <1>f, <1>9 DEF JoinReturn, WaitReturn, SleepReturn, OtherInterrupt
<1>10. ASSUME NEW p, ReapExited(p) PROVE QueueInv'
  BY <1>f, <1>10 DEF ReapExited
<1>11. ASSUME NEW p \in Pids, WaitProcess(p) PROVE QueueInv'
  BY <1>10, <1>11, BlockKeepsQueue DEF WaitProcess, JoinBlocks
<1>12. ASSUME NEW p \in Pids, TryWaitProcess(p) PROVE QueueInv'
  BY <1>10, <1>12 DEF TryWaitProcess
<1>13. CASE ReapAnyChild
  BY <1>10, <1>13 DEF ReapAnyChild
<1>14. ASSUME NEW p \in Pids, TerminateProcess(p) PROVE QueueInv'
  BY <1>14 DEF TerminateProcess
<1>15. ASSUME NEW ms \in 1 .. MaxDelay, Sleep(ms) PROVE QueueInv'
  BY <1>15, BlockKeepsQueue DEF Sleep
<1>16. ASSUME NEW a \in Addresses, NEW d \in Timeouts, FutexWait(a, d) PROVE QueueInv'
  BY <1>16, BlockKeepsQueue DEF FutexWait
<1>17. ASSUME NEW a \in Addresses, NEW n \in 1 .. MaxFutexWaiters, FutexWake(a, n)
       PROVE  QueueInv'
  <2>1. WakeAll([i \in FutexCleared(a, n) |-> futexWaiters[i].thread]) /\ InUser /\ n \in Nat
    BY <1>17, KernelAssumption DEF FutexWake
  <2> QED BY <1>u, <2>1, WakeTargets, WakeIndices, WakeKeepsQueue
<1>18. CASE Tick
  <2>1. WakeAll(ExpiredThreads) /\ current \in Slots
    BY <1>18, <1>u, SlotFacts DEF Tick, Interruptible
  <2> QED BY <2>1, WakeTargets, WakeIndices, WakeKeepsQueue
<1>19. CASE UNCHANGED vars
  BY <1>f, <1>19 DEF vars, threadVars
<1> QED
  BY <1>1, <1>2, <1>3, <1>5, <1>6, <1>7, <1>8, <1>9, <1>11, <1>12, <1>13, <1>14, <1>15,
     <1>16, <1>17, <1>18, <1>19 DEF Next, ThreadsNext

\* As long as no program calls terminate_process(), the run queue holds every
\* Ready thread once and nothing else: enqueue() never drops a thread, and
\* next_ready() has no exited entry to skip.
THEOREM QueueStaysExact == Spec => []("terminate" \notin Syscalls => RunQueueExact)
<1> DEFINE Inv == "terminate" \notin Syscalls => QueueInv
<1>1. Init => Inv
  <2> SUFFICES ASSUME Init PROVE QueueInv
    OBVIOUS
  <2>1. /\ state = [t \in Slots |-> IF t = 1 THEN "Ready" ELSE "Exited"]
        /\ runQueue = <<1>> /\ current = NO_THREAD
    BY DEF Init, ThreadsInit
  <2>2. IsInjective(<<1>>) /\ Range(<<1>>) = {1} /\ 1 \in Slots /\ IDLE_THREAD # 1
    BY SlotFacts DEF IsInjective, Range, IDLE_THREAD
  <2> QED BY <2>1, <2>2, SlotFacts DEF QueueInv, QueueExact
<1>2. TypeOK /\ Inv /\ [Next]_vars => Inv'
  BY QueueStep
<1>3. TypeOK /\ Inv => ("terminate" \notin Syscalls => RunQueueExact)
  <2> SUFFICES ASSUME TypeOK, QueueInv, NEW t \in Slots
               PROVE  Cardinality({i \in DOMAIN runQueue : runQueue[i] = t})
                        = IF state[t] = "Ready" THEN 1 ELSE 0
    BY DEF RunQueueExact
  <2> DEFINE at == {i \in DOMAIN runQueue : runQueue[i] = t}
  <2>1. CASE state[t] = "Ready"
    <3>1. PICK i \in DOMAIN runQueue : runQueue[i] = t
      BY <2>1 DEF QueueInv, QueueExact, Range
    <3>2. at = {i}
      BY <3>1 DEF QueueInv, QueueExact, IsInjective
    <3> QED BY <2>1, <3>2, FS_Singleton
  <2>2. CASE state[t] # "Ready"
    <3>1. at = {}
      BY <2>2 DEF QueueInv, QueueExact, Range
    <3> QED BY <2>2, <3>1, FS_EmptySet
  <2> QED BY <2>1, <2>2
<1> QED BY <1>1, <1>2, <1>3, TypeCorrect, PTL DEF Spec

-----------------------------------------------------------------------------
(***************************************************************************)
(* The wait tables, for programs without terminate_process().              *)
(* WaitTablesExact is not inductive: that a joiner which returns takes the *)
(* registration it made off the list needs its target to have exited, that *)
(* a wake pass wakes only the threads it is meant for needs every entry to *)
(* be that of a thread parked where the entry says, and that a slot is not *)
(* recycled under a joiner needs exited threads to be parked nowhere.      *)
(***************************************************************************)
SleepersExact ==
  \A i \in DOMAIN sleepers : LET t == sleepers[i].thread IN
    t # NO_THREAD =>
      /\ state[t] = "Blocked" /\ parked[t].op = "sleep"
      /\ \A j \in DOMAIN sleepers : sleepers[j].thread = t => j = i

FutexWaitersExact ==
  \A i \in DOMAIN futexWaiters : LET t == futexWaiters[i].thread IN
    t # NO_THREAD =>
      /\ state[t] = "Blocked" /\ parked[t].op = "futex"
      /\ \A j \in DOMAIN futexWaiters : futexWaiters[j].thread = t => j = i

Joining(t) == parked[t].op \in {"join", "wait"}

JoinsExact ==
  /\ \A s \in Slots : Cardinality(Joiners(s)) = Len(join_waiters[s])
  /\ \A s \in Slots : state[s] # "Exited" =>
       \A t \in Range(join_waiters[s]) : state[t] = "Blocked" /\ t \in Joiners(s)
  /\ \A s \in Slots : \A t \in Joiners(s) : state[t] = "Blocked" \/ state[s] = "Exited"
  /\ \A t \in Slots : state[t] = "Exited" => ~ Joining(t)

\* The idle thread waits for nothing and, once started, never exits; before
\* that nobody waits.
IdleAlive ==
  /\ parked[IDLE_THREAD].op \in {"start", "halt", "woken"}
  /\ state[IDLE_THREAD] # "Blocked"
  /\ current = NO_THREAD => \A s \in Slots : Joiners(s) = {} /\ join_waiters[s] = <<>>
  /\ current # NO_THREAD => state[IDLE_THREAD] # "Exited"

TablesInv == SleepersExact /\ FutexWaitersExact /\ JoinsExact /\ IdleAlive

\* The scheduler dispatches a Ready thread or the idle thread.
LEMMA NextIsReady ==
  ASSUME NEW q \in Seq(Slots), Len(q) <= MaxThreads, NEW st, QueueExact(q, st)
  PROVE  /\ NextReady(q, st) \in Slots
         /\ NextReady(q, st) = IDLE_THREAD \/ st[NextReady(q, st)] = "Ready"
<1>1. CASE Runnable(q, st) = {}
  BY <1>1, SlotFacts DEF NextReady
<1>2. CASE Runnable(q, st) # {}
  <2>1. Runnable(q, st) \subseteq Nat /\ Runnable(q, st) \subseteq DOMAIN q
    BY LenProperties DEF Runnable
  <2>2. Min(Runnable(q, st)) \in DOMAIN q
    BY <1>2, <2>1, MinIsLeast
  <2>3. NextReady(q, st) \in Range(q)
    BY <1>2, <2>2 DEF NextReady, Range
  <2> QED BY <2>3 DEF QueueExact
<1> QED BY <1>1, <1>2

\* A dispatch changes neither who is Blocked nor who has exited.
LEMMA DispatchStatus ==
  ASSUME ThreadsTypeOK, NEW q \in Seq(Slots), Len(q) <= MaxThreads,
         NEW st \in [Slots -> ThreadState], QueueExact(q, st),
         st[IDLE_THREAD] \notin {"Blocked", "Exited"}, Schedule(q, st)
  PROVE  /\ current' \in Slots
         /\ \A t \in Slots : state'[t] = "Blocked" <=> st[t] = "Blocked"
         /\ \A t \in Slots : state'[t] = "Exited" <=> st[t] = "Exited"
<1>1. current' = NextReady(q, st) /\ state' = [st EXCEPT ![current'] = "Running"]
  BY DEF Schedule
<1>2. current' \in Slots /\ (current' = IDLE_THREAD \/ st[current'] = "Ready")
  BY <1>1, NextIsReady
<1>3. st[current'] \notin {"Blocked", "Exited"}
  BY <1>2
<1> QED BY <1>1, <1>2, <1>3

\* Steps that leave a table and the threads in it alone.
LEMMA SleepersFrame ==
  ASSUME TypeOK, SleepersExact, sleepers' = sleepers,
         \A t \in Slots : state[t] = "Blocked" /\ parked[t].op = "sleep"
                            => state'[t] = "Blocked" /\ parked'[t].op = "sleep"
  PROVE  SleepersExact'
<1>1. \A i \in DOMAIN sleepers : sleepers[i].thread # NO_THREAD => sleepers[i].thread \in Slots
  BY DEF TypeOK
<1> QED BY <1>1 DEF SleepersExact

LEMMA FutexFrame ==
  ASSUME TypeOK, FutexWaitersExact, futexWaiters' = futexWaiters,
         \A t \in Slots : state[t] = "Blocked" /\ parked[t].op = "futex"
                            => state'[t] = "Blocked" /\ parked'[t].op = "futex"
  PROVE  FutexWaitersExact'
<1>1. \A i \in DOMAIN futexWaiters :
        futexWaiters[i].thread # NO_THREAD => futexWaiters[i].thread \in Slots
  BY DEF TypeOK
<1> QED BY <1>1 DEF FutexWaitersExact

LEMMA JoinsFrame ==
  ASSUME TypeOK, JoinsExact, join_waiters' = join_waiters,
         \A t \in Slots : \/ parked'[t] = parked[t]
                          \/ parked'[t].op \notin {"join", "wait"} /\ ~ Joining(t),
         \A t \in Slots : Joining(t) /\ state[t] = "Blocked" => state'[t] = "Blocked",
         \A t \in Slots : state'[t] = "Exited" <=> state[t] = "Exited"
  PROVE  JoinsExact'
<1>1. \A s \in Slots : Joiners(s)' = Joiners(s)
  BY DEF Joiners, Joining
<1>2. \A t \in Slots : Joining(t)' <=> Joining(t)
  BY DEF Joining
<1>3. \A s \in Slots : Cardinality(Joiners(s)') = Len(join_waiters'[s])
  BY <1>1 DEF JoinsExact
<1>4. \A s \in Slots, t \in Slots : t \in Joiners(s) => Joining(t)
  BY DEF Joiners, Joining
<1>5. ASSUME NEW s \in Slots, state'[s] # "Exited", NEW t \in Range(join_waiters[s])
      PROVE  state'[t] = "Blocked" /\ t \in Joiners(s)
  <2>1. state[t] = "Blocked" /\ t \in Joiners(s) /\ t \in Slots
    BY <1>5 DEF JoinsExact, Joiners
  <2> QED BY <2>1, <1>4
<1>6. ASSUME NEW s \in Slots, NEW t \in Joiners(s)
      PROVE  state'[t] = "Blocked" \/ state'[s] = "Exited"
  <2>1. t \in Slots /\ Joining(t)
    BY <1>6 DEF Joiners, Joining
  <2> QED BY <1>6, <2>1 DEF JoinsExact
<1>7. \A t \in Slots : state'[t] = "Exited" => ~ Joining(t)'
  BY <1>2 DEF JoinsExact
<1> QED BY <1>1, <1>3, <1>5, <1>6, <1>7 DEF JoinsExact

\* A step that leaves every waiting thread alone.
LEMMA TablesFrame ==
  ASSUME TypeOK, TablesInv, current \in Slots, current' \in Slots,
         UNCHANGED <<join_waiters, sleepers, futexWaiters>>,
         \A t \in Slots : \/ parked'[t] = parked[t]
                          \/ /\ parked'[t].op \notin {"join", "wait"} /\ ~ Joining(t)
                             /\ state[t] # "Blocked",
         parked'[IDLE_THREAD].op \in {"start", "halt", "woken"},
         \A t \in Slots : state'[t] = "Blocked" <=> state[t] = "Blocked",
         \A t \in Slots : state'[t] = "Exited" <=> state[t] = "Exited"
  PROVE  TablesInv'
<1>1. SleepersExact' /\ FutexWaitersExact'
  BY SleepersFrame, FutexFrame DEF TablesInv
<1>2. JoinsExact'
  <2>1. \A t \in Slots : \/ parked'[t] = parked[t]
                         \/ parked'[t].op \notin {"join", "wait"} /\ ~ Joining(t)
    OBVIOUS
  <2>2. JoinsExact /\ join_waiters' = join_waiters
    BY DEF TablesInv
  <2> QED BY <2>1, <2>2, JoinsFrame
<1>3. IdleAlive'
  BY SlotFacts DEF TablesInv, IdleAlive
<1> QED BY <1>1, <1>2, <1>3 DEF TablesInv

\* A new thread gets a slot on which nobody is parked, and which is parked
\* nowhere itself.
LEMMA SpawnKeepsTables ==
  ASSUME TypeOK, JoinInv, TablesInv, current \in Slots, NEW t \in UserSlots,
         state[t] = "Exited", reapable[t], NEW p, SpawnInto(t, p), UNCHANGED waitVars
  PROVE  TablesInv'
<1>t. /\ t \in Slots /\ t # IDLE_THREAD /\ state \in [Slots -> ThreadState]
      /\ parked \in [Slots -> Continuations] /\ join_waiters \in [Slots -> Seq(Slots)]
  BY SlotFacts DEF TypeOK, ThreadsTypeOK
<1>1. /\ state' = [state EXCEPT ![t] = "Ready"] /\ parked' = [parked EXCEPT ![t] = ReturnToUser]
      /\ join_waiters' = [join_waiters EXCEPT ![t] = <<>>]
      /\ UNCHANGED <<current, sleepers, futexWaiters>>
  BY DEF SpawnInto, waitVars
<1>2. ReturnToUser.op = "user" /\ ~ Joining(t)
  BY <1>t DEF ReturnToUser, Continuation, TablesInv, JoinsExact
<1>3. \A s \in Slots : Joiners(s)' = Joiners(s)
  BY <1>t, <1>1, <1>2 DEF Joiners, Joining
<1>4. join_waiters[t] = <<>> /\ Len(<<>>) = 0 /\ Range(<<>>) = {}
  BY EmptySeq DEF JoinInv, ReapableIsIdle, Range
<1>5. Joiners(t) = {}
  <2>1. Cardinality(Joiners(t)) = 0
    BY <1>t, <1>4 DEF TablesInv, JoinsExact
  <2> QED BY <2>1, JoinersFinite, FS_EmptySet
<1>6. join_waiters' = join_waiters
  BY <1>t, <1>1, <1>4
<1>7. \A x \in Slots : x # t => state'[x] = state[x] /\ parked'[x] = parked[x]
  BY <1>t, <1>1
<1>8. SleepersExact' /\ FutexWaitersExact'
  BY <1>t, <1>1, <1>7, SleepersFrame, FutexFrame DEF TablesInv
<1>9. JoinsExact'
  <2>1. \A s \in Slots : Cardinality(Joiners(s)') = Len(join_waiters'[s])
    BY <1>3, <1>6 DEF TablesInv, JoinsExact
  <2>2. ASSUME NEW s \in Slots, state'[s] # "Exited", NEW x \in Range(join_waiters[s])
        PROVE  state'[x] = "Blocked" /\ x \in Joiners(s)
    <3>1. s # t
      BY <1>4, <2>2
    <3>2. state[x] = "Blocked" /\ x \in Joiners(s) /\ x \in Slots
      BY <1>7, <2>2, <3>1 DEF TablesInv, JoinsExact, Joiners
    <3> QED BY <1>7, <3>2
  <2>3. ASSUME NEW s \in Slots, NEW x \in Joiners(s)
        PROVE  state'[x] = "Blocked" \/ state'[s] = "Exited"
    <3>1. s # t /\ x # t /\ x \in Slots
      BY <1>2, <1>5, <2>3 DEF Joiners, Joining
    <3> QED BY <1>7, <2>3, <3>1 DEF TablesInv, JoinsExact
  <2>4. \A x \in Slots : state'[x] = "Exited" => ~ Joining(x)'
    BY <1>t, <1>1, <1>7 DEF TablesInv, JoinsExact, Joining
  <2> QED BY <1>3, <1>6, <2>1, <2>2, <2>3, <2>4 DEF JoinsExact
<1>10. IdleAlive'
  BY <1>t, <1>1, <1>7, SlotFacts DEF TablesInv, IdleAlive
<1> QED BY <1>8, <1>9, <1>10 DEF TablesInv

\* block_current() adds the caller to the Blocked threads.
LEMMA BlockStatus ==
  ASSUME TypeOK, QueueInv, IdleAlive, InUser, NEW c, Block(c)
  PROVE  /\ current \in Slots /\ current # IDLE_THREAD /\ current' \in Slots
         /\ state[current] = "Running" /\ parked[current].op = "user"
         /\ parked' = [parked EXCEPT ![current] = c]
         /\ \A t \in Slots : state'[t] = "Blocked" <=> state[t] = "Blocked" \/ t = current
         /\ \A t \in Slots : state'[t] = "Exited" <=> state[t] = "Exited"
<1> DEFINE st == [state EXCEPT ![current] = "Blocked"]
<1>1. /\ ThreadsTypeOK /\ current \in Slots /\ current # IDLE_THREAD /\ current # NO_THREAD
      /\ runQueue \in Seq(Slots) /\ Len(runQueue) <= MaxThreads
      /\ state \in [Slots -> ThreadState] /\ state[current] = "Running"
      /\ parked[current].op = "user"
  BY SlotFacts DEF TypeOK, ThreadsTypeOK, InUser, QueueInv
<1>2. /\ st \in [Slots -> ThreadState]
      /\ st[IDLE_THREAD] \notin {"Blocked", "Exited"}
      /\ \A t \in Slots : /\ st[t] = "Ready" <=> state[t] = "Ready"
                          /\ st[t] = "Blocked" <=> state[t] = "Blocked" \/ t = current
                          /\ st[t] = "Exited" <=> state[t] = "Exited"
  BY <1>1, SlotFacts DEF ThreadState, IdleAlive
<1>3. Schedule(runQueue, st) /\ parked' = [parked EXCEPT ![current] = c]
  BY DEF Block
<1> HIDE DEF st
<1>4. QueueExact(runQueue, st)
  BY <1>2 DEF QueueExact, QueueInv
<1>5. /\ current' \in Slots
      /\ \A t \in Slots : state'[t] = "Blocked" <=> st[t] = "Blocked"
      /\ \A t \in Slots : state'[t] = "Exited" <=> st[t] = "Exited"
  BY <1>1, <1>2, <1>3, <1>4, DispatchStatus
<1> QED BY <1>1, <1>2, <1>3, <1>5

\* The end of a thread wakes exactly the threads parked on it.
LEMMA ExitKeepsTables ==
  ASSUME TypeOK, QueueInv, TablesInv, Exit, UNCHANGED waitVars
  PROVE  TablesInv'
<1> DEFINE w == join_waiters[current]
           ended == [state EXCEPT ![current] = "Exited"]
           st == AfterWake(w, ended)
<1>1. /\ InUser /\ UNCHANGED <<parked, join_waiters, sleepers, futexWaiters>>
  BY DEF Exit, waitVars
<1>2. PICK order \in WakeOrders(w, ended) : Schedule(Enqueue(runQueue, order), st)
  BY DEF Exit
<1>3. PICK me : me = current
  OBVIOUS
<1>4. /\ ThreadsTypeOK /\ me \in Slots /\ me # IDLE_THREAD /\ me # NO_THREAD
      /\ runQueue \in Seq(Slots) /\ Len(runQueue) <= MaxThreads
      /\ state \in [Slots -> ThreadState] /\ state[me] = "Running"
      /\ parked[me].op = "user" /\ join_waiters \in [Slots -> Seq(Slots)]
  BY <1>1, <1>3, SlotFacts DEF TypeOK, ThreadsTypeOK, InUser, QueueInv
<1>5. /\ ended \in [Slots -> ThreadState]
      /\ \A t \in Slots : /\ ended[t] = "Ready" <=> state[t] = "Ready"
                          /\ ended[t] = "Blocked" <=> state[t] = "Blocked"
                          /\ ended[t] = "Exited" <=> state[t] = "Exited" \/ t = me
  BY <1>3, <1>4 DEF ThreadState
<1>6. Range(w) \subseteq Slots /\ DOMAIN w \subseteq Nat
  BY <1>3, <1>4, JoinWaitersRange, LenProperties
<1>7. /\ st \in [Slots -> ThreadState]
      /\ \A t \in Slots : /\ st[t] = "Blocked" <=> ended[t] = "Blocked" /\ t \notin Range(w)
                          /\ st[t] = "Exited" <=> ended[t] = "Exited"
  <2> HIDE DEF ended, w
  <2>1. st \in [Slots -> ThreadState]
    BY <1>5, AfterWakeType
  <2> QED BY <2>1, WakeEffect
<1>8. st[IDLE_THREAD] \notin {"Blocked", "Exited"}
  <2>1. state[IDLE_THREAD] # "Blocked" /\ state[IDLE_THREAD] # "Exited"
    BY <1>3, <1>4 DEF TablesInv, IdleAlive
  <2> QED BY <1>4, <1>5, <1>7, <2>1, SlotFacts
<1>9. QueueExact(runQueue, ended)
  BY <1>5 DEF QueueInv, QueueExact
<1> HIDE DEF ended, w
<1>10. /\ Enqueue(runQueue, order) \in Seq(Slots) /\ Len(Enqueue(runQueue, order)) <= MaxThreads
       /\ QueueExact(Enqueue(runQueue, order), st)
  BY <1>4, <1>6, <1>9, WakeExact
<1> HIDE DEF st
<1>11. /\ current' \in Slots
       /\ \A t \in Slots : state'[t] = "Blocked" <=> st[t] = "Blocked"
       /\ \A t \in Slots : state'[t] = "Exited" <=> st[t] = "Exited"
  BY <1>2, <1>4, <1>7, <1>8, <1>10, DispatchStatus
<1>12. \A t \in Slots : /\ state'[t] = "Blocked" <=> state[t] = "Blocked" /\ t \notin Range(w)
                        /\ state'[t] = "Exited" <=> state[t] = "Exited" \/ t = me
  BY <1>5, <1>7, <1>11
<1>13. \A t \in Range(w) : t \in Joiners(me) /\ t \in Slots
  BY <1>3, <1>4 DEF TablesInv, JoinsExact, Joiners, w
<1>14. \A t \in Slots : t \in Range(w) => Joining(t) /\ parked[t].thread = me
  BY <1>13 DEF Joiners, Joining
<1>15. SleepersExact' /\ FutexWaitersExact'
  BY <1>1, <1>12, <1>14, SleepersFrame, FutexFrame DEF TablesInv, Joining
<1>16. JoinsExact'
  <2>1. \A s \in Slots : Joiners(s)' = Joiners(s)
    BY <1>1 DEF Joiners
  <2>2. \A s \in Slots : Cardinality(Joiners(s)') = Len(join_waiters'[s])
    BY <1>1, <2>1 DEF TablesInv, JoinsExact
  <2>3. ASSUME NEW s \in Slots, state'[s] # "Exited", NEW x \in Range(join_waiters[s])
        PROVE  state'[x] = "Blocked" /\ x \in Joiners(s)
    <3>1. s # me /\ state[x] = "Blocked" /\ x \in Joiners(s) /\ x \in Slots
      BY <1>12, <2>3 DEF TablesInv, JoinsExact, Joiners
    <3>2. x \notin Range(w)
      BY <1>14, <3>1 DEF Joiners
    <3> QED BY <1>12, <3>1, <3>2
  <2>4. ASSUME NEW s \in Slots, NEW x \in Joiners(s)
        PROVE  state'[x] = "Blocked" \/ state'[s] = "Exited"
    <3>1. x \in Slots /\ parked[x].thread = s /\ (state[x] = "Blocked" \/ state[s] = "Exited")
      BY <2>4 DEF Joiners, TablesInv, JoinsExact
    <3> QED BY <1>12, <1>14, <3>1
  <2>5. \A x \in Slots : state'[x] = "Exited" => ~ Joining(x)'
    BY <1>1, <1>4, <1>12 DEF TablesInv, JoinsExact, Joining
  <2> QED BY <1>1, <2>1, <2>2, <2>3, <2>4, <2>5 DEF JoinsExact
<1>17. IdleAlive'
  <2>1. state[IDLE_THREAD] # "Blocked" /\ state[IDLE_THREAD] # "Exited"
    BY <1>3, <1>4 DEF TablesInv, IdleAlive
  <2> QED BY <1>1, <1>4, <1>11, <1>12, <2>1, SlotFacts DEF TablesInv, IdleAlive
<1> QED BY <1>15, <1>16, <1>17 DEF TablesInv

\* A joiner registers and is parked in one step.
LEMMA JoinKeepsTables ==
  ASSUME TypeOK, QueueInv, TablesInv, InUser, NEW t \in Slots, t # current,
         NEW c \in Continuations, c.op \in {"join", "wait"}, c.thread = t,
         JoinBlocks(t, c), UNCHANGED waitVars
  PROVE  TablesInv'
<1>1. PICK me : me = current
  OBVIOUS
<1>2. /\ state[t] # "Exited" /\ Block(c)
      /\ join_waiters' = [join_waiters EXCEPT ![t] = Append(@, me)]
      /\ UNCHANGED <<sleepers, futexWaiters>> /\ IdleAlive
  BY <1>1 DEF JoinBlocks, waitVars, TablesInv
<1>3. /\ me \in Slots /\ me # IDLE_THREAD /\ current' \in Slots /\ current # NO_THREAD
      /\ state[me] = "Running" /\ parked[me].op = "user"
      /\ parked' = [parked EXCEPT ![me] = c]
      /\ \A x \in Slots : state'[x] = "Blocked" <=> state[x] = "Blocked" \/ x = me
      /\ \A x \in Slots : state'[x] = "Exited" <=> state[x] = "Exited"
  BY <1>1, <1>2, BlockStatus, SlotFacts
<1>4. /\ parked \in [Slots -> Continuations] /\ join_waiters \in [Slots -> Seq(Slots)]
  BY DEF TypeOK, ThreadsTypeOK
<1>5. /\ parked'[me] = c /\ \A x \in Slots : x # me => parked'[x] = parked[x]
  BY <1>3, <1>4
<1>6. SleepersExact' /\ FutexWaitersExact'
  BY <1>2, <1>3, <1>5, SleepersFrame, FutexFrame DEF TablesInv
<1>7. /\ Joiners(t)' = Joiners(t) \cup {me} /\ me \notin Joiners(t)
      /\ \A s \in Slots : s # t => Joiners(s)' = Joiners(s)
  BY <1>3, <1>5 DEF Joiners
<1>8. /\ join_waiters'[t] = Append(join_waiters[t], me)
      /\ \A s \in Slots : s # t => join_waiters'[s] = join_waiters[s]
  BY <1>2, <1>4
<1>9. /\ Len(join_waiters'[t]) = Len(join_waiters[t]) + 1 /\ Len(join_waiters[t]) \in Nat
      /\ Range(join_waiters'[t]) = Range(join_waiters[t]) \cup {me}
  BY <1>3, <1>4, <1>8, AppendRange, AppendProperties, LenProperties
<1>10. JoinsExact'
  <2>1. ASSUME NEW s \in Slots PROVE Cardinality(Joiners(s)') = Len(join_waiters'[s])
    <3>1. Cardinality(Joiners(s)) = Len(join_waiters[s]) /\ IsFiniteSet(Joiners(s))
      BY JoinersFinite DEF TablesInv, JoinsExact
    <3>2. CASE s = t
      <4>1. Cardinality(Joiners(s)') = Cardinality(Joiners(s)) + 1
        BY <1>7, <3>1, <3>2, FS_AddElement
      <4> QED BY <1>9, <3>1, <3>2, <4>1
    <3> QED BY <1>7, <1>8, <3>1, <3>2
  <2>2. ASSUME NEW s \in Slots, state'[s] # "Exited", NEW x \in Range(join_waiters'[s])
        PROVE  state'[x] = "Blocked" /\ x \in Joiners(s)'
    <3>1. CASE s = t /\ x = me
      BY <1>3, <1>7, <3>1
    <3>2. CASE x \in Range(join_waiters[s])
      <4>1. state[x] = "Blocked" /\ x \in Joiners(s) /\ x \in Slots
        BY <1>3, <2>2, <3>2 DEF TablesInv, JoinsExact, Joiners
      <4> QED BY <1>3, <1>7, <4>1
    <3> QED BY <1>8, <1>9, <2>2, <3>1, <3>2
  <2>3. ASSUME NEW s \in Slots, NEW x \in Joiners(s)'
        PROVE  state'[x] = "Blocked" \/ state'[s] = "Exited"
    <3>1. CASE x = me
      BY <1>3, <3>1
    <3>2. CASE x # me
      <4>1. x \in Joiners(s) /\ x \in Slots
        BY <1>7, <2>3, <3>2 DEF Joiners
      <4> QED BY <1>3, <4>1 DEF TablesInv, JoinsExact
    <3> QED BY <3>1, <3>2
  <2>4. \A x \in Slots : state'[x] = "Exited" => ~ Joining(x)'
    BY <1>3, <1>5 DEF TablesInv, JoinsExact, Joining
  <2> QED BY <2>1, <2>2, <2>3, <2>4 DEF JoinsExact
<1>11. IdleAlive'
  BY <1>2, <1>3, <1>5, SlotFacts DEF IdleAlive
<1> QED BY <1>6, <1>10, <1>11 DEF TablesInv

\* A joiner that resumes finds its target exited and takes one registration
\* off the list.
LEMMA CollectKeepsTables ==
  ASSUME TypeOK, QueueInv, TablesInv, NEW op \in {"join", "wait"}, Returning(op),
         NEW t, t = parked[current].thread,
         \/ JoinCollects(t)
         \/ state[t] # "Exited" /\ UNCHANGED <<reapable, join_waiters>>,
         UNCHANGED <<state, current, waitVars>>
  PROVE  TablesInv'
<1>1. PICK me : me = current
  OBVIOUS
<1>2. /\ parked \in [Slots -> Continuations] /\ join_waiters \in [Slots -> Seq(Slots)]
      /\ state \in [Slots -> ThreadState]
  BY DEF TypeOK, ThreadsTypeOK
<1>3. /\ me \in Slots /\ me # IDLE_THREAD /\ me # NO_THREAD /\ state[me] = "Running"
      /\ parked[me].op = op /\ parked' = [parked EXCEPT ![me] = ReturnToUser]
      /\ UNCHANGED <<sleepers, futexWaiters>>
  BY <1>1, SlotFacts DEF Returning, QueueInv, waitVars
<1>4. t \in Slots /\ me \in Joiners(t)
  BY <1>1, <1>3, ParkedTypes DEF Joiners, TypeOK
<1>5. state[t] = "Exited"
  BY <1>3, <1>4 DEF TablesInv, JoinsExact
<1>6. ReturnToUser.op = "user"
  BY DEF ReturnToUser, Continuation
<1>7. parked'[me].op = "user" /\ \A x \in Slots : x # me => parked'[x] = parked[x]
  BY <1>2, <1>3, <1>6
<1>8. SleepersExact' /\ FutexWaitersExact'
  BY <1>3, <1>7, SleepersFrame, FutexFrame DEF TablesInv
<1>9. /\ Joiners(t)' = Joiners(t) \ {me}
      /\ \A s \in Slots : s # t => Joiners(s)' = Joiners(s)
  BY <1>1, <1>7 DEF Joiners
<1> DEFINE w == join_waiters[t]
           rest == SubSeq(w, 1, Len(w) - 1)
<1>10. /\ Cardinality(Joiners(t)) = Len(w) /\ Len(w) \in Nat /\ w \in Seq(Slots)
       /\ Cardinality(Joiners(t)') = Len(w) - 1 /\ Cardinality(Joiners(t)') \in Nat
  <2>1. Cardinality(Joiners(t)) = Len(w) /\ w \in Seq(Slots) /\ Len(w) \in Nat
    BY <1>2, <1>4, LenProperties DEF TablesInv, JoinsExact
  <2>2. /\ Cardinality(Joiners(t) \ {me}) = Cardinality(Joiners(t)) - 1
        /\ Cardinality(Joiners(t) \ {me}) \in Nat
    BY <1>4, JoinersFinite, FS_RemoveElement, FS_CardinalityType
  <2> QED BY <1>9, <2>1, <2>2
<1>11. w # <<>> /\ rest \in Seq(Slots) /\ Len(rest) = Len(w) - 1
  <2>1. Len(w) # 0
    BY <1>10
  <2>2. w # <<>>
    BY <2>1, EmptySeq
  <2> QED BY <1>10, <2>1, <2>2, ElementOfSeq, SubSeqProperties
<1>12. join_waiters' = [join_waiters EXCEPT ![t] = rest]
  BY <1>5, <1>11 DEF JoinCollects
<1> HIDE DEF rest, w
<1>13. join_waiters'[t] = rest /\ \A s \in Slots : s # t => join_waiters'[s] = join_waiters[s]
  BY <1>2, <1>4, <1>12
<1>14. JoinsExact'
  <2>1. \A s \in Slots : Cardinality(Joiners(s)') = Len(join_waiters'[s])
    BY <1>9, <1>10, <1>11, <1>13 DEF TablesInv, JoinsExact
  <2>2. ASSUME NEW s \in Slots, state'[s] # "Exited", NEW x \in Range(join_waiters'[s])
        PROVE  state'[x] = "Blocked" /\ x \in Joiners(s)'
    <3>1. s # t
      BY <1>5, <2>2
    <3> QED BY <1>9, <1>13, <2>2, <3>1 DEF TablesInv, JoinsExact
  <2>3. \A s \in Slots : \A x \in Joiners(s)' : state'[x] = "Blocked" \/ state'[s] = "Exited"
    BY <1>5, <1>9 DEF TablesInv, JoinsExact
  <2>4. \A x \in Slots : state'[x] = "Exited" => ~ Joining(x)'
    BY <1>7 DEF TablesInv, JoinsExact, Joining
  <2> QED BY <2>1, <2>2, <2>3, <2>4 DEF JoinsExact
<1>15. IdleAlive'
  BY <1>1, <1>3, <1>7, SlotFacts DEF TablesInv, IdleAlive
<1> QED BY <1>8, <1>14, <1>15 DEF TablesInv

\* sleep() and futex_wait() write the caller, which is in no table, into a free
\* entry.
LEMMA WaitKeepsTables ==
  ASSUME TypeOK, QueueInv, TablesInv, InUser, NEW c, c.op \in {"sleep", "futex"},
         Block(c), UNCHANGED join_waiters, NEW i,
         c.op = "sleep" =>
           /\ UNCHANGED futexWaiters /\ DOMAIN sleepers' = DOMAIN sleepers
           /\ i \in DOMAIN sleepers /\ sleepers[i].thread = NO_THREAD
           /\ sleepers'[i].thread = current
           /\ \A k \in DOMAIN sleepers : k # i => sleepers'[k] = sleepers[k],
         c.op = "futex" =>
           /\ UNCHANGED sleepers /\ DOMAIN futexWaiters' = DOMAIN futexWaiters
           /\ i \in DOMAIN futexWaiters /\ futexWaiters[i].thread = NO_THREAD
           /\ futexWaiters'[i].thread = current
           /\ \A k \in DOMAIN futexWaiters : k # i => futexWaiters'[k] = futexWaiters[k]
  PROVE  TablesInv'
<1>1. PICK me : me = current
  OBVIOUS
<1>2. /\ me \in Slots /\ me # IDLE_THREAD /\ current' \in Slots /\ current # NO_THREAD
      /\ state[me] = "Running" /\ parked[me].op = "user"
      /\ parked' = [parked EXCEPT ![me] = c]
      /\ \A x \in Slots : state'[x] = "Blocked" <=> state[x] = "Blocked" \/ x = me
      /\ \A x \in Slots : state'[x] = "Exited" <=> state[x] = "Exited"
  BY <1>1, BlockStatus, SlotFacts DEF TablesInv
<1>3. parked'[me] = c /\ \A x \in Slots : x # me => parked'[x] = parked[x]
  BY <1>2 DEF TypeOK, ThreadsTypeOK
<1>4. JoinsExact'
  <2>1. \A x \in Slots : \/ parked'[x] = parked[x]
                         \/ parked'[x].op \notin {"join", "wait"} /\ ~ Joining(x)
    BY <1>2, <1>3 DEF Joining
  <2> QED BY <1>2, <2>1, JoinsFrame DEF TablesInv
<1>5. IdleAlive'
  BY <1>2, <1>3, SlotFacts DEF TablesInv, IdleAlive
<1>6. /\ \A k \in DOMAIN sleepers :
           sleepers[k].thread # NO_THREAD => sleepers[k].thread \in Slots \ {me}
      /\ \A k \in DOMAIN futexWaiters :
           futexWaiters[k].thread # NO_THREAD => futexWaiters[k].thread \in Slots \ {me}
  BY <1>2 DEF TypeOK, TablesInv, SleepersExact, FutexWaitersExact
<1>7. CASE c.op = "sleep"
  <2>1. /\ UNCHANGED futexWaiters /\ DOMAIN sleepers' = DOMAIN sleepers
        /\ i \in DOMAIN sleepers /\ sleepers[i].thread = NO_THREAD /\ sleepers'[i].thread = me
        /\ \A k \in DOMAIN sleepers : k # i => sleepers'[k] = sleepers[k]
    BY <1>1, <1>7
  <2>2. FutexWaitersExact'
    BY <1>2, <1>3, <2>1, FutexFrame DEF TablesInv
  <2>3. SleepersExact'
    BY <1>2, <1>3, <1>6, <1>7, <2>1 DEF TablesInv, SleepersExact
  <2> QED BY <1>4, <1>5, <2>2, <2>3 DEF TablesInv
<1>8. CASE c.op = "futex"
  <2>1. /\ UNCHANGED sleepers /\ DOMAIN futexWaiters' = DOMAIN futexWaiters
        /\ i \in DOMAIN futexWaiters /\ futexWaiters[i].thread = NO_THREAD
        /\ futexWaiters'[i].thread = me
        /\ \A k \in DOMAIN futexWaiters : k # i => futexWaiters'[k] = futexWaiters[k]
    BY <1>1, <1>8
  <2>2. SleepersExact'
    BY <1>2, <1>3, <2>1, SleepersFrame DEF TablesInv
  <2>3. FutexWaitersExact'
    BY <1>2, <1>3, <1>6, <1>8, <2>1 DEF TablesInv, FutexWaitersExact
  <2> QED BY <1>4, <1>5, <2>2, <2>3 DEF TablesInv
<1> QED BY <1>7, <1>8

\* A wake pass over the threads of the entries it clears.
LEMMA WakeKeepsTables ==
  ASSUME TypeOK, TablesInv, current \in Slots, NEW f, WakeAll(f), UNCHANGED join_waiters,
         \A t \in Slots : t # IDLE_THREAD => parked'[t] = parked[t],
         parked'[IDLE_THREAD].op \in {"start", "halt", "woken"},
         \A t \in Slots : t \in Range(f) => ~ Joining(t),
         DOMAIN sleepers' = DOMAIN sleepers, DOMAIN futexWaiters' = DOMAIN futexWaiters,
         \A i \in DOMAIN sleepers : sleepers'[i].thread # NO_THREAD =>
           sleepers'[i].thread = sleepers[i].thread /\ sleepers[i].thread \notin Range(f),
         \A i \in DOMAIN futexWaiters : futexWaiters'[i].thread # NO_THREAD =>
           /\ futexWaiters'[i].thread = futexWaiters[i].thread
           /\ futexWaiters[i].thread \notin Range(f)
  PROVE  TablesInv'
<1>1. state' = AfterWake(f, state) /\ current' = current
  BY DEF WakeAll
<1>2. \A t \in Slots : /\ state'[t] = "Blocked" <=> state[t] = "Blocked" /\ t \notin Range(f)
                       /\ state'[t] = "Exited" <=> state[t] = "Exited"
  BY <1>1, WakeEffect
<1>3. parked[IDLE_THREAD].op \in {"start", "halt", "woken"} /\ IDLE_THREAD \in Slots
  BY SlotFacts DEF TablesInv, IdleAlive
<1>4. JoinsExact'
  <2>1. \A t \in Slots : \/ parked'[t] = parked[t]
                         \/ parked'[t].op \notin {"join", "wait"} /\ ~ Joining(t)
    BY <1>3 DEF Joining
  <2> QED BY <1>2, <2>1, JoinsFrame DEF TablesInv
<1>5. IdleAlive'
  BY <1>1, <1>2, <1>3, SlotFacts DEF TablesInv, IdleAlive
<1>6. /\ \A i \in DOMAIN sleepers :
           sleepers[i].thread # NO_THREAD => sleepers[i].thread \in Slots \ {IDLE_THREAD}
      /\ \A i \in DOMAIN futexWaiters :
           futexWaiters[i].thread # NO_THREAD => futexWaiters[i].thread \in Slots \ {IDLE_THREAD}
  BY <1>3 DEF TypeOK, TablesInv, SleepersExact, FutexWaitersExact
<1>7. SleepersExact'
  BY <1>2, <1>6 DEF TablesInv, SleepersExact
<1>8. FutexWaitersExact'
  BY <1>2, <1>6 DEF TablesInv, FutexWaitersExact
<1> QED BY <1>4, <1>5, <1>7, <1>8 DEF TablesInv

\* The threads the timer and a futex wake find in the entries they clear.
LEMMA ExpiredEntries ==
  ASSUME TypeOK, NEW t
  PROVE  t \in Range(ExpiredThreads) <=>
           \/ \E i \in Expired(sleepers) : sleepers[i].thread = t
           \/ \E i \in Expired(futexWaiters) : futexWaiters[i].thread = t
<1>1. Expired(sleepers) \subseteq 1 .. MaxSleepers /\ Expired(futexWaiters) \subseteq Nat \ {0}
  BY KernelAssumption DEF Expired, TypeOK
<1>2. \A i \in Expired(sleepers) :
        i \in DOMAIN ExpiredThreads /\ ExpiredThreads[i] = sleepers[i].thread
  BY <1>1, KernelAssumption DEF ExpiredThreads
<1>3. \A i \in Expired(futexWaiters) :
        /\ MaxSleepers + i \in DOMAIN ExpiredThreads
        /\ ExpiredThreads[MaxSleepers + i] = futexWaiters[i].thread
  <2> SUFFICES ASSUME NEW i \in Expired(futexWaiters)
               PROVE  /\ MaxSleepers + i \in DOMAIN ExpiredThreads
                      /\ ExpiredThreads[MaxSleepers + i] = futexWaiters[i].thread
    OBVIOUS
  <2>1. /\ MaxSleepers + i \in DOMAIN ExpiredThreads /\ ~ (MaxSleepers + i <= MaxSleepers)
        /\ (MaxSleepers + i) - MaxSleepers = i
    BY <1>1, KernelAssumption DEF ExpiredThreads
  <2> QED BY <2>1 DEF ExpiredThreads
<1>4. \A k \in DOMAIN ExpiredThreads :
        k \in Expired(sleepers) \/ \E i \in Expired(futexWaiters) : k = MaxSleepers + i
  BY DEF ExpiredThreads
<1>5. Range(ExpiredThreads) = {ExpiredThreads[k] : k \in DOMAIN ExpiredThreads}
  BY DEF Range
<1> HIDE DEF ExpiredThreads
<1>6. ASSUME NEW k \in DOMAIN ExpiredThreads, ExpiredThreads[k] = t
      PROVE  \/ \E i \in Expired(sleepers) : sleepers[i].thread = t
             \/ \E i \in Expired(futexWaiters) : futexWaiters[i].thread = t
  BY <1>2, <1>3, <1>4, <1>6
<1> QED BY <1>2, <1>3, <1>5, <1>6

\* Without terminate_process() every step keeps the tables exact.
LEMMA TablesStep ==
  ASSUME TypeOK, JoinInv, QueueInv, TablesInv, [Next]_vars, "terminate" \notin Syscalls
  PROVE  TablesInv'
<1> USE DEF tableVars, queueVars, processVars
<1>s. /\ ThreadsTypeOK /\ state \in [Slots -> ThreadState]
      /\ runQueue \in Seq(Slots) /\ Len(runQueue) <= MaxThreads
      /\ parked \in [Slots -> Continuations] /\ IDLE_THREAD \in Slots
  BY SlotFacts DEF TypeOK, ThreadsTypeOK
<1>u. InUser => /\ current \in Slots /\ current # IDLE_THREAD /\ current # NO_THREAD
                /\ state[current] = "Running" /\ parked[current].op = "user"
  BY SlotFacts DEF InUser, QueueInv
<1>i. /\ parked[IDLE_THREAD].op \in {"start", "halt", "woken"} /\ ~ Joining(IDLE_THREAD)
      /\ state[IDLE_THREAD] # "Blocked"
      /\ current # NO_THREAD => state[IDLE_THREAD] # "Exited"
  BY DEF TablesInv, IdleAlive, Joining
<1>f. ASSUME current \in Slots,
             UNCHANGED <<state, current, parked, join_waiters, sleepers, futexWaiters>>
      PROVE  TablesInv'
  BY <1>f, <1>i, TablesFrame
<1>1. CASE Start /\ UNCHANGED waitVars
  <2> DEFINE q == Enqueue(runQueue, <<IDLE_THREAD>>)
             st == [state EXCEPT ![IDLE_THREAD] = "Ready"]
  <2>1. /\ current = NO_THREAD /\ current' = NextReady(q, st)
        /\ state' = [st EXCEPT ![NextReady(q, st)] = "Running"]
        /\ UNCHANGED <<parked, join_waiters, sleepers, futexWaiters>>
    BY <1>1 DEF Start, waitVars
  <2>2. /\ st \in [Slots -> ThreadState]
        /\ \A x \in Slots : st[x] = "Ready" <=> state[x] = "Ready" \/ x = IDLE_THREAD
        /\ st[IDLE_THREAD] = "Ready" /\ \A x \in Slots : x # IDLE_THREAD => st[x] = state[x]
    BY <1>s DEF ThreadState
  <2>3. state[IDLE_THREAD] = "Exited"
    BY <2>1 DEF QueueInv
  <2> HIDE DEF st
  <2>4. q \in Seq(Slots) /\ Len(q) <= MaxThreads /\ QueueExact(q, st)
    BY <1>s, <2>2, <2>3, AddOneExact DEF QueueInv
  <2> HIDE DEF q
  <2>5. current' \in Slots /\ st[current'] = "Ready"
    BY <2>1, <2>2, <2>4, NextIsReady
  <2>6. \A x \in Slots : /\ state'[x] = "Blocked" <=> state[x] = "Blocked"
                         /\ state'[x] = "Exited" => state[x] = "Exited"
                         /\ x # IDLE_THREAD => (state'[x] = "Exited" <=> state[x] = "Exited")
    BY <1>i, <2>1, <2>2, <2>5
  <2>7. SleepersExact' /\ FutexWaitersExact'
    BY <2>1, <2>6, SleepersFrame, FutexFrame DEF TablesInv
  <2>8. \A s \in Slots : Joiners(s) = {} /\ join_waiters[s] = <<>> /\ Joiners(s)' = {}
    BY <2>1 DEF TablesInv, IdleAlive, Joiners
  <2>9. JoinsExact'
    <3>1. Len(<<>>) = 0 /\ Range(<<>>) = {} /\ Cardinality({}) = 0
      BY FS_EmptySet DEF Range
    <3>2. \A s \in Slots : join_waiters'[s] = <<>>
      BY <2>1, <2>8
    <3>3. \A t \in Slots : state'[t] = "Exited" => ~ Joining(t)'
      BY <2>1, <2>6 DEF TablesInv, JoinsExact, Joining
    <3> QED BY <2>8, <3>1, <3>2, <3>3 DEF JoinsExact
  <2>10. IdleAlive'
    <3>1. state'[IDLE_THREAD] \notin {"Blocked", "Exited"}
      BY <1>s, <2>1, <2>2, <2>5
    <3> QED BY <1>i, <2>1, <2>5, <3>1, SlotFacts DEF IdleAlive
  <2> QED BY <2>7, <2>9, <2>10 DEF TablesInv
<1>2. CASE Yield /\ UNCHANGED waitVars
  <2> DEFINE q == Enqueue(runQueue, <<current>>)
             st == [state EXCEPT ![current] = "Ready"]
  <2>1. /\ Schedule(q, st) /\ InUser
        /\ UNCHANGED <<parked, join_waiters, sleepers, futexWaiters>>
    BY <1>2 DEF Yield, waitVars
  <2>2. /\ st \in [Slots -> ThreadState]
        /\ \A x \in Slots : /\ st[x] = "Ready" <=> state[x] = "Ready" \/ x = current
                            /\ st[x] = "Blocked" <=> state[x] = "Blocked"
                            /\ st[x] = "Exited" <=> state[x] = "Exited"
    BY <1>s, <1>u, <2>1 DEF ThreadState
  <2> HIDE DEF st
  <2>3. q \in Seq(Slots) /\ Len(q) <= MaxThreads /\ QueueExact(q, st)
    BY <1>s, <1>u, <2>1, <2>2, AddOneExact DEF QueueInv
  <2> HIDE DEF q
  <2>4. st[IDLE_THREAD] \notin {"Blocked", "Exited"}
    BY <1>s, <1>u, <1>i, <2>1, <2>2
  <2>5. /\ current' \in Slots
        /\ \A t \in Slots : state'[t] = "Blocked" <=> st[t] = "Blocked"
        /\ \A t \in Slots : state'[t] = "Exited" <=> st[t] = "Exited"
    BY <1>s, <2>1, <2>2, <2>3, <2>4, DispatchStatus
  <2> QED BY <1>u, <1>i, <2>1, <2>2, <2>5, TablesFrame
<1>3. CASE IdleYield /\ UNCHANGED waitVars
  <2>1. /\ Schedule(runQueue, state) /\ current = IDLE_THREAD /\ current # NO_THREAD
        /\ UNCHANGED <<join_waiters, sleepers, futexWaiters>>
        /\ parked' = [parked EXCEPT ![IDLE_THREAD].op = "halt"]
    BY <1>3, SlotFacts DEF IdleYield, waitVars
  <2>2. /\ parked'[IDLE_THREAD].op = "halt"
        /\ \A t \in Slots : t # IDLE_THREAD => parked'[t] = parked[t]
    BY <1>s, <2>1 DEF Continuations
  <2>3. /\ current' \in Slots
        /\ \A t \in Slots : state'[t] = "Blocked" <=> state[t] = "Blocked"
        /\ \A t \in Slots : state'[t] = "Exited" <=> state[t] = "Exited"
    BY <1>s, <1>i, <2>1, DispatchStatus DEF QueueInv
  <2> QED BY <1>s, <1>i, <2>1, <2>2, <2>3, TablesFrame
<1>4. ASSUME FreeSlots # {}
      PROVE  /\ Min(FreeSlots) \in UserSlots /\ state[Min(FreeSlots)] = "Exited"
             /\ reapable[Min(FreeSlots)]
  BY <1>4, MinIsLeast, SlotFacts DEF FreeSlots
<1>5. CASE (ThreadCreate \/ ProcessSpawn) /\ UNCHANGED waitVars
  BY <1>4, <1>5, <1>u, SpawnKeepsTables DEF ThreadCreate, ProcessSpawn
<1>6. CASE ProcessSpawnFails /\ UNCHANGED waitVars
  BY <1>f, <1>u, <1>6 DEF ProcessSpawnFails, waitVars
<1>7. CASE Exit /\ UNCHANGED waitVars
  BY <1>7, ExitKeepsTables
<1>8. ASSUME NEW t \in Slots, Join(t), UNCHANGED waitVars PROVE TablesInv'
  <2>1. InUser /\ t # current
    BY <1>8 DEF Join
  <2>2. CASE UNCHANGED <<process, join_waiters, parked, queueVars, processVars>>
    BY <1>f, <1>u, <1>8, <2>1, <2>2 DEF waitVars
  <2>3. CASE JoinBlocks(t, Continuation("join", t, NoProcess))
    <3>1. /\ Continuation("join", t, NoProcess) \in Continuations
          /\ Continuation("join", t, NoProcess).op = "join"
          /\ Continuation("join", t, NoProcess).thread = t
      BY ContinuationTypes DEF Continuation
    <3> QED BY <1>8, <2>1, <2>3, <3>1, JoinKeepsTables
  <2> QED BY <1>8, <2>2, <2>3 DEF Join
<1>9. CASE JoinReturn /\ UNCHANGED waitVars
  <2>1. PICK t : t = parked[current].thread
    OBVIOUS
  <2>2. /\ Returning("join") /\ UNCHANGED <<state, current, waitVars>>
        /\ \/ JoinCollects(t)
           \/ state[t] # "Exited" /\ UNCHANGED <<reapable, join_waiters>>
    BY <1>9, <2>1 DEF JoinReturn
  <2> QED BY <2>1, <2>2, CollectKeepsTables
<1>10. CASE WaitReturn /\ UNCHANGED waitVars
  <2>1. PICK t : t = parked[current].thread
    OBVIOUS
  <2>2. /\ Returning("wait") /\ UNCHANGED <<state, current, waitVars>>
        /\ \/ JoinCollects(t)
           \/ state[t] # "Exited" /\ UNCHANGED <<reapable, join_waiters>>
    BY <1>10, <2>1 DEF WaitReturn
  <2> QED BY <2>1, <2>2, CollectKeepsTables
<1>11. ASSUME NEW p \in Pids, InUser, ReapExited(p), UNCHANGED waitVars PROVE TablesInv'
  BY <1>f, <1>u, <1>11 DEF ReapExited, waitVars
<1>12. ASSUME NEW p \in Pids, WaitProcess(p), UNCHANGED waitVars PROVE TablesInv'
  <2>1. InUser /\ IsChild(p)
    BY <1>12 DEF WaitProcess
  <2>2. PICK t : t = processes[p].main_thread
    OBVIOUS
  <2>3. t \in Slots
    BY <1>s, <2>1, <2>2 DEF IsChild, ThreadsTypeOK, ProcessRecords, EMPTY
  <2>4. CASE ReapExited(p)
    BY <1>11, <1>12, <2>1, <2>4
  <2>5. CASE t # current /\ JoinBlocks(t, Continuation("wait", t, p))
    <3>1. /\ Continuation("wait", t, p) \in Continuations
          /\ Continuation("wait", t, p).op = "wait" /\ Continuation("wait", t, p).thread = t
      BY <2>3, ContinuationTypes DEF Continuation
    <3> QED BY <1>12, <2>1, <2>3, <2>5, <3>1, JoinKeepsTables
  <2> QED BY <1>12, <2>2, <2>4, <2>5 DEF WaitProcess
<1>13. ASSUME NEW p \in Pids, TryWaitProcess(p), UNCHANGED waitVars PROVE TablesInv'
  BY <1>11, <1>13 DEF TryWaitProcess
<1>14. CASE ReapAnyChild /\ UNCHANGED waitVars
  <2>1. Min(ExitedChildren) \in ExitedChildren
    BY <1>14, MinIsLeast, SlotFacts DEF ReapAnyChild, ExitedChildren
  <2> QED BY <2>1, <1>11, <1>14 DEF ReapAnyChild, ExitedChildren
<1>15. ASSUME NEW p \in Pids, TerminateProcess(p) PROVE TablesInv'
  BY <1>15 DEF TerminateProcess
<1>16. CASE SleepReturn
  <2>1. /\ current \in Slots /\ current # IDLE_THREAD /\ state[current] = "Running"
        /\ parked[current].op \in {"sleep", "futex"}
        /\ parked' = [parked EXCEPT ![current] = ReturnToUser]
        /\ UNCHANGED <<state, current, join_waiters, sleepers, futexWaiters>>
    BY <1>16, SlotFacts DEF SleepReturn, Returning, QueueInv, waitVars
  <2>2. \A t \in Slots : \/ parked'[t] = parked[t]
                         \/ /\ parked'[t].op \notin {"join", "wait"} /\ ~ Joining(t)
                            /\ state[t] # "Blocked"
    BY <1>s, <2>1 DEF ReturnToUser, Continuation, Joining
  <2>3. parked'[IDLE_THREAD] = parked[IDLE_THREAD]
    BY <1>s, <2>1
  <2> QED BY <1>i, <2>1, <2>2, <2>3, TablesFrame
<1>17. ASSUME NEW ms \in 1 .. MaxDelay, Sleep(ms) PROVE TablesInv'
  <2>1. PICK c, i, e : /\ c = Continuation("sleep", NO_THREAD, NoProcess)
                       /\ i = Min(FreeEntries(sleepers))
                       /\ e = [thread |-> current, left |-> Ticks(ms), owed |-> ms]
    OBVIOUS
  <2>2. /\ Block(c) /\ InUser /\ UNCHANGED <<join_waiters, futexWaiters>>
        /\ sleepers' = [sleepers EXCEPT ![i] = e] /\ FreeEntries(sleepers) # {}
    BY <1>17, <2>1 DEF Sleep
  <2>3. i \in DOMAIN sleepers /\ sleepers[i].thread = NO_THREAD
    BY <2>1, <2>2, FreeEntryFacts
  <2>4. c.op = "sleep" /\ c.op \in {"sleep", "futex"} /\ e.thread = current
    BY <2>1 DEF Continuation
  <2>5. Block(c) /\ InUser /\ UNCHANGED join_waiters
    BY <2>2
  <2>6. c.op = "sleep" =>
           /\ UNCHANGED futexWaiters /\ DOMAIN sleepers' = DOMAIN sleepers
           /\ i \in DOMAIN sleepers /\ sleepers[i].thread = NO_THREAD
           /\ sleepers'[i].thread = current
           /\ \A k \in DOMAIN sleepers : k # i => sleepers'[k] = sleepers[k]
    BY <2>2, <2>3, <2>4
  <2>7. c.op # "futex"
    BY <2>4
  <2> QED BY <2>4, <2>5, <2>6, <2>7, WaitKeepsTables
<1>18. ASSUME NEW a \in Addresses, NEW d \in Timeouts, FutexWait(a, d) PROVE TablesInv'
  <2>1. PICK c, i, e : /\ c = Continuation("futex", NO_THREAD, NoProcess)
                       /\ i = Min(FreeEntries(futexWaiters))
                       /\ e = [thread |-> current, address |-> a, left |-> d]
    OBVIOUS
  <2>2. /\ Block(c) /\ InUser /\ UNCHANGED <<join_waiters, sleepers>>
        /\ futexWaiters' = [futexWaiters EXCEPT ![i] = e] /\ FreeEntries(futexWaiters) # {}
    BY <1>18, <2>1 DEF FutexWait
  <2>3. i \in DOMAIN futexWaiters /\ futexWaiters[i].thread = NO_THREAD
    BY <2>1, <2>2, FreeEntryFacts
  <2>4. c.op = "futex" /\ c.op \in {"sleep", "futex"} /\ e.thread = current
    BY <2>1 DEF Continuation
  <2>5. Block(c) /\ InUser /\ UNCHANGED join_waiters
    BY <2>2
  <2>6. c.op = "futex" =>
           /\ UNCHANGED sleepers /\ DOMAIN futexWaiters' = DOMAIN futexWaiters
           /\ i \in DOMAIN futexWaiters /\ futexWaiters[i].thread = NO_THREAD
           /\ futexWaiters'[i].thread = current
           /\ \A k \in DOMAIN futexWaiters : k # i => futexWaiters'[k] = futexWaiters[k]
    BY <2>2, <2>3, <2>4
  <2>7. c.op # "sleep"
    BY <2>4
  <2> QED BY <2>4, <2>5, <2>6, <2>7, WaitKeepsTables
<1>19. ASSUME NEW a \in Addresses, NEW n \in 1 .. MaxFutexWaiters, FutexWake(a, n)
       PROVE  TablesInv'
  <2>1. PICK cleared : cleared = FutexCleared(a, n)
    OBVIOUS
  <2>2. PICK f : f = [i \in cleared |-> futexWaiters[i].thread]
    OBVIOUS
  <2>3. /\ WakeAll(f) /\ InUser /\ UNCHANGED <<join_waiters, parked, sleepers>>
        /\ futexWaiters' = [i \in DOMAIN futexWaiters |->
                              IF i \in cleared THEN NoFutexWaiter ELSE futexWaiters[i]]
    BY <1>19, <2>1, <2>2 DEF FutexWake
  <2>4. \A i \in cleared : i \in DOMAIN futexWaiters /\ futexWaiters[i].thread # NO_THREAD
    BY <2>1 DEF FutexCleared, FutexMatches
  <2>5. \A t : t \in Range(f) <=> \E i \in cleared : futexWaiters[i].thread = t
    BY <2>2 DEF Range
  <2>6. \A t \in Range(f) : state[t] = "Blocked" /\ parked[t].op = "futex"
    BY <2>4, <2>5 DEF TablesInv, FutexWaitersExact
  <2>7. \A t \in Slots : t \in Range(f) => ~ Joining(t)
    BY <2>6 DEF Joining
  <2>8. \A i \in DOMAIN sleepers : sleepers'[i].thread # NO_THREAD =>
          sleepers'[i].thread = sleepers[i].thread /\ sleepers[i].thread \notin Range(f)
    BY <2>3, <2>6 DEF TablesInv, SleepersExact
  <2>9. \A i \in DOMAIN futexWaiters : futexWaiters'[i].thread # NO_THREAD =>
          /\ futexWaiters'[i].thread = futexWaiters[i].thread
          /\ futexWaiters[i].thread \notin Range(f)
    BY <2>3, <2>4, <2>5 DEF TablesInv, FutexWaitersExact, NoFutexWaiter
  <2>10. DOMAIN futexWaiters' = DOMAIN futexWaiters
    BY <2>3
  <2> QED BY <1>u, <1>i, <2>3, <2>7, <2>8, <2>9, <2>10, WakeKeepsTables
<1>20. ASSUME Interruptible, parked' = AfterInterrupt
       PROVE  /\ current \in Slots /\ \A t \in Slots : t # IDLE_THREAD => parked'[t] = parked[t]
              /\ parked'[IDLE_THREAD].op \in {"start", "halt", "woken"}
  <2>1. current \in Slots
    BY <1>20, <1>u, <1>s DEF Interruptible
  <2>2. CASE current = IDLE_THREAD
    BY <1>20, <1>s, <2>1, <2>2 DEF AfterInterrupt, Continuations
  <2>3. CASE current # IDLE_THREAD
    BY <1>20, <1>i, <2>1, <2>3 DEF AfterInterrupt
  <2> QED BY <2>2, <2>3
<1>21. CASE Tick
  <2>1. PICK f : f = ExpiredThreads
    OBVIOUS
  <2>2. /\ WakeAll(f) /\ UNCHANGED join_waiters /\ parked' = AfterInterrupt /\ Interruptible
        /\ sleepers' = Elapsed(Advanced(sleepers, NoSleeper))
        /\ futexWaiters' = Advanced(futexWaiters, NoFutexWaiter)
    BY <1>21, <2>1 DEF Tick
  <2>3. \A t : t \in Range(f) <=> \/ \E i \in Expired(sleepers) : sleepers[i].thread = t
                                  \/ \E i \in Expired(futexWaiters) : futexWaiters[i].thread = t
    BY <2>1, ExpiredEntries
  <2>4. /\ \A i \in Expired(sleepers) : i \in DOMAIN sleepers /\ sleepers[i].thread # NO_THREAD
        /\ \A i \in Expired(futexWaiters) :
             i \in DOMAIN futexWaiters /\ futexWaiters[i].thread # NO_THREAD
    BY DEF Expired
  <2>5. \A t \in Slots : t \in Range(f) => ~ Joining(t)
    BY <2>3, <2>4 DEF TablesInv, SleepersExact, FutexWaitersExact, Joining
  <2>6. /\ DOMAIN sleepers' = DOMAIN sleepers
        /\ \A i \in DOMAIN sleepers :
             sleepers'[i].thread = IF i \in Expired(sleepers) THEN NO_THREAD ELSE sleepers[i].thread
    BY <2>2, TickedSleepers DEF TypeOK
  <2>7. /\ DOMAIN futexWaiters' = DOMAIN futexWaiters
        /\ \A i \in DOMAIN futexWaiters :
             futexWaiters'[i].thread =
               IF i \in Expired(futexWaiters) THEN NO_THREAD ELSE futexWaiters[i].thread
    BY <2>2 DEF Advanced, NoFutexWaiter, TypeOK
  <2>8. \A i \in DOMAIN sleepers : sleepers'[i].thread # NO_THREAD =>
          sleepers'[i].thread = sleepers[i].thread /\ sleepers[i].thread \notin Range(f)
    BY <2>3, <2>4, <2>6 DEF TablesInv, SleepersExact, FutexWaitersExact
  <2>9. \A i \in DOMAIN futexWaiters : futexWaiters'[i].thread # NO_THREAD =>
          /\ futexWaiters'[i].thread = futexWaiters[i].thread
          /\ futexWaiters[i].thread \notin Range(f)
    BY <2>3, <2>4, <2>7 DEF TablesInv, SleepersExact, FutexWaitersExact
  <2> QED BY <1>20, <2>2, <2>5, <2>6, <2>7, <2>8, <2>9, WakeKeepsTables
<1>22. CASE OtherInterrupt
  <2>1. /\ UNCHANGED <<state, current, join_waiters, sleepers, futexWaiters>>
        /\ parked' = AfterInterrupt /\ Interruptible
    BY <1>22 DEF OtherInterrupt, waitVars
  <2>2. \A t \in Slots : \/ parked'[t] = parked[t]
                         \/ /\ parked'[t].op \notin {"join", "wait"} /\ ~ Joining(t)
                            /\ state[t] # "Blocked"
    BY <1>20, <1>i, <2>1
  <2> QED BY <1>20, <2>1, <2>2, TablesFrame
<1>23. CASE UNCHANGED vars
  BY <1>23 DEF vars, threadVars, waitVars, TablesInv, SleepersExact, FutexWaitersExact, JoinsExact,
               IdleAlive, Joiners, Joining
<1> QED
  BY <1>1, <1>2, <1>3, <1>5, <1>6, <1>7, <1>8, <1>9, <1>10, <1>12, <1>13, <1>14, <1>15,
     <1>16, <1>17, <1>18, <1>19, <1>21, <1>22, <1>23 DEF Next, ThreadsNext

-----------------------------------------------------------------------------
\* The three invariants together, for programs without terminate_process().
WaitInv == "terminate" \notin Syscalls => QueueInv /\ TablesInv

LEMMA InitTables == Init => WaitInv
<1> SUFFICES ASSUME Init PROVE QueueInv /\ TablesInv
  BY DEF WaitInv
<1>1. /\ state = [t \in Slots |-> IF t = 1 THEN "Ready" ELSE "Exited"]
      /\ runQueue = <<1>> /\ current = NO_THREAD
      /\ join_waiters = [t \in Slots |-> <<>>]
      /\ sleepers = [i \in 1 .. MaxSleepers |-> NoSleeper]
      /\ futexWaiters = [i \in 1 .. MaxFutexWaiters |-> NoFutexWaiter]
  BY DEF Init, ThreadsInit
<1>2. IsInjective(<<1>>) /\ Range(<<1>>) = {1} /\ 1 \in Slots /\ IDLE_THREAD # 1
  BY SlotFacts DEF IsInjective, Range, IDLE_THREAD
<1>3. QueueInv
  BY <1>1, <1>2, SlotFacts DEF QueueInv, QueueExact
<1>4. /\ \A t \in Slots : parked[t].op \notin {"join", "wait"}
      /\ parked[IDLE_THREAD].op = "start"
  BY SlotFacts DEF Init, ThreadsInit, ReturnToUser, Continuation
<1>5. \A s \in Slots : Joiners(s) = {} /\ join_waiters[s] = <<>>
  BY <1>1, <1>4 DEF Joiners
<1>6. SleepersExact /\ FutexWaitersExact
  BY <1>1 DEF SleepersExact, FutexWaitersExact, NoSleeper, NoFutexWaiter
<1>7. JoinsExact
  <2>1. Len(<<>>) = 0 /\ Range(<<>>) = {} /\ Cardinality({}) = 0
    BY FS_EmptySet DEF Range
  <2> QED BY <1>4, <1>5, <2>1 DEF JoinsExact, Joining
<1>8. IdleAlive
  BY <1>1, <1>2, <1>4, <1>5, SlotFacts DEF IdleAlive
<1> QED BY <1>3, <1>6, <1>7, <1>8 DEF TablesInv

LEMMA WaitStep == TypeOK /\ JoinInv /\ WaitInv /\ [Next]_vars => WaitInv'
<1> SUFFICES ASSUME TypeOK, JoinInv, WaitInv, [Next]_vars, "terminate" \notin Syscalls
             PROVE  QueueInv' /\ TablesInv'
  BY DEF WaitInv
<1>1. QueueInv /\ TablesInv
  BY DEF WaitInv
<1> QED BY <1>1, QueueStep, TablesStep

LEMMA WaitInvariant == Spec => [](TypeOK /\ WakeupInv /\ WaitInv)
<1>1. Init => WakeupInv
  BY DEF Init, ThreadsInit, WakeupInv, NoLostWakeup
<1> QED BY <1>1, InitTables, WaitStep, WakeupStep, TypeCorrect, JoinTargetsSafe, PTL DEF Spec

\* For programs without terminate_process(), SLEEPERS, FUTEX_WAITERS and the
\* join waiters name exactly the threads that are parked there, once each: no
\* entry leaks when a call ends by wake, timeout or both, and the waiter count
\* that frees a joined slot is the number of threads still to collect.
THEOREM TablesStayExact == Spec => []("terminate" \notin Syscalls => WaitTablesExact)
<1>1. TypeOK /\ WakeupInv /\ WaitInv => ("terminate" \notin Syscalls => WaitTablesExact)
  <2> SUFFICES ASSUME TypeOK, NoLostWakeup, TablesInv PROVE WaitTablesExact
    BY DEF WaitInv, WakeupInv
  <2>1. ASSUME NEW t \in Slots
        PROVE  Cardinality({i \in DOMAIN sleepers : sleepers[i].thread = t})
                 = IF state[t] = "Blocked" /\ parked[t].op = "sleep" THEN 1 ELSE 0
    <3> DEFINE at == {i \in DOMAIN sleepers : sleepers[i].thread = t}
    <3>1. t # NO_THREAD
      BY SlotFacts
    <3>2. CASE state[t] = "Blocked" /\ parked[t].op = "sleep"
      <4>1. PICK i \in DOMAIN sleepers : sleepers[i].thread = t
        BY <3>2 DEF NoLostWakeup, Registered
      <4>2. at = {i}
        BY <3>1, <4>1 DEF TablesInv, SleepersExact
      <4> QED BY <3>2, <4>2, FS_Singleton
    <3>3. CASE ~ (state[t] = "Blocked" /\ parked[t].op = "sleep")
      <4>1. at = {}
        BY <3>1, <3>3 DEF TablesInv, SleepersExact
      <4> QED BY <3>3, <4>1, FS_EmptySet
    <3> QED BY <3>2, <3>3
  <2>2. ASSUME NEW t \in Slots
        PROVE  Cardinality({i \in DOMAIN futexWaiters : futexWaiters[i].thread = t})
                 = IF state[t] = "Blocked" /\ parked[t].op = "futex" THEN 1 ELSE 0
    <3> DEFINE at == {i \in DOMAIN futexWaiters : futexWaiters[i].thread = t}
    <3>1. t # NO_THREAD
      BY SlotFacts
    <3>2. CASE state[t] = "Blocked" /\ parked[t].op = "futex"
      <4>1. PICK i \in DOMAIN futexWaiters : futexWaiters[i].thread = t
        BY <3>2 DEF NoLostWakeup, Registered
      <4>2. at = {i}
        BY <3>1, <4>1 DEF TablesInv, FutexWaitersExact
      <4> QED BY <3>2, <4>2, FS_Singleton
    <3>3. CASE ~ (state[t] = "Blocked" /\ parked[t].op = "futex")
      <4>1. at = {}
        BY <3>1, <3>3 DEF TablesInv, FutexWaitersExact
      <4> QED BY <3>3, <4>1, FS_EmptySet
    <3> QED BY <3>2, <3>3
  <2>3. \A s \in UserSlots : Cardinality(Joiners(s)) = Len(join_waiters[s])
    BY SlotFacts DEF TablesInv, JoinsExact
  <2> QED BY <2>1, <2>2, <2>3 DEF WaitTablesExact
<1> QED BY <1>1, WaitInvariant, PTL

\* Only the timer takes an entry out of SLEEPERS, and then one that is due.
LEMMA SleeperEntriesKept ==
  ASSUME TypeOK, [Next]_vars, NEW i \in DOMAIN sleepers, sleepers[i].thread # NO_THREAD,
         sleepers[i].left # 1
  PROVE  i \in DOMAIN sleepers' /\ sleepers'[i].thread = sleepers[i].thread
<1>1. CASE Tick
  BY <1>1, TickedSleepers DEF Tick, Expired, TypeOK
<1>2. ASSUME NEW ms \in 1 .. MaxDelay, Sleep(ms)
      PROVE  sleepers'[i] = sleepers[i] /\ DOMAIN sleepers' = DOMAIN sleepers
  <2>1. FreeEntries(sleepers) # {}
    BY <1>2 DEF Sleep
  <2>2. sleepers[Min(FreeEntries(sleepers))].thread = NO_THREAD
    BY <2>1, FreeEntryFacts
  <2> QED BY <1>2, <2>2 DEF Sleep, TypeOK
<1>3. CASE UNCHANGED sleepers
  BY <1>3
<1> QED
  BY <1>1, <1>2, <1>3
  DEF Next, ThreadsNext, SleepReturn, OtherInterrupt, FutexWait, FutexWake, vars, waitVars

\* What keeps a deadline in step with the time asked for: the ticks left are as
\* many as cover the milliseconds no tick has accounted for.
Covered(entry) ==
  /\ entry.left \in Nat \ {0} /\ entry.owed \in Nat \ {0}
  /\ entry.owed <= entry.left * MsPerTick
  /\ (entry.left - 1) * MsPerTick < entry.owed
DelaysCovered ==
  \A i \in DOMAIN sleepers : sleepers[i].thread # NO_THREAD => Covered(sleepers[i])

LEMMA DelayStep == TypeOK /\ DelaysCovered /\ [Next]_vars => DelaysCovered'
<1> SUFFICES ASSUME TypeOK, DelaysCovered, [Next]_vars PROVE DelaysCovered'
  OBVIOUS
<1>1. CASE Tick
  <2>1. sleepers' = Elapsed(Advanced(sleepers, NoSleeper))
    BY <1>1 DEF Tick
  <2>2. /\ DOMAIN sleepers = 1 .. MaxSleepers /\ DOMAIN sleepers' = 1 .. MaxSleepers
        /\ MsPerTick \in Nat \ {0}
    BY <2>1, TickedSleepers, KernelAssumption DEF TypeOK
  <2>3. ASSUME NEW i \in 1 .. MaxSleepers, sleepers'[i].thread # NO_THREAD
        PROVE  Covered(sleepers'[i])
    <3>1. PICK l, o, m : l = sleepers[i].left /\ o = sleepers[i].owed /\ m = MsPerTick
      OBVIOUS
    <3>2. i \notin Expired(sleepers) /\ sleepers[i].thread # NO_THREAD
      BY <2>1, <2>3, TickedSleepers
    <3>3. /\ sleepers'[i].left = IF l > 1 THEN l - 1 ELSE l
          /\ sleepers'[i].owed = IF o > m THEN o - m ELSE 0
      BY <2>1, <3>1, <3>2, TickedSleepers
    <3>4. l \in Nat \ {0} /\ l # 1
      BY <2>2, <3>1, <3>2 DEF DelaysCovered, Covered, Expired
    <3>5. m \in Nat \ {0} /\ o \in Nat /\ o <= l * m /\ (l - 1) * m < o
      BY <2>2, <3>1, <3>2 DEF DelaysCovered, Covered
    <3>6. (l - 1) * m = l * m - m /\ ((l - 1) - 1) * m = (l - 1) * m - m /\ m <= (l - 1) * m
      <4>1. PICK k \in Nat : l = k + 2
        <5>1. l - 2 \in Nat /\ l = (l - 2) + 2
          BY <3>4
        <5> QED BY <5>1
      <4>2. k * m \in Nat /\ (k + 1) * m = k * m + m /\ (k + 2) * m = k * m + m + m
        BY <3>5
      <4> QED BY <3>5, <4>1, <4>2
    <3>7. o > m /\ o - m <= (l - 1) * m /\ ((l - 1) - 1) * m < o - m
      BY <3>4, <3>5, <3>6
    <3>8. sleepers'[i].left = l - 1 /\ sleepers'[i].owed = o - m
      BY <3>3, <3>4, <3>7
    <3> QED BY <3>1, <3>4, <3>5, <3>7, <3>8 DEF Covered
  <2> QED BY <2>2, <2>3 DEF DelaysCovered
<1>2. ASSUME NEW ms \in 1 .. MaxDelay, Sleep(ms) PROVE DelaysCovered'
  <2>1. PICK i, e : /\ i = Min(FreeEntries(sleepers))
                    /\ e = [thread |-> current, left |-> Ticks(ms), owed |-> ms]
    OBVIOUS
  <2>2. sleepers' = [sleepers EXCEPT ![i] = e]
    BY <1>2, <2>1 DEF Sleep
  <2>3. ms \in Nat \ {0}
    BY KernelAssumption
  <2>4. Covered(e)
    BY <2>1, <2>3, TicksCover DEF Covered
  <2> QED BY <2>2, <2>4 DEF DelaysCovered, TypeOK
<1>3. CASE UNCHANGED sleepers
  BY <1>3 DEF DelaysCovered
<1> QED
  BY <1>1, <1>2, <1>3
  DEF Next, ThreadsNext, SleepReturn, OtherInterrupt, FutexWait, FutexWake, vars, waitVars

\* For programs without terminate_process(), a sleeping thread is made runnable
\* only by the timer interrupt that accounts for the last of the milliseconds it
\* asked for: the rounding to ticks neither cuts a sleep short nor adds a tick,
\* and no exit, join, futex wake, thread creation or context switch ends it.
THEOREM SleepIsNotCutShort == "terminate" \notin Syscalls => (Spec => SleepsFullTime)
<1> SUFFICES ASSUME "terminate" \notin Syscalls PROVE Spec => SleepsFullTime
  OBVIOUS
<1> DEFINE FullTime ==
      \A t \in Slots :
        state[t] = "Blocked" /\ parked[t].op = "sleep" /\ state'[t] # "Blocked"
          => \E i \in DOMAIN sleepers :
               sleepers[i].thread = t /\ sleepers[i].owed \in 1 .. MsPerTick
<1>1. TypeOK /\ DelaysCovered /\ WakeupInv /\ WaitInv' /\ [Next]_vars => [FullTime]_vars
  <2> SUFFICES ASSUME TypeOK, DelaysCovered, NoLostWakeup, TablesInv', [Next]_vars,
                      NEW t \in Slots, state[t] = "Blocked", parked[t].op = "sleep",
                      state'[t] # "Blocked"
               PROVE  \E i \in DOMAIN sleepers :
                        sleepers[i].thread = t /\ sleepers[i].owed \in 1 .. MsPerTick
    BY DEF WaitInv, WakeupInv
  <2>1. PICK i \in DOMAIN sleepers : sleepers[i].thread = t
    BY DEF NoLostWakeup, Registered
  <2>2. t # NO_THREAD
    BY SlotFacts
  <2>3. CASE sleepers[i].left # 1
    <3>1. i \in DOMAIN sleepers' /\ sleepers'[i].thread = t
      BY <2>1, <2>2, <2>3, SleeperEntriesKept
    <3> QED BY <2>2, <3>1 DEF TablesInv, SleepersExact
  <2>4. CASE sleepers[i].left = 1
    BY <2>1, <2>2, <2>4, KernelAssumption DEF DelaysCovered, Covered
  <2> QED BY <2>1, <2>3, <2>4
<1>2. Init => DelaysCovered
  BY DEF Init, NoSleeper, DelaysCovered
<1> QED BY <1>1, <1>2, DelayStep, WaitInvariant, PTL DEF Spec, SleepsFullTime
=============================================================================
