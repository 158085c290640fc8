------------------------------ MODULE Threads ------------------------------
(***************************************************************************)
(* The thread table, the run queue and the process table of the kernel     *)
(* (kernel-core/src/threads.rs), together with the part of user.rs::spawn  *)
(* that changes them.                                                      *)
(*                                                                         *)
(* The kernel runs on one CPU and is cooperative.  A syscall executes with *)
(* interrupts masked, so it is atomic until it calls the scheduler; there  *)
(* the kernel stack of the caller is parked and another thread continues.  *)
(* `parked' records where a parked kernel stack continues: "user" returns  *)
(* straight to user mode, the other values are the code after the          *)
(* block_current() call of join, wait_process, sleep and futex_wait.  A    *)
(* thread that is dispatched with such a continuation runs it before       *)
(* anything else happens (the "...Return" actions).                        *)
(***************************************************************************)
EXTENDS Integers, FiniteSets, Sequences, FiniteSetsExt, Functions

CONSTANTS
  MaxThreads,      \* MAX_THREADS, slots of THREADS and of RUN_QUEUE
  MaxProcesses,    \* MAX_PROCESSES, slots of PROCESSES
  MaxRoots,        \* physical frames available for page-table roots
  Syscalls         \* the system calls the user programs of a model issue

SyscallNames == {"yield", "exit", "thread_create", "join", "sleep", "futex",
                 "process_spawn", "spawn_failure", "wait", "try_wait", "reap",
                 "terminate"}

ASSUME ThreadsAssumption ==
  /\ MaxThreads \in Nat /\ MaxThreads >= 2
  /\ MaxProcesses \in Nat /\ MaxProcesses >= 1
  /\ MaxRoots \in Nat /\ MaxRoots >= 1
  /\ Syscalls \subseteq SyscallNames

IDLE_THREAD == 0
NO_THREAD == MaxThreads
USER_PROCESS_ID == 1
NoProcess == 0

Slots == 0 .. (MaxThreads - 1)
UserSlots == 1 .. (MaxThreads - 1)
Pids == 1 .. MaxProcesses
Roots == 1 .. MaxRoots

ThreadState == {"Ready", "Running", "Blocked", "Exited"}

VARIABLES
  state,         \* Thread.state
  process,       \* Thread.process, NoProcess for the idle thread
  reapable,      \* Thread.reapable
  join_waiters,  \* the first join_waiter_count entries of Thread.join_waiters
  parked,        \* where the thread's kernel stack continues
  runQueue,      \* RUN_QUEUE from RUN_HEAD, RUN_COUNT entries
  current,       \* CURRENT_THREAD
  processes,     \* PROCESSES; record p is slot p - 1, its id is p when in use
  cr3,           \* root of the active address space
  roots          \* page-table roots allocated to address spaces

tableVars == <<process, reapable, join_waiters>>
queueVars == <<state, runQueue, current, cr3>>
processVars == <<processes, roots>>
threadVars == <<tableVars, parked, queueVars, processVars>>

(***************************************************************************)
(* Values.                                                                 *)
(***************************************************************************)
Continuation(op, thread, pid) == [op |-> op, thread |-> thread, pid |-> pid]
ReturnToUser == Continuation("user", NO_THREAD, NoProcess)

Continuations ==
  [op : {"user", "sleep", "futex", "start", "halt", "woken"},
   thread : {NO_THREAD}, pid : {NoProcess}]
  \cup [op : {"join"}, thread : Slots, pid : {NoProcess}]
  \cup [op : {"wait"}, thread : Slots, pid : Pids]

EMPTY == [id |-> NoProcess, address_space |-> 0, parent |-> NoProcess,
          main_thread |-> NO_THREAD]

ProcessRecords ==
  {EMPTY} \cup
  [id : Pids, address_space : Roots,
   parent : Pids \cup {NoProcess}, main_thread : Slots \cup {NO_THREAD}]

\* The table lookups of the code find a record by its id.
Used(p) == processes[p].id # NoProcess

ThreadsTypeOK ==
  /\ state \in [Slots -> ThreadState]
  /\ process \in [Slots -> Pids \cup {NoProcess}]
  /\ reapable \in [Slots -> BOOLEAN]
  /\ join_waiters \in [Slots -> Seq(Slots)]
  /\ parked \in [Slots -> Continuations]
  /\ runQueue \in Seq(Slots) /\ Len(runQueue) <= MaxThreads
  /\ current \in Slots \cup {NO_THREAD}
  /\ processes \in [Pids -> ProcessRecords]
  /\ cr3 \in Roots
  /\ roots \subseteq Roots

(***************************************************************************)
(* The state handed to scheduler::start(): continue_after_stack_switch()   *)
(* has activated the address space of PID 1, recorded the process and      *)
(* spawned its first thread in slot 1.                                     *)
(***************************************************************************)
ThreadsInit ==
  /\ state = [t \in Slots |-> IF t = 1 THEN "Ready" ELSE "Exited"]
  /\ process = [t \in Slots |-> IF t = 1 THEN USER_PROCESS_ID ELSE NoProcess]
  /\ reapable = [t \in Slots |-> t # 1]
  /\ join_waiters = [t \in Slots |-> <<>>]
  /\ parked = [t \in Slots |->
                IF t = IDLE_THREAD THEN Continuation("start", NO_THREAD, NoProcess)
                ELSE ReturnToUser]
  /\ runQueue = <<1>>
  /\ current = NO_THREAD
  /\ processes = [p \in Pids |->
                   IF p = USER_PROCESS_ID
                   THEN [EMPTY EXCEPT !.id = USER_PROCESS_ID, !.address_space = 1]
                   ELSE EMPTY]
  /\ cr3 = 1
  /\ roots = {1}

-----------------------------------------------------------------------------
(***************************************************************************)
(* The run queue.                                                          *)
(***************************************************************************)

\* Mutation: enqueue() without its capacity check.
Enqueue_Unbounded(q, threads) == q \o threads

\* Mutation: the newest thread goes to the head of the queue.
Enqueue_AtHead(q, threads) ==
  SubSeq(threads \o q, 1, Min({MaxThreads, Len(q) + Len(threads)}))

\* enqueue() for every element of a sequence: what does not fit is dropped.
Enqueue(q, threads) ==
  SubSeq(q \o threads, 1, Min({MaxThreads, Len(q) + Len(threads)}))

\* Positions of the queue that next_ready() would not skip.
Runnable(q, st) == {i \in DOMAIN q : st[q[i]] # "Exited"}

\* next_ready().unwrap_or(IDLE_THREAD) and the queue it leaves behind.
NextReady(q, st) ==
  IF Runnable(q, st) = {} THEN IDLE_THREAD ELSE q[Min(Runnable(q, st))]
AfterNextReady(q, st) ==
  IF Runnable(q, st) = {} THEN <<>>
  ELSE SubSeq(q, Min(Runnable(q, st)) + 1, Len(q))

\* Mutation: the address space is not switched.
Schedule_KeepCr3(q, st) ==
  /\ current' = NextReady(q, st)
  /\ runQueue' = AfterNextReady(q, st)
  /\ state' = [st EXCEPT ![NextReady(q, st)] = "Running"]
  /\ UNCHANGED cr3

\* schedule_from_current() with the queue and thread states it starts from.
\* The address space changes only when the next thread is another one, is a
\* user thread, and its process is still recorded.
Schedule(q, st) ==
  LET next == NextReady(q, st)
      switches == /\ next # current
                  /\ process[next] # NoProcess
                  /\ Used(process[next])
  IN /\ current' = next
     /\ runQueue' = AfterNextReady(q, st)
     /\ state' = [st EXCEPT ![next] = "Running"]
     /\ cr3' = IF switches THEN processes[process[next]].address_space ELSE cr3

\* A pass that calls wake() for threads[i], i in increasing order: the threads
\* it finds Blocked, and the order (there is exactly one) it enqueues them in.
Woken(threads, st) == {t \in Range(threads) : st[t] = "Blocked"}
FirstIndex(threads, t) == Min({i \in DOMAIN threads : threads[i] = t})
WakeOrders(threads, st) ==
  {order \in [1 .. Cardinality(Woken(threads, st)) -> Woken(threads, st)] :
     \A i, j \in DOMAIN order :
        i < j => FirstIndex(threads, order[i]) < FirstIndex(threads, order[j])}
AfterWake(threads, st) ==
  [t \in Slots |-> IF t \in Woken(threads, st) THEN "Ready" ELSE st[t]]

\* Such a pass without a context switch.
WakeAll(threads) ==
  /\ \E order \in WakeOrders(threads, state) :
        runQueue' = Enqueue(runQueue, order)
  /\ state' = AfterWake(threads, state)
  /\ UNCHANGED <<current, cr3>>

\* block_current(): park the caller at `continuation' and run another thread.
Block(continuation) ==
  /\ parked' = [parked EXCEPT ![current] = continuation]
  /\ Schedule(runQueue, [state EXCEPT ![current] = "Blocked"])

\* The current thread executes in user mode: it may issue a system call, and
\* interrupts are enabled.
InUser == current \in UserSlots /\ parked[current].op = "user"

-----------------------------------------------------------------------------
(***************************************************************************)
(* Start, idle, yield.                                                     *)
(***************************************************************************)

\* start(): ensure_idle() enqueues the idle thread behind the first user
\* thread, schedule_from_scheduler() dispatches without touching CR3.
Start ==
  /\ current = NO_THREAD
  /\ LET q == Enqueue(runQueue, <<IDLE_THREAD>>)
         st == [state EXCEPT ![IDLE_THREAD] = "Ready"]
     IN /\ current' = NextReady(q, st)
        /\ runQueue' = AfterNextReady(q, st)
        /\ state' = [st EXCEPT ![NextReady(q, st)] = "Running"]
  /\ UNCHANGED <<tableVars, parked, cr3, processVars>>

\* yield_now() of a user thread.
Yield ==
  /\ "yield" \in Syscalls
  /\ InUser
  /\ Schedule(Enqueue(runQueue, <<current>>), [state EXCEPT ![current] = "Ready"])
  /\ UNCHANGED <<tableVars, parked, processVars>>

\* Mutation: yield_now() enqueues the idle thread as well.
IdleYield_Enqueued ==
  /\ current = IDLE_THREAD
  /\ parked[IDLE_THREAD].op \in {"start", "woken"}
  /\ Schedule(Enqueue(runQueue, <<IDLE_THREAD>>), state)
  /\ parked' = [parked EXCEPT ![IDLE_THREAD].op = "halt"]
  /\ UNCHANGED <<tableVars, processVars>>

\* The yield_now() of idle_loop(): the idle thread is not enqueued again.  The
\* next time it is dispatched it continues at the hlt that follows.
IdleYield ==
  /\ current = IDLE_THREAD
  /\ parked[IDLE_THREAD].op \in {"start", "woken"}
  /\ Schedule(runQueue, state)
  /\ parked' = [parked EXCEPT ![IDLE_THREAD].op = "halt"]
  /\ UNCHANGED <<tableVars, processVars>>

-----------------------------------------------------------------------------
(***************************************************************************)
(* Creating threads and processes.                                         *)
(***************************************************************************)
FreeSlots == {t \in UserSlots : state[t] = "Exited" /\ reapable[t]}

\* The Thread record written by spawn_user_for_process(), and its enqueue().
\* Stacks and register contexts are left out.
SpawnInto(t, p) ==
  /\ state' = [state EXCEPT ![t] = "Ready"]
  /\ process' = [process EXCEPT ![t] = p]
  /\ reapable' = [reapable EXCEPT ![t] = FALSE]
  /\ join_waiters' = [join_waiters EXCEPT ![t] = <<>>]
  /\ parked' = [parked EXCEPT ![t] = ReturnToUser]
  /\ runQueue' = Enqueue(runQueue, <<t>>)
  /\ UNCHANGED <<current, cr3>>

\* syscall_thread_create(): spawn_user() always attributes the thread to PID 1.
\* A call that returns u64::MAX changes nothing.
ThreadCreate ==
  /\ "thread_create" \in Syscalls
  /\ InUser
  /\ Used(USER_PROCESS_ID)
  /\ FreeSlots # {}
  /\ SpawnInto(Min(FreeSlots), USER_PROCESS_ID)
  /\ UNCHANGED processVars

FreeRoots == Roots \ roots
FreePids == {p \in Pids \ {USER_PROCESS_ID} : ~ Used(p)}

\* create_process() with the caller's process as parent; `main' is what
\* set_process_main_thread() records, or NO_THREAD when spawn fails before it.
RecordProcess(p, root, main) ==
  processes' = [processes EXCEPT ![p] =
                  [id |-> p, address_space |-> root,
                   parent |-> process[current], main_thread |-> main]]

\* user::spawn() that succeeds.
ProcessSpawn ==
  /\ "process_spawn" \in Syscalls
  /\ InUser
  /\ FreeRoots # {} /\ FreePids # {} /\ FreeSlots # {}
  /\ LET p == Min(FreePids)
         t == Min(FreeSlots)
     IN /\ roots' = roots \cup {Min(FreeRoots)}
        /\ RecordProcess(p, Min(FreeRoots), t)
        /\ SpawnInto(t, p)

\* user::spawn() that fails after it created the address space: the process
\* table is full and the root frame is forgotten, or loading the ELF or
\* spawning its thread fails and the record stays behind without a thread.
ProcessSpawnFails ==
  /\ "spawn_failure" \in Syscalls
  /\ InUser
  /\ FreeRoots # {}
  /\ roots' = roots \cup {Min(FreeRoots)}
  /\ \/ FreePids = {} /\ UNCHANGED processes
     \/ FreePids # {} /\ RecordProcess(Min(FreePids), Min(FreeRoots), NO_THREAD)
  /\ UNCHANGED <<tableVars, parked, queueVars>>

-----------------------------------------------------------------------------
(***************************************************************************)
(* Exit.                                                                   *)
(***************************************************************************)

\* Mutation: nobody is reparented.
Reparented_Nobody(thread) == processes

\* reparent_children_of_exited_process(): only the first record whose main
\* thread is `thread' counts.
Reparented(thread) ==
  LET owners == {p \in Pids : processes[p].main_thread = thread}
  IN [p \in Pids |->
        IF owners # {} /\ processes[p].parent = Min(owners)
        THEN [processes[p] EXCEPT !.parent = USER_PROCESS_ID]
        ELSE processes[p]]

\* exit_current_with_status() of a user thread.
Exit ==
  /\ "exit" \in Syscalls
  /\ InUser
  /\ reapable' = [reapable EXCEPT ![current] = FALSE]
  /\ LET st == [state EXCEPT ![current] = "Exited"]
     IN \E order \in WakeOrders(join_waiters[current], st) :
          Schedule(Enqueue(runQueue, order), AfterWake(join_waiters[current], st))
  /\ processes' = Reparented(current)
  /\ UNCHANGED <<process, join_waiters, parked, roots>>

-----------------------------------------------------------------------------
(***************************************************************************)
(* Join.                                                                   *)
(***************************************************************************)

\* Mutations: the waiter count is not looked at; the slot is never freed.
CollectExited_Always(t) == reapable' = [reapable EXCEPT ![t] = TRUE]
CollectExited_Never(t) == UNCHANGED reapable

\* What join() and try_join() do to a target that has exited.
CollectExited(t) ==
  reapable' = [reapable EXCEPT ![t] = @ \/ join_waiters[t] = <<>>]

\* join() up to block_current(), by a caller that continues at `continuation'.
JoinBlocks(t, continuation) ==
  /\ state[t] # "Exited"
  /\ Len(join_waiters[t]) < MaxThreads
  /\ join_waiters' = [join_waiters EXCEPT ![t] = Append(@, current)]
  /\ Block(continuation)
  /\ UNCHANGED <<process, reapable, processVars>>

\* syscall 17.  join() of the caller itself or of a thread whose waiter list
\* is full returns None and changes nothing.
Join(t) ==
  /\ "join" \in Syscalls
  /\ InUser
  /\ t # current
  /\ \/ /\ state[t] = "Exited"
        /\ CollectExited(t)
        /\ UNCHANGED <<process, join_waiters, parked, queueVars, processVars>>
     \/ JoinBlocks(t, Continuation("join", t, NoProcess))

\* join() after block_current(), when the target has exited: the waiter count
\* goes down by one, the last collector frees the slot.
JoinCollects(t) ==
  LET rest == IF join_waiters[t] = <<>> THEN <<>>
              ELSE SubSeq(join_waiters[t], 1, Len(join_waiters[t]) - 1)
  IN /\ state[t] = "Exited"
     /\ join_waiters' = [join_waiters EXCEPT ![t] = rest]
     /\ reapable' = [reapable EXCEPT ![t] = @ \/ rest = <<>>]

Returning(op) ==
  /\ current \in UserSlots
  /\ parked[current].op = op
  /\ parked' = [parked EXCEPT ![current] = ReturnToUser]

JoinReturn ==
  /\ Returning("join")
  /\ LET t == parked[current].thread
     IN \/ JoinCollects(t)
        \/ state[t] # "Exited" /\ UNCHANGED <<reapable, join_waiters>>
  /\ UNCHANGED <<process, queueVars, processVars>>

-----------------------------------------------------------------------------
(***************************************************************************)
(* Waiting for child processes.                                            *)
(***************************************************************************)
IsChild(p) ==
  /\ Used(p)
  /\ processes[p].parent = process[current]
  /\ processes[p].main_thread # NO_THREAD

\* destroy_user_address_space() and *record = Process::EMPTY, if the record
\* of pid p is (still or again) in use.
Release(p) ==
  IF Used(p)
  THEN /\ processes' = [processes EXCEPT ![p] = EMPTY]
       /\ roots' = roots \ {processes[p].address_space}
  ELSE UNCHANGED processVars

\* Mutation: the child need not have exited.
ReapExited_Alive(p) ==
  /\ processes[p].main_thread # current
  /\ CollectExited(processes[p].main_thread)
  /\ Release(p)
  /\ UNCHANGED <<process, join_waiters, parked, queueVars>>

\* try_join() of a child's main thread that returns a status, and what
\* wait_process(), try_wait_process() and reap_any_child() do with it.
ReapExited(p) ==
  LET t == processes[p].main_thread
  IN /\ t # current
     /\ state[t] = "Exited"
     /\ CollectExited(t)
     /\ Release(p)
     /\ UNCHANGED <<process, join_waiters, parked, queueVars>>

\* wait_process()
WaitProcess(p) ==
  /\ "wait" \in Syscalls
  /\ InUser
  /\ IsChild(p)
  /\ LET t == processes[p].main_thread
     IN \/ ReapExited(p)
        \/ t # current /\ JoinBlocks(t, Continuation("wait", t, p))

\* wait_process() after the block_current() of its join(): the record is
\* looked up again by its id.
WaitReturn ==
  /\ Returning("wait")
  /\ LET t == parked[current].thread
     IN \/ JoinCollects(t) /\ Release(parked[current].pid)
        \/ state[t] # "Exited" /\ UNCHANGED <<reapable, join_waiters, processVars>>
  /\ UNCHANGED <<process, queueVars>>

\* try_wait_process()
TryWaitProcess(p) ==
  /\ "try_wait" \in Syscalls
  /\ InUser
  /\ IsChild(p)
  /\ ReapExited(p)

ExitedChildren ==
  {p \in Pids : IsChild(p) /\ state[processes[p].main_thread] = "Exited"}

\* reap_any_child(): the first exited child in table order.
ReapAnyChild ==
  /\ "reap" \in Syscalls
  /\ InUser
  /\ ExitedChildren # {}
  /\ ReapExited(Min(ExitedChildren))

\* Mutation: the joiners of the terminated thread are not woken.
TerminateProcess_WakesNobody(p) ==
  /\ "terminate" \in Syscalls
  /\ InUser
  /\ IsChild(p)
  /\ state[processes[p].main_thread] # "Exited"
  /\ state' = [state EXCEPT ![processes[p].main_thread] = "Exited"]
  /\ UNCHANGED <<tableVars, parked, runQueue, current, cr3, processVars>>

\* terminate_process() of a child whose main thread has not exited.  Nothing
\* but the thread's state changes: its run-queue entry, its sleeper and futex
\* entries and its registrations as a join waiter stay.
TerminateProcess(p) ==
  /\ "terminate" \in Syscalls
  /\ InUser
  /\ IsChild(p)
  /\ LET t == processes[p].main_thread
         st == [state EXCEPT ![t] = "Exited"]
     IN /\ state[t] # "Exited"
        /\ state' = AfterWake(join_waiters[t], st)
        /\ \E order \in WakeOrders(join_waiters[t], st) :
              runQueue' = Enqueue(runQueue, order)
  /\ UNCHANGED <<tableVars, parked, current, cr3, processVars>>

ThreadsNext ==
  \/ Start \/ Yield \/ IdleYield
  \/ ThreadCreate \/ ProcessSpawn \/ ProcessSpawnFails
  \/ Exit \/ JoinReturn \/ WaitReturn \/ ReapAnyChild
  \/ \E t \in Slots : Join(t)
  \/ \E p \in Pids : WaitProcess(p) \/ TryWaitProcess(p) \/ TerminateProcess(p)
=============================================================================
