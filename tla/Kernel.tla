------------------------------- MODULE Kernel -------------------------------
(***************************************************************************)
(* The scheduler of module Threads composed with the blocking system calls *)
(* and the interrupt handlers of kernel-core/src/arch.rs: the SLEEPERS and *)
(* FUTEX_WAITERS tables, sleep, futex wait and wake, and the timer tick.   *)
(*                                                                         *)
(* A deadline is kept as the number of ticks left until it, which is       *)
(* deadline - TIMER_TICKS modulo 2^64: the wrapping comparison of          *)
(* wake_expired_sleepers() holds exactly when that difference has run down *)
(* to zero, since a delay is at most (2^64 - 1) / 10 < 2^63 ticks.         *)
(*                                                                         *)
(* Programs give times in milliseconds.  saturating_add() reaches its      *)
(* limit only for delays of more than 2^64 - 10 of them, above MaxDelay.   *)
(***************************************************************************)
EXTENDS Threads

CONSTANTS
  MaxSleepers,      \* slots of SLEEPERS
  MaxFutexWaiters,  \* slots of FUTEX_WAITERS
  Addresses,        \* addresses of futex words
  NoAddress,
  MsPerTick,        \* milliseconds from one timer interrupt to the next, 10
  MaxDelay          \* longest delay, in milliseconds, a program asks for

ASSUME KernelAssumption ==
  /\ MaxSleepers \in Nat /\ MaxFutexWaiters \in Nat
  /\ MsPerTick \in Nat \ {0} /\ MaxDelay \in Nat
  /\ NoAddress \notin Addresses

VARIABLES
  sleepers,         \* SLEEPERS
  futexWaiters      \* FUTEX_WAITERS

waitVars == <<sleepers, futexWaiters>>
vars == <<threadVars, waitVars>>

\* left = 0 stands for "no deadline" in a futex entry.  `owed' is no part of the
\* code's entry: the milliseconds of the sleep that no tick has accounted for.
NoSleeper == [thread |-> NO_THREAD, left |-> 0, owed |-> 0]
NoFutexWaiter == [thread |-> NO_THREAD, address |-> NoAddress, left |-> 0]

TypeOK ==
  /\ ThreadsTypeOK
  /\ sleepers \in [1 .. MaxSleepers ->
                     [thread : Slots \cup {NO_THREAD}, left : Nat, owed : Nat]]
  /\ futexWaiters \in [1 .. MaxFutexWaiters ->
                     [thread : Slots \cup {NO_THREAD}, left : Nat,
                      address : Addresses \cup {NoAddress}]]

Init ==
  /\ ThreadsInit
  /\ sleepers = [i \in 1 .. MaxSleepers |-> NoSleeper]
  /\ futexWaiters = [i \in 1 .. MaxFutexWaiters |-> NoFutexWaiter]

FreeEntries(table) == {i \in DOMAIN table : table[i].thread = NO_THREAD}

\* Mutation: the division rounds down.
Ticks_Down(ms) == LET ticks == ms \div MsPerTick IN IF ticks < 1 THEN 1 ELSE ticks

\* Milliseconds to ticks, rounding up, and one tick at the least.
Ticks(ms) ==
  LET ticks == (ms + MsPerTick - 1) \div MsPerTick IN IF ticks < 1 THEN 1 ELSE ticks

\* syscall_sleep().  With no free entry the call returns u64::MAX and changes
\* nothing, and so does a sleep of 0, which returns 0.
Sleep(ms) ==
  /\ "sleep" \in Syscalls
  /\ InUser
  /\ FreeEntries(sleepers) # {}
  /\ sleepers' = [sleepers EXCEPT ![Min(FreeEntries(sleepers))] =
                    [thread |-> current, left |-> Ticks(ms), owed |-> ms]]
  /\ Block(Continuation("sleep", NO_THREAD, NoProcess))
  /\ UNCHANGED <<tableVars, processVars, futexWaiters>>

\* What the timeouts of futex_wait() come to: that of u64::MAX to no deadline,
\* and one of 0 ms to one tick.
Timeouts == {0} \cup {Ticks(ms) : ms \in 0 .. MaxDelay}

\* syscall_futex_wait() of a word that has the expected value.  The word itself
\* is user memory: when it differs from the expected value the call changes
\* nothing.
FutexWait(a, d) ==
  /\ "futex" \in Syscalls
  /\ InUser
  /\ FreeEntries(futexWaiters) # {}
  /\ futexWaiters' = [futexWaiters EXCEPT ![Min(FreeEntries(futexWaiters))] =
                        [thread |-> current, address |-> a, left |-> d]]
  /\ Block(Continuation("futex", NO_THREAD, NoProcess))
  /\ UNCHANGED <<tableVars, processVars, sleepers>>

\* Both calls return 0 once block_current() returns.
SleepReturn ==
  /\ Returning("sleep") \/ Returning("futex")
  /\ UNCHANGED <<tableVars, queueVars, processVars, waitVars>>

\* The entries syscall_futex_wake(a, count) clears: the matching ones, in table
\* order, until `count' of them named a thread that wake() found Blocked.
FutexMatches(a) ==
  {i \in DOMAIN futexWaiters :
     futexWaiters[i].thread # NO_THREAD /\ futexWaiters[i].address = a}
Wakes(a, i) ==
  /\ state[futexWaiters[i].thread] = "Blocked"
  /\ \A j \in FutexMatches(a) :
        j < i => futexWaiters[j].thread # futexWaiters[i].thread
FutexCleared(a, count) ==
  {i \in FutexMatches(a) :
     Cardinality({j \in FutexMatches(a) : j < i /\ Wakes(a, j)}) < count}

\* Mutation: the entries of the woken threads stay in the table.
FutexWake_KeepsEntries(a, count) ==
  /\ "futex" \in Syscalls
  /\ InUser
  /\ WakeAll([i \in FutexCleared(a, count) |-> futexWaiters[i].thread])
  /\ UNCHANGED <<tableVars, parked, processVars, waitVars>>

\* syscall_futex_wake().  Entries are keyed by virtual address only.
FutexWake(a, count) ==
  /\ "futex" \in Syscalls
  /\ InUser
  /\ LET cleared == FutexCleared(a, count)
     IN /\ futexWaiters' = [i \in DOMAIN futexWaiters |->
                              IF i \in cleared THEN NoFutexWaiter ELSE futexWaiters[i]]
        /\ WakeAll([i \in cleared |-> futexWaiters[i].thread])
  /\ UNCHANGED <<tableVars, parked, processVars, sleepers>>

\* Mutation: interrupts are enabled in the idle thread only.
Interruptible_OnlyIdle ==
  current = IDLE_THREAD /\ parked[IDLE_THREAD].op \in {"halt", "woken"}

\* Interrupts are enabled in user mode and around the hlt of idle_loop().
Interruptible ==
  \/ InUser
  \/ current = IDLE_THREAD /\ parked[IDLE_THREAD].op \in {"halt", "woken"}

\* An interrupt ends the hlt; idle_loop() then yields.
AfterInterrupt ==
  IF current = IDLE_THREAD
  THEN [parked EXCEPT ![IDLE_THREAD].op = "woken"] ELSE parked

\* Mutation: a deadline is due one tick early.
Expired_Early(table) ==
  {i \in DOMAIN table : table[i].thread # NO_THREAD /\ table[i].left \in {1, 2}}

Expired(table) == {i \in DOMAIN table : table[i].thread # NO_THREAD /\ table[i].left = 1}
Advanced(table, none) ==
  [i \in DOMAIN table |->
     IF i \in Expired(table) THEN none
     ELSE [table[i] EXCEPT !.left = IF @ > 1 THEN @ - 1 ELSE @]]

\* The time a tick accounts for.
Elapsed(table) ==
  [i \in DOMAIN table |->
     [table[i] EXCEPT !.owed = IF @ > MsPerTick THEN @ - MsPerTick ELSE 0]]

\* The threads whose entries expire: those of SLEEPERS, then, at the indices
\* above MaxSleepers, those of FUTEX_WAITERS.
ExpiredThreads ==
  [i \in Expired(sleepers) \cup {MaxSleepers + j : j \in Expired(futexWaiters)} |->
     IF i <= MaxSleepers THEN sleepers[i].thread
     ELSE futexWaiters[i - MaxSleepers].thread]

\* irq_dispatch(32): wake_expired_sleepers(), then wake_expired_futexes().
Tick ==
  /\ Interruptible
  /\ sleepers' = Elapsed(Advanced(sleepers, NoSleeper))
  /\ futexWaiters' = Advanced(futexWaiters, NoFutexWaiter)
  /\ WakeAll(ExpiredThreads)
  /\ parked' = AfterInterrupt
  /\ UNCHANGED <<tableVars, processVars>>

\* irq_dispatch() of any other line, as far as threads are concerned.
OtherInterrupt ==
  /\ Interruptible
  /\ parked' = AfterInterrupt
  /\ UNCHANGED <<tableVars, queueVars, processVars, waitVars>>

Next ==
  \/ ThreadsNext /\ UNCHANGED waitVars
  \/ SleepReturn \/ Tick \/ OtherInterrupt
  \/ \E ms \in 1 .. MaxDelay : Sleep(ms)
  \/ \E a \in Addresses, d \in Timeouts : FutexWait(a, d)
  \/ \E a \in Addresses, n \in 1 .. MaxFutexWaiters : FutexWake(a, n)

Spec == Init /\ [][Next]_vars

(***************************************************************************)
(* Fairness.  Code the kernel runs with interrupts masked runs to its end, *)
(* and a timer interrupt that is raised while they are masked stays        *)
(* pending until they are enabled again (strong fairness).                 *)
(***************************************************************************)
KernelStep ==
  \/ (Start \/ IdleYield \/ JoinReturn \/ WaitReturn) /\ UNCHANGED waitVars
  \/ SleepReturn

LiveSpec == Spec /\ WF_vars(KernelStep) /\ SF_vars(Tick)

\* The kernel does not preempt: that a program sooner or later makes a call
\* that enters the scheduler is an assumption on programs, stated where used.
EntersScheduler ==
  \/ (Yield \/ Exit) /\ UNCHANGED waitVars
  \/ \E ms \in 1 .. MaxDelay : Sleep(ms)
CooperativePrograms == WF_vars(EntersScheduler)

-----------------------------------------------------------------------------
(***************************************************************************)
(* Properties of every program, terminate_process() included.              *)
(***************************************************************************)

\* Threads parked in join() or wait_process() on slot s.
Joiners(s) ==
  {t \in Slots : parked[t].op \in {"join", "wait"} /\ parked[t].thread = s}

\* spawn_user_for_process() recycles a slot only when it is reapable, and a
\* slot is never reapable while the kernel stack of another thread is still
\* inside a join() or wait_process() on it: a joiner that resumes late reads
\* the exit status of the thread it waited for and not of a later tenant.
JoinTargetsKept ==
  \A s \in UserSlots : reapable[s] => Joiners(s) = {}

JoinCountBounds ==
  \A s \in Slots : Cardinality(Joiners(s)) <= Len(join_waiters[s])

\* A reapable slot is out of use: exited, with no registered waiter, and not
\* the thread the CPU is running.
ReapableIsIdle ==
  \A s \in UserSlots :
    reapable[s] => state[s] = "Exited" /\ join_waiters[s] = <<>> /\ s # current

NoSelfJoin ==
  \A t \in Slots : parked[t].op \in {"join", "wait"} => parked[t].thread # t

\* Why JoinTargetsKept holds: the waiter count of a slot covers the threads
\* parked on it, whatever wakes them early, terminates them or recycles their
\* own slots; a reapable slot has count zero and nobody can register with it;
\* and no thread waits for itself.
JoinInv == JoinCountBounds /\ ReapableIsIdle /\ NoSelfJoin

Registered(t) ==
  \/ /\ parked[t].op \in {"join", "wait"}
     /\ state[parked[t].thread] # "Exited"
     /\ t \in Range(join_waiters[parked[t].thread])
  \/ parked[t].op = "sleep" /\ \E i \in DOMAIN sleepers : sleepers[i].thread = t
  \/ parked[t].op = "futex" /\ \E i \in DOMAIN futexWaiters : futexWaiters[i].thread = t

\* No lost wakeup: a thread is Blocked only while something that will wake it
\* names it, an unexited join target, a SLEEPERS entry or a FUTEX_WAITERS
\* entry.  No order of exits, ticks, wakes, terminations and slot reuse
\* consumes the entry and leaves the thread Blocked.
NoLostWakeup == \A t \in Slots : state[t] = "Blocked" => Registered(t)

(***************************************************************************)
(* Properties of programs that do not call terminate_process().            *)
(***************************************************************************)

\* The run queue holds every Ready thread exactly once and nothing else, so
\* enqueue() never meets a full queue and never drops a thread.
RunQueueExact ==
  \A t \in Slots :
     Cardinality({i \in DOMAIN runQueue : runQueue[i] = t})
       = IF state[t] = "Ready" THEN 1 ELSE 0

\* The entries of SLEEPERS, FUTEX_WAITERS and the join waiters are those of the
\* threads parked in sleep, futex_wait and join, one each: no entry leaks when a
\* call ends by wake, timeout or both at once, none outlives its thread, and a
\* joined slot is freed when the last of its joiners has collected.
WaitTablesExact ==
  /\ \A t \in Slots :
       /\ Cardinality({i \in DOMAIN sleepers : sleepers[i].thread = t})
            = IF state[t] = "Blocked" /\ parked[t].op = "sleep" THEN 1 ELSE 0
       /\ Cardinality({i \in DOMAIN futexWaiters : futexWaiters[i].thread = t})
            = IF state[t] = "Blocked" /\ parked[t].op = "futex" THEN 1 ELSE 0
  /\ \A s \in UserSlots : Cardinality(Joiners(s)) = Len(join_waiters[s])

\* A sleep of so many milliseconds lasts as many ticks as cover them and no more:
\* a sleeping thread is made runnable only by the tick that accounts for the last
\* of the time it asked for, however rounding, other wakers and other sleepers of
\* the table come in between.
SleepsFullTime ==
  [][\A t \in Slots :
       state[t] = "Blocked" /\ parked[t].op = "sleep" /\ state'[t] # "Blocked"
         => \E i \in DOMAIN sleepers :
              sleepers[i].thread = t /\ sleepers[i].owed \in 1 .. MsPerTick]_vars

(***************************************************************************)
(* Properties of processes whose threads are collected by wait_process(),  *)
(* try_wait_process() and reap_any_child() only.                           *)
(***************************************************************************)

\* Some process remains responsible for reaping every process: a parent other
\* than PID 1 is in the table and its main thread has not exited.
NoOrphans ==
  \A p \in Pids :
    Used(p) /\ processes[p].parent \notin {NoProcess, USER_PROCESS_ID}
      => LET q == processes[p].parent
         IN /\ Used(q)
            /\ processes[q].main_thread # NO_THREAD
            /\ state[processes[q].main_thread] # "Exited"

\* User code runs in the address space recorded for its own process, and that
\* page-table root has not been freed.
OwnAddressSpace ==
  InUser => /\ Used(process[current])
            /\ cr3 = processes[process[current]].address_space
            /\ cr3 \in roots

\* A process record and its address space are released only after the main
\* thread it names has exited, and that slot has not been given to a thread of
\* another process meanwhile.
ReapsOnlyExited ==
  [][\A p \in Pids : Used(p) /\ ~ Used(p)'
       => LET t == processes[p].main_thread IN state[t] = "Exited" /\ process[t] = p]_vars

\* A process that has been reaped leaves no zombie: its thread slot is free
\* again, or a thread that will free it is still parked on it.
NoZombies ==
  \A t \in UserSlots :
    /\ state[t] = "Exited" /\ ~ reapable[t] /\ process[t] # USER_PROCESS_ID
    /\ \A p \in Pids : processes[p].main_thread # t
    => \E w \in Joiners(t) : state[w] # "Exited"

(***************************************************************************)
(* Liveness.                                                               *)
(***************************************************************************)

\* A sleep ends, whatever the other threads do: even when one of them keeps
\* the CPU for ever the tick makes the sleeper runnable.
SleepsEnd ==
  \A t \in Slots :
    (state[t] = "Blocked" /\ parked[t].op = "sleep") ~> (state[t] # "Blocked")

\* Round robin: when programs are cooperative, a thread that is Ready is
\* dispatched.
ReadyRuns ==
  CooperativePrograms => \A t \in UserSlots : (state[t] = "Ready") ~> (current = t)

=============================================================================
