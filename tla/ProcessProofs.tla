---------------------------- MODULE ProcessProofs ---------------------------
(***************************************************************************)
(* Theorems about processes (module Kernel): their records, main threads   *)
(* and address spaces; and about what surrounds the scheduler (module      *)
(* UserContexts): that system implements Kernel, so that what is proved of *)
(* Kernel holds for it, and every program runs on its own context.         *)
(***************************************************************************)
EXTENDS UserContexts, KernelProofs

-----------------------------------------------------------------------------
(***************************************************************************)
(* Processes, for programs that collect them by wait_process(),            *)
(* try_wait_process() and reap_any_child() only.  None of the properties   *)
(* is inductive: they rest on who owns what.  A slot that is not free      *)
(* belongs to the one process that names it as main thread (slot 1 to      *)
(* PID 1), so a process has one thread and a parent waits for one child at *)
(* a time, which nobody else can then reap or adopt.                       *)
(***************************************************************************)
OnlyProcessCalls == Syscalls \cap {"thread_create", "join", "terminate"} = {}

Main(p) == processes[p].main_thread
Space(p) == processes[p].address_space
Parent(p) == processes[p].parent

\* PID 1 and its thread in slot 1 are never released.
FirstProcess ==
  /\ Used(1) /\ Space(1) = 1 /\ Parent(1) = NoProcess /\ Main(1) = NO_THREAD
  /\ process[1] = 1 /\ ~ reapable[1]

\* The main thread of a process is its own, and its slot is not free.
MainsOwned ==
  \A p \in Pids : Main(p) # NO_THREAD =>
    Main(p) \in UserSlots /\ process[Main(p)] = p /\ ~ reapable[Main(p)]

\* A slot that is not free is that of the main thread of a process.
SlotsOwned ==
  \A t \in UserSlots : ~ reapable[t] /\ t # 1 =>
    process[t] \in Pids /\ Used(process[t]) /\ Main(process[t]) = t

\* Processes have their own address spaces.
SpacesOwned ==
  /\ \A p \in Pids : Used(p) => Space(p) \in roots
  /\ \A p, q \in Pids : Used(p) /\ Used(q) /\ p # q => Space(p) # Space(q)

\* A thread in wait_process() waits for a child that is still its own.
WaitsForChild ==
  \A x \in Slots :
    /\ parked[x].op # "join"
    /\ parked[x].op = "wait" =>
         /\ x \in UserSlots /\ state[x] # "Exited"
         /\ Used(parked[x].pid) /\ Parent(parked[x].pid) = process[x]
         /\ Main(parked[x].pid) = parked[x].thread

Ownership ==
  FirstProcess /\ MainsOwned /\ SlotsOwned /\ SpacesOwned /\ WaitsForChild /\ NoOrphans

\* The address space of the current thread's process is the active one, also
\* while the thread is inside a system call.
ActiveSpace ==
  /\ current \in UserSlots => cr3 = Space(process[current])
  /\ current = NO_THREAD => runQueue = <<1>> /\ state[1] = "Ready" /\ cr3 = 1

ProcessInv == OnlyProcessCalls => Ownership /\ ActiveSpace

\* The scheduler ends nobody.
LEMMA ScheduleEndsNobody ==
  ASSUME NEW q, NEW st, DOMAIN st = Slots, Schedule(q, st), NEW x \in Slots,
         state'[x] = "Exited"
  PROVE  st[x] = "Exited"
<1>1. PICK n : state' = [st EXCEPT ![n] = "Running"]
  BY DEF Schedule
<1> QED BY <1>1

\* The process of a thread that has not exited is recorded and names it.
LEMMA AliveOwned ==
  ASSUME TypeOK, JoinInv, Ownership, NEW t \in UserSlots, state[t] # "Exited"
  PROVE  /\ ~ reapable[t] /\ process[t] \in Pids /\ Used(process[t])
         /\ \/ t = 1 /\ process[t] = 1
            \/ t # 1 /\ process[t] # 1 /\ Main(process[t]) = t
<1>1. ~ reapable[t]
  BY DEF JoinInv, ReapableIsIdle
<1>2. CASE t = 1
  <2>1. process[1] = 1 /\ Used(1) /\ 1 \in Pids
    BY SlotFacts DEF Ownership, FirstProcess
  <2> QED BY <1>1, <1>2, <2>1
<1>3. CASE t # 1
  BY <1>1, <1>3, SlotFacts DEF Ownership, FirstProcess, SlotsOwned
<1> QED BY <1>2, <1>3

\* So a process has one thread.
LEMMA OneThread ==
  ASSUME TypeOK, JoinInv, Ownership, NEW t \in UserSlots, NEW x \in UserSlots,
         state[t] # "Exited", state[x] # "Exited", process[t] = process[x]
  PROVE  t = x
BY AliveOwned

\* The threads parked on a child's main thread are its parent's thread.
LEMMA JoinerIsParent ==
  ASSUME TypeOK, Ownership, NEW p \in Pids, NEW t \in Slots, Main(p) = t, NEW x \in Joiners(t)
  PROVE  /\ x \in UserSlots /\ parked[x].op = "wait" /\ parked[x].pid = p
         /\ state[x] # "Exited" /\ process[x] = Parent(p)
<1>1. x \in Slots /\ parked[x].op = "wait" /\ parked[x].thread = t
  BY DEF Joiners, Ownership, WaitsForChild
<1>2. parked[x].pid \in Pids
  BY <1>1, ParkedTypes DEF TypeOK
<1>3. /\ x \in UserSlots /\ state[x] # "Exited" /\ Main(parked[x].pid) = t
      /\ Parent(parked[x].pid) = process[x]
  BY <1>1 DEF Ownership, WaitsForChild
<1>4. parked[x].pid = p
  BY <1>2, <1>3, SlotFacts DEF Ownership, MainsOwned
<1> QED BY <1>1, <1>3, <1>4

\* Steps that leave slots and records alone, end nobody and park nobody.
LEMMA OwnershipFrame ==
  ASSUME TypeOK, Ownership, UNCHANGED <<process, reapable, processes, roots>>,
         \A x \in Slots : parked'[x] = parked[x] \/ parked'[x].op \notin {"join", "wait"},
         \A x \in Slots : state'[x] = "Exited" => state[x] = "Exited"
  PROVE  Ownership'
<1>1. /\ \A p : Used(p)' = Used(p) /\ Main(p)' = Main(p) /\ Space(p)' = Space(p)
      /\ \A p : Parent(p)' = Parent(p)
  BY DEF Used, Main, Space, Parent
<1>2. FirstProcess' /\ MainsOwned' /\ SlotsOwned' /\ SpacesOwned'
  BY DEF Ownership, FirstProcess, MainsOwned, SlotsOwned, SpacesOwned, Used, Main, Space, Parent
<1>3. WaitsForChild'
  <2> SUFFICES ASSUME NEW x \in Slots
               PROVE  /\ parked'[x].op # "join"
                      /\ parked'[x].op = "wait" =>
                           /\ x \in UserSlots /\ state'[x] # "Exited"
                           /\ Used(parked[x].pid)' /\ Parent(parked[x].pid)' = process'[x]
                           /\ Main(parked[x].pid)' = parked'[x].thread
    BY DEF WaitsForChild
  <2> QED BY DEF Ownership, WaitsForChild, Used, Main, Parent
<1>4. NoOrphans'
  <2> SUFFICES ASSUME NEW p \in Pids, Used(p), NEW q, q = processes[p].parent,
                      q \notin {NoProcess, USER_PROCESS_ID}
               PROVE  /\ Used(q) /\ processes[q].main_thread # NO_THREAD
                      /\ state'[processes[q].main_thread] # "Exited"
    BY DEF NoOrphans, Used
  <2>1. /\ Used(q) /\ Main(q) # NO_THREAD /\ state[Main(q)] # "Exited"
    BY DEF Ownership, NoOrphans, Main
  <2>2. q \in Pids
    BY DEF TypeOK, ThreadsTypeOK, ProcessRecords, EMPTY
  <2>3. Main(q) \in Slots
    BY <2>1, <2>2, SlotFacts DEF Ownership, MainsOwned
  <2> QED BY <2>1, <2>3 DEF Main
<1> QED BY <1>2, <1>3, <1>4 DEF Ownership

LEMMA ParentAlive ==
  ASSUME TypeOK, Ownership, NEW p \in Pids, Used(p), Parent(p) \notin {NoProcess, 1}
  PROVE  /\ Parent(p) \in Pids /\ Used(Parent(p)) /\ Main(Parent(p)) \in UserSlots
         /\ state[Main(Parent(p))] # "Exited"
<1>1. /\ Used(Parent(p)) /\ Main(Parent(p)) # NO_THREAD /\ state[Main(Parent(p))] # "Exited"
  BY DEF Ownership, NoOrphans, Main, Parent, USER_PROCESS_ID
<1>2. Parent(p) \in Pids
  BY DEF TypeOK, ThreadsTypeOK, ProcessRecords, EMPTY, Parent
<1> QED BY <1>1, <1>2 DEF Ownership, MainsOwned

\* What is to be shown of the next state, with the threads and processes it is
\* about named.
LEMMA OwnershipNext ==
  ASSUME FirstProcess', SpacesOwned',
         \A p \in Pids : \A t : Main(p)' = t /\ t # NO_THREAD =>
           t \in UserSlots /\ process'[t] = p /\ ~ reapable'[t],
         \A t \in UserSlots : \A p : ~ reapable'[t] /\ t # 1 /\ process'[t] = p =>
           p \in Pids /\ Used(p)' /\ Main(p)' = t,
         \A x \in Slots : \A p, t : parked'[x].pid = p /\ parked'[x].thread = t =>
           /\ parked'[x].op # "join"
           /\ parked'[x].op = "wait" => /\ x \in UserSlots /\ state'[x] # "Exited"
                                        /\ Used(p)' /\ Parent(p)' = process'[x] /\ Main(p)' = t,
         \A p \in Pids : \A q, t :
           Used(p)' /\ Parent(p)' = q /\ q \notin {NoProcess, 1} /\ Main(q)' = t =>
             Used(q)' /\ t # NO_THREAD /\ state'[t] # "Exited"
  PROVE  Ownership'
<1> USE DEF Used, Main, Parent, Space
<1>1. MainsOwned'
  BY DEF MainsOwned
<1>2. SlotsOwned'
  BY DEF SlotsOwned
<1>3. WaitsForChild'
  BY DEF WaitsForChild
<1>4. NoOrphans'
  BY DEF NoOrphans, USER_PROCESS_ID
<1> QED BY <1>1, <1>2, <1>3, <1>4 DEF Ownership

\* A process is released once its main thread has exited, and only by the
\* thread that waits for it: nobody is left waiting, and its slot is free.
LEMMA ReleaseKeepsOwnership ==
  ASSUME TypeOK, Ownership, NEW p \in Pids, Main(p) # NO_THREAD, state[Main(p)] = "Exited",
         Used(p), Release(p), UNCHANGED <<process, state>>,
         reapable'[Main(p)], \A s \in Slots : s # Main(p) => reapable'[s] = reapable[s],
         \A x \in Slots : parked'[x] = parked[x] \/ parked'[x].op \notin {"join", "wait"},
         \A x \in Slots : parked'[x].op = "wait" => parked[x].pid # p
  PROVE  Ownership'
<1>t. processes \in [Pids -> ProcessRecords]
  BY DEF TypeOK, ThreadsTypeOK
<1>1. PICK t : t = Main(p)
  OBVIOUS
<1>2. p # 1 /\ t \in UserSlots /\ t \in Slots /\ t # 1 /\ process[t] = p
  BY <1>1, SlotFacts DEF Ownership, FirstProcess, MainsOwned
<1>3. /\ ~ Used(p)' /\ Main(p)' = NO_THREAD
      /\ \A q \in Pids : q # p => /\ Used(q)' <=> Used(q)
                                  /\ Main(q)' = Main(q) /\ Space(q)' = Space(q)
                                  /\ Parent(q)' = Parent(q)
      /\ roots' = roots \ {Space(p)}
  BY <1>t DEF Release, Used, Main, Space, Parent, EMPTY
<1>4. FirstProcess'
  BY <1>1, <1>2, <1>3, SlotFacts DEF Ownership, FirstProcess
<1>5. ASSUME NEW q \in Pids, NEW s, Main(q)' = s, s # NO_THREAD
      PROVE  s \in UserSlots /\ process'[s] = q /\ ~ reapable'[s]
  <2>1. q # p /\ Main(q) = s
    BY <1>3, <1>5
  <2>2. s \in UserSlots /\ process[s] = q /\ ~ reapable[s]
    BY <1>5, <2>1 DEF Ownership, MainsOwned
  <2> QED BY <1>1, <1>2, <2>1, <2>2, SlotFacts
<1>6. ASSUME NEW s \in UserSlots, NEW q, ~ reapable'[s], s # 1, process'[s] = q
      PROVE  q \in Pids /\ Used(q)' /\ Main(q)' = s
  <2>1. s # t /\ ~ reapable[s]
    BY <1>1, <1>6, SlotFacts
  <2>2. q \in Pids /\ Used(q) /\ Main(q) = s
    BY <1>6, <2>1 DEF Ownership, SlotsOwned
  <2> QED BY <1>1, <1>3, <2>1, <2>2
<1>7. SpacesOwned'
  BY <1>3 DEF Ownership, SpacesOwned
<1>8. ASSUME NEW x \in Slots, NEW q, NEW s, parked'[x].pid = q, parked'[x].thread = s
      PROVE  /\ parked'[x].op # "join"
             /\ parked'[x].op = "wait" => /\ x \in UserSlots /\ state'[x] # "Exited"
                                          /\ Used(q)' /\ Parent(q)' = process'[x] /\ Main(q)' = s
  <2>1. CASE parked'[x].op \notin {"join", "wait"}
    BY <2>1
  <2>2. CASE parked'[x] = parked[x]
    <3>1. parked'[x].op = "wait" => q # p /\ q \in Pids
      BY <1>8, <2>2, ParkedTypes DEF TypeOK
    <3> QED BY <1>3, <1>8, <2>2, <3>1 DEF Ownership, WaitsForChild
  <2> QED BY <2>1, <2>2
<1>9. ASSUME NEW r \in Pids, NEW q, NEW s, Used(r)', Parent(r)' = q, q \notin {NoProcess, 1},
             Main(q)' = s
      PROVE  Used(q)' /\ s # NO_THREAD /\ state'[s] # "Exited"
  <2>1. r # p /\ Used(r) /\ Parent(r) = q
    BY <1>3, <1>9
  <2>2. q \in Pids /\ Used(q) /\ Main(q) \in UserSlots /\ state[Main(q)] # "Exited"
    BY <1>9, <2>1, ParentAlive
  <2>3. q # p
    BY <2>2
  <2> QED BY <1>3, <1>9, <2>2, <2>3, SlotFacts
<1> QED BY <1>4, <1>5, <1>6, <1>7, <1>8, <1>9, OwnershipNext

\* A new record is that of a child of the caller's process, with a root of its
\* own and, unless spawning failed, a slot that was free.
LEMMA RecordKeepsOwnership ==
  ASSUME TypeOK, JoinInv, Ownership, InUser, state[current] # "Exited",
         NEW p \in Pids, p # 1, ~ Used(p), NEW root \in Roots \ roots,
         NEW m, RecordProcess(p, root, m), roots' = roots \cup {root},
         \/ m = NO_THREAD /\ UNCHANGED <<process, reapable, parked, state>>
         \/ m \in FreeSlots /\ SpawnInto(m, p)
  PROVE  Ownership'
<1>t. /\ processes \in [Pids -> ProcessRecords] /\ parked \in [Slots -> Continuations]
      /\ process \in [Slots -> Pids \cup {NoProcess}] /\ reapable \in [Slots -> BOOLEAN]
      /\ state \in [Slots -> ThreadState]
  BY DEF TypeOK, ThreadsTypeOK
<1>1. PICK me : me = current
  OBVIOUS
<1>2. /\ me \in UserSlots /\ me \in Slots /\ process[me] \in Pids /\ Used(process[me])
      /\ \/ me = 1 /\ process[me] = 1
         \/ me # 1 /\ process[me] # 1 /\ Main(process[me]) = me
  BY <1>1, AliveOwned, SlotFacts DEF InUser
<1>3. /\ Used(p)' /\ Main(p)' = m /\ Space(p)' = root /\ Parent(p)' = process[me]
      /\ \A q : q # p => /\ Used(q)' <=> Used(q)
                         /\ Main(q)' = Main(q) /\ Space(q)' = Space(q) /\ Parent(q)' = Parent(q)
  BY <1>t, <1>1, SlotFacts DEF RecordProcess, Used, Main, Space, Parent
<1>4. /\ m # NO_THREAD => /\ m \in UserSlots /\ m \in Slots /\ m # 1 /\ reapable[m]
                          /\ state[m] = "Exited"
                          /\ process'[m] = p /\ ~ reapable'[m] /\ state'[m] = "Ready"
                          /\ parked'[m].op = "user"
      /\ \A s \in Slots : s # m => /\ process'[s] = process[s] /\ state'[s] = state[s]
                                   /\ reapable'[s] <=> reapable[s]
                                   /\ parked'[s] = parked[s]
  <2>1. CASE m = NO_THREAD /\ UNCHANGED <<process, reapable, parked, state>>
    BY <2>1
  <2>2. CASE m \in FreeSlots /\ SpawnInto(m, p)
    <3>1. m \in UserSlots /\ m \in Slots /\ reapable[m] /\ state[m] = "Exited"
      BY <2>2, SlotFacts DEF FreeSlots
    <3>2. m # 1
      BY <3>1 DEF Ownership, FirstProcess
    <3> QED BY <1>t, <2>2, <3>1, <3>2 DEF SpawnInto, ReturnToUser, Continuation
  <2> QED BY <2>1, <2>2
<1>5. me # m /\ state'[me] # "Exited"
  BY <1>1, <1>2, <1>4, SlotFacts
<1>6. FirstProcess'
  BY <1>3, <1>4, SlotFacts DEF Ownership, FirstProcess
<1>7. SpacesOwned'
  BY <1>3 DEF Ownership, SpacesOwned
<1>8. ASSUME NEW q \in Pids, NEW s, Main(q)' = s, s # NO_THREAD
      PROVE  s \in UserSlots /\ process'[s] = q /\ ~ reapable'[s]
  <2>1. CASE q = p
    BY <1>3, <1>4, <1>8, <2>1
  <2>2. CASE q # p
    <3>1. s \in UserSlots /\ process[s] = q /\ ~ reapable[s]
      BY <1>3, <1>8, <2>2 DEF Ownership, MainsOwned
    <3>2. s # m
      BY <1>4, <1>8, <3>1
    <3> QED BY <1>4, <3>1, <3>2, SlotFacts
  <2> QED BY <2>1, <2>2
<1>9. ASSUME NEW s \in UserSlots, NEW q, ~ reapable'[s], s # 1, process'[s] = q
      PROVE  q \in Pids /\ Used(q)' /\ Main(q)' = s
  <2>1. CASE s = m
    BY <1>3, <1>4, <1>9, <2>1, SlotFacts
  <2>2. CASE s # m
    <3>1. q \in Pids /\ Used(q) /\ Main(q) = s
      BY <1>4, <1>9, <2>2, SlotFacts DEF Ownership, SlotsOwned
    <3> QED BY <1>3, <3>1
  <2> QED BY <2>1, <2>2
<1>10. ASSUME NEW x \in Slots, NEW q, NEW s, parked'[x].pid = q, parked'[x].thread = s
       PROVE  /\ parked'[x].op # "join"
              /\ parked'[x].op = "wait" => /\ x \in UserSlots /\ state'[x] # "Exited"
                                           /\ Used(q)' /\ Parent(q)' = process'[x] /\ Main(q)' = s
  <2>1. CASE x = m
    BY <1>4, <2>1, SlotFacts
  <2>2. CASE x # m
    BY <1>3, <1>4, <1>10, <2>2 DEF Ownership, WaitsForChild
  <2> QED BY <2>1, <2>2
<1>11. ASSUME NEW r \in Pids, NEW q, NEW s, Used(r)', Parent(r)' = q, q \notin {NoProcess, 1},
              Main(q)' = s
       PROVE  Used(q)' /\ s # NO_THREAD /\ state'[s] # "Exited"
  <2>1. CASE r = p
    BY <1>2, <1>3, <1>5, <1>11, <2>1, SlotFacts
  <2>2. CASE r # p
    <3>1. q \in Pids /\ Used(q) /\ Main(q) \in UserSlots /\ state[Main(q)] # "Exited"
      BY <1>3, <1>11, <2>2, ParentAlive
    <3> QED BY <1>3, <1>4, <1>11, <3>1, SlotFacts
  <2> QED BY <2>1, <2>2
<1> QED BY <1>6, <1>7, <1>8, <1>9, <1>10, <1>11, OwnershipNext

\* The end of a thread gives the children of its process to PID 1.
LEMMA ExitKeepsOwnership ==
  ASSUME TypeOK, JoinInv, Ownership, state[current] # "Exited", Exit
  PROVE  Ownership'
<1>t. /\ processes \in [Pids -> ProcessRecords] /\ reapable \in [Slots -> BOOLEAN]
      /\ state \in [Slots -> ThreadState]
  BY DEF TypeOK, ThreadsTypeOK
<1>1. PICK me : me = current
  OBVIOUS
<1>2. /\ me \in UserSlots /\ me \in Slots /\ process[me] \in Pids /\ Used(process[me])
      /\ parked[me].op = "user" /\ ~ reapable[me]
      /\ \/ me = 1 /\ process[me] = 1
         \/ me # 1 /\ process[me] # 1 /\ Main(process[me]) = me
  BY <1>1, AliveOwned, SlotFacts DEF InUser, Exit
<1>3. /\ processes' = Reparented(me) /\ UNCHANGED <<process, parked, roots>>
      /\ \A s \in Slots : reapable'[s] <=> reapable[s]
  BY <1>1, <1>2, <1>t DEF Exit
<1>4. \A x \in Slots : state'[x] = "Exited" => state[x] = "Exited" \/ x = me
  <2> DEFINE ended == [state EXCEPT ![me] = "Exited"]
             st == AfterWake(join_waiters[me], ended)
  <2>1. PICK order : Schedule(Enqueue(runQueue, order), st)
    BY <1>1 DEF Exit
  <2>2. DOMAIN st = Slots /\ \A x \in Slots : st[x] = "Exited" <=> ended[x] = "Exited"
    <3>1. DOMAIN st = Slots
      BY DEF AfterWake
    <3> QED BY <3>1, WakeEffect
  <2>3. \A x \in Slots : ended[x] = "Exited" => state[x] = "Exited" \/ x = me
    BY <1>t
  <2> HIDE DEF st, ended
  <2> QED BY <2>1, <2>2, <2>3, ScheduleEndsNobody
<1> DEFINE owners == {q \in Pids : processes[q].main_thread = me}
<1>5. /\ \A q \in Pids : Main(q) = me => q = process[me]
      /\ owners # {} => Min(owners) = process[me] /\ me # 1
  <2>1. \A q \in Pids : Main(q) = me => q = process[me] /\ me # 1
    BY <1>2, SlotFacts DEF Ownership, MainsOwned, FirstProcess
  <2>2. owners \subseteq {process[me]}
    BY <2>1 DEF Main
  <2>3. owners # {} => Min(owners) \in owners
    BY MinIsLeast, SlotFacts
  <2> QED BY <2>1, <2>2, <2>3 DEF Main
<1>6. me # 1 => owners # {}
  BY <1>2 DEF Main
<1>7. \A q \in Pids : /\ Used(q)' <=> Used(q)
                      /\ Main(q)' = Main(q) /\ Space(q)' = Space(q)
                      /\ Parent(q)' = IF me # 1 /\ Parent(q) = process[me] THEN 1 ELSE Parent(q)
  <2> SUFFICES ASSUME NEW q \in Pids
               PROVE  /\ Used(q)' <=> Used(q)
                      /\ Main(q)' = Main(q) /\ Space(q)' = Space(q)
                      /\ Parent(q)' = IF me # 1 /\ Parent(q) = process[me] THEN 1 ELSE Parent(q)
    OBVIOUS
  <2>1. processes'[q] = IF owners # {} /\ processes[q].parent = Min(owners)
                        THEN [processes[q] EXCEPT !.parent = 1] ELSE processes[q]
    BY <1>3 DEF Reparented, USER_PROCESS_ID
  <2>2. processes'[q] = IF me # 1 /\ processes[q].parent = process[me]
                        THEN [processes[q] EXCEPT !.parent = 1] ELSE processes[q]
    BY <1>5, <1>6, <2>1
  <2>3. processes[q] \in ProcessRecords
    BY <1>t
  <2> QED BY <2>2, <2>3 DEF ProcessRecords, EMPTY, Used, Main, Space, Parent
<1> HIDE DEF owners
<1>8. FirstProcess'
  BY <1>2, <1>3, <1>7, SlotFacts DEF Ownership, FirstProcess
<1>9. SpacesOwned'
  BY <1>3, <1>7 DEF Ownership, SpacesOwned
<1>10. ASSUME NEW q \in Pids, NEW s, Main(q)' = s, s # NO_THREAD
       PROVE  s \in UserSlots /\ process'[s] = q /\ ~ reapable'[s]
  BY <1>3, <1>7, <1>10, SlotFacts DEF Ownership, MainsOwned
<1>11. ASSUME NEW s \in UserSlots, NEW q, ~ reapable'[s], s # 1, process'[s] = q
       PROVE  q \in Pids /\ Used(q)' /\ Main(q)' = s
  BY <1>3, <1>7, <1>11, SlotFacts DEF Ownership, SlotsOwned
<1>12. ASSUME NEW x \in Slots, NEW q, NEW s, parked'[x].pid = q, parked'[x].thread = s
       PROVE  /\ parked'[x].op # "join"
              /\ parked'[x].op = "wait" => /\ x \in UserSlots /\ state'[x] # "Exited"
                                           /\ Used(q)' /\ Parent(q)' = process'[x] /\ Main(q)' = s
  <2>1. parked'[x] = parked[x] /\ parked[x].op # "join"
    BY <1>3 DEF Ownership, WaitsForChild
  <2>2. CASE parked[x].op = "wait"
    <3>1. /\ x \in UserSlots /\ state[x] # "Exited" /\ Used(q) /\ Parent(q) = process[x]
          /\ Main(q) = s /\ q \in Pids
      BY <1>12, <2>1, <2>2, ParkedTypes DEF Ownership, WaitsForChild, TypeOK
    <3>2. x # me /\ process[x] # process[me]
      BY <1>1, <1>2, <2>2, <3>1, OneThread
    <3> QED BY <1>3, <1>4, <1>7, <2>1, <3>1, <3>2
  <2> QED BY <2>1, <2>2
<1>13. ASSUME NEW r \in Pids, NEW q, NEW s, Used(r)', Parent(r)' = q, q \notin {NoProcess, 1},
              Main(q)' = s
       PROVE  Used(q)' /\ s # NO_THREAD /\ state'[s] # "Exited"
  <2>1. Parent(r) = q /\ Used(r) /\ q # process[me]
    BY <1>2, <1>7, <1>13
  <2>2. q \in Pids /\ Used(q) /\ Main(q) \in UserSlots /\ state[Main(q)] # "Exited"
    BY <1>13, <2>1, ParentAlive
  <2>3. Main(q) # me
    BY <1>5, <2>1, <2>2
  <2> QED BY <1>4, <1>7, <1>13, <2>2, <2>3, SlotFacts
<1> QED BY <1>8, <1>9, <1>10, <1>11, <1>12, <1>13, OwnershipNext

\* Reaping a child that has exited: nobody waits for it, so its slot is freed.
LEMMA ReapKeepsOwnership ==
  ASSUME TypeOK, JoinInv, TablesInv, Ownership, InUser, state[current] # "Exited",
         NEW p \in Pids, IsChild(p), ReapExited(p)
  PROVE  Ownership'
<1>1. PICK t, me : t = Main(p) /\ me = current
  OBVIOUS
<1>2. /\ Used(p) /\ t # NO_THREAD /\ t \in UserSlots /\ t \in Slots /\ me \in UserSlots
      /\ Parent(p) = process[me] /\ state[me] # "Exited" /\ parked[me].op = "user"
  BY <1>1, SlotFacts DEF IsChild, Main, Parent, Ownership, MainsOwned, InUser
<1>3. /\ state[t] = "Exited" /\ Release(p) /\ CollectExited(t)
      /\ UNCHANGED <<process, state, parked>>
  BY <1>1 DEF ReapExited, Main, queueVars
<1>4. Joiners(t) = {}
  <2> SUFFICES ASSUME NEW x \in Joiners(t) PROVE FALSE
    OBVIOUS
  <2>1. /\ x \in UserSlots /\ parked[x].op = "wait" /\ state[x] # "Exited"
        /\ process[x] = Parent(p)
    BY <1>1, <1>2, JoinerIsParent
  <2>2. x = me
    BY <1>2, <2>1, OneThread
  <2> QED BY <1>2, <2>1, <2>2
<1>5. join_waiters[t] = <<>>
  <2>1. Len(join_waiters[t]) = 0
    BY <1>2, <1>4, FS_EmptySet DEF TablesInv, JoinsExact
  <2>2. join_waiters[t] \in Seq(Slots)
    BY <1>2 DEF TypeOK, ThreadsTypeOK
  <2> QED BY <2>1, <2>2, EmptySeq
<1>6. reapable'[t] /\ \A s \in Slots : s # t => reapable'[s] = reapable[s]
  BY <1>2, <1>3, <1>5 DEF CollectExited, TypeOK, ThreadsTypeOK
<1>7. \A x \in Slots : parked[x].op = "wait" => parked[x].pid # p
  BY <1>1, <1>4 DEF Joiners, Ownership, WaitsForChild
<1> QED BY <1>1, <1>2, <1>3, <1>6, <1>7, ReleaseKeepsOwnership

\* wait_process() after it was blocked: the caller was the only one waiting, so
\* it frees the slot, and the record is still that of its child.
LEMMA WaitReturnKeepsOwnership ==
  ASSUME TypeOK, TypeOK', JoinInv, TablesInv', Ownership, state[current] # "Exited", WaitReturn
  PROVE  Ownership'
<1>1. PICK me, t, p : me = current /\ t = parked[me].thread /\ p = parked[me].pid
  OBVIOUS
<1>2. /\ me \in UserSlots /\ me \in Slots /\ parked[me].op = "wait" /\ state[me] # "Exited"
      /\ parked' = [parked EXCEPT ![me] = ReturnToUser]
      /\ UNCHANGED <<process, state>>
      /\ \/ JoinCollects(t) /\ Release(p)
         \/ state[t] # "Exited" /\ UNCHANGED <<reapable, join_waiters, processVars>>
  BY <1>1, SlotFacts DEF WaitReturn, Returning, queueVars
<1>3. /\ t \in Slots /\ p \in Pids /\ Used(p) /\ Main(p) = t /\ Parent(p) = process[me]
      /\ parked \in [Slots -> Continuations]
  BY <1>1, <1>2, ParkedTypes DEF TypeOK, ThreadsTypeOK, Ownership, WaitsForChild
<1>4. parked'[me].op = "user" /\ \A x \in Slots : x # me => parked'[x] = parked[x]
  BY <1>2, <1>3 DEF ReturnToUser, Continuation
<1>5. CASE JoinCollects(t) /\ Release(p)
  <2>1. \A x \in Joiners(t) : x = me
    BY <1>2, <1>3, JoinerIsParent, OneThread
  <2>2. Joiners(t)' = {}
    BY <1>1, <1>2, <1>4, <2>1 DEF Joiners
  <2>3. join_waiters'[t] = <<>>
    <3>1. Len(join_waiters'[t]) = 0
      BY <1>3, <2>2, FS_EmptySet DEF TablesInv, JoinsExact
    <3>2. join_waiters'[t] \in Seq(Slots)
      BY <1>3 DEF TypeOK, ThreadsTypeOK
    <3> QED BY <3>1, <3>2, EmptySeq
  <2>4. PICK rest : /\ join_waiters' = [join_waiters EXCEPT ![t] = rest] /\ state[t] = "Exited"
                    /\ reapable' = [reapable EXCEPT ![t] = @ \/ rest = <<>>]
    BY <1>5 DEF JoinCollects
  <2>5. rest = <<>>
    BY <1>3, <2>3, <2>4 DEF TypeOK, ThreadsTypeOK
  <2>6. reapable'[t] /\ \A s \in Slots : s # t => reapable'[s] = reapable[s]
    BY <1>3, <2>4, <2>5 DEF TypeOK, ThreadsTypeOK
  <2>7. \A x \in Slots : parked'[x].op = "wait" => parked[x].pid # p
    <3> SUFFICES ASSUME NEW x \in Slots, parked'[x].op = "wait", parked[x].pid = p PROVE FALSE
      OBVIOUS
    <3>1. x # me /\ parked[x].op = "wait"
      BY <1>4
    <3>2. parked[x].thread = t
      BY <1>3, <3>1 DEF Ownership, WaitsForChild
    <3> QED BY <2>1, <3>1, <3>2 DEF Joiners
  <2>8. \A x \in Slots : parked'[x] = parked[x] \/ parked'[x].op \notin {"join", "wait"}
    BY <1>4
  <2>9. Main(p) # NO_THREAD
    BY <1>3, SlotFacts
  <2> QED BY <1>2, <1>3, <1>5, <2>4, <2>6, <2>7, <2>8, <2>9, ReleaseKeepsOwnership
<1>6. CASE state[t] # "Exited" /\ UNCHANGED <<reapable, join_waiters, processVars>>
  <2>1. \A x \in Slots : parked'[x] = parked[x] \/ parked'[x].op \notin {"join", "wait"}
    BY <1>4
  <2> QED BY <1>2, <1>6, <2>1, OwnershipFrame DEF processVars
<1> QED BY <1>2, <1>5, <1>6

\* wait_process() of a child that still runs.
LEMMA WaitBlocksKeepsOwnership ==
  ASSUME TypeOK, QueueInv, TablesInv, Ownership, InUser, NEW p \in Pids, IsChild(p),
         NEW t, t = Main(p), JoinBlocks(t, Continuation("wait", t, p))
  PROVE  Ownership'
<1>1. PICK me, c : me = current /\ c = Continuation("wait", t, p)
  OBVIOUS
<1>2. Block(c) /\ UNCHANGED <<process, reapable, processes, roots>>
  BY <1>1 DEF JoinBlocks, processVars
<1>3. /\ me \in UserSlots /\ me \in Slots /\ state[me] = "Running"
      /\ parked' = [parked EXCEPT ![me] = c]
      /\ \A x \in Slots : state'[x] = "Exited" <=> state[x] = "Exited"
  BY <1>1, <1>2, BlockStatus DEF InUser, TablesInv
<1>4. /\ parked'[me] = c /\ c.op = "wait" /\ c.thread = t /\ c.pid = p
      /\ \A x \in Slots : x # me => parked'[x] = parked[x]
  BY <1>1, <1>3 DEF Continuation, TypeOK, ThreadsTypeOK
<1>5. Used(p) /\ Parent(p) = process[me] /\ t \in UserSlots
  BY <1>1 DEF IsChild, Parent, Main, Ownership, MainsOwned
<1>6. \A q : /\ Used(q)' <=> Used(q)
             /\ Main(q)' = Main(q) /\ Space(q)' = Space(q) /\ Parent(q)' = Parent(q)
  BY <1>2 DEF Used, Main, Space, Parent
<1>7. FirstProcess' /\ SpacesOwned'
  BY <1>2, <1>6 DEF Ownership, FirstProcess, SpacesOwned
<1>8. ASSUME NEW x \in Slots, NEW q, NEW s, parked'[x].pid = q, parked'[x].thread = s
      PROVE  /\ parked'[x].op # "join"
             /\ parked'[x].op = "wait" => /\ x \in UserSlots /\ state'[x] # "Exited"
                                          /\ Used(q)' /\ Parent(q)' = process'[x] /\ Main(q)' = s
  <2>1. CASE x = me
    BY <1>2, <1>3, <1>4, <1>5, <1>6, <1>8, <2>1
  <2>2. CASE x # me
    BY <1>2, <1>3, <1>4, <1>6, <1>8, <2>2 DEF Ownership, WaitsForChild
  <2> QED BY <2>1, <2>2
<1>9. ASSUME NEW r \in Pids, NEW q, NEW s, Used(r)', Parent(r)' = q, q \notin {NoProcess, 1},
             Main(q)' = s
      PROVE  Used(q)' /\ s # NO_THREAD /\ state'[s] # "Exited"
  <2>1. q \in Pids /\ Used(q) /\ Main(q) \in UserSlots /\ state[Main(q)] # "Exited"
    BY <1>6, <1>9, ParentAlive
  <2> QED BY <1>3, <1>6, <1>9, <2>1, SlotFacts
<1>10. ASSUME NEW q \in Pids, NEW s, Main(q)' = s, s # NO_THREAD
       PROVE  s \in UserSlots /\ process'[s] = q /\ ~ reapable'[s]
  BY <1>2, <1>6, <1>10 DEF Ownership, MainsOwned
<1>11. ASSUME NEW s \in UserSlots, NEW q, ~ reapable'[s], s # 1, process'[s] = q
       PROVE  q \in Pids /\ Used(q)' /\ Main(q)' = s
  BY <1>2, <1>6, <1>11 DEF Ownership, SlotsOwned
<1> QED BY <1>7, <1>8, <1>9, <1>10, <1>11, OwnershipNext

\* No other step than these touches the table of processes and its slots.
LEMMA OwnershipStep ==
  ASSUME TypeOK, TypeOK', JoinInv, QueueInv, TablesInv, TablesInv', Ownership, [Next]_vars,
         OnlyProcessCalls
  PROVE  Ownership'
<1> USE DEF tableVars, queueVars, processVars
<1>s. /\ ThreadsTypeOK /\ state \in [Slots -> ThreadState] /\ DOMAIN state = Slots
      /\ parked \in [Slots -> Continuations] /\ IDLE_THREAD \in Slots
  BY SlotFacts DEF TypeOK, ThreadsTypeOK
<1>u. InUser => current \in UserSlots /\ current \in Slots /\ state[current] = "Running"
  BY SlotFacts DEF InUser, QueueInv
<1>o. {"thread_create", "join", "terminate"} \cap Syscalls = {}
  BY DEF OnlyProcessCalls
<1>f. ASSUME UNCHANGED <<process, reapable, processes, roots>>,
             \A x \in Slots : parked'[x] = parked[x] \/ parked'[x].op \notin {"join", "wait"},
             \A x \in Slots : state'[x] = "Exited" => state[x] = "Exited"
      PROVE  Ownership'
  BY <1>f, OwnershipFrame
<1>1. CASE Start /\ UNCHANGED waitVars
  <2>1. PICK n : state' = [[state EXCEPT ![IDLE_THREAD] = "Ready"] EXCEPT ![n] = "Running"]
    BY <1>1 DEF Start
  <2>2. \A x \in Slots : state'[x] = "Exited" => state[x] = "Exited"
    BY <1>s, <2>1
  <2> QED BY <1>1, <1>f, <2>2 DEF Start
<1>2. CASE Yield /\ UNCHANGED waitVars
  <2>1. PICK q, st : Schedule(q, st) /\ st = [state EXCEPT ![current] = "Ready"]
    BY <1>2 DEF Yield
  <2>2. DOMAIN st = Slots /\ \A x \in Slots : st[x] = "Exited" => state[x] = "Exited"
    BY <1>s, <2>1
  <2>3. \A x \in Slots : state'[x] = "Exited" => state[x] = "Exited"
    BY <2>1, <2>2, ScheduleEndsNobody
  <2> QED BY <1>2, <1>f, <2>3 DEF Yield
<1>3. CASE IdleYield /\ UNCHANGED waitVars
  <2>1. \A x \in Slots : state'[x] = "Exited" => state[x] = "Exited"
    BY <1>s, <1>3, ScheduleEndsNobody DEF IdleYield
  <2>2. \A x \in Slots : parked'[x] = parked[x] \/ parked'[x].op \notin {"join", "wait"}
    BY <1>s, <1>3 DEF IdleYield, Continuations
  <2> QED BY <1>3, <1>f, <2>1, <2>2 DEF IdleYield
<1>4. CASE ProcessSpawn /\ UNCHANGED waitVars
  <2>1. PICK p, t, r : p = Min(FreePids) /\ t = Min(FreeSlots) /\ r = Min(FreeRoots)
    OBVIOUS
  <2>2. /\ InUser /\ roots' = roots \cup {r} /\ RecordProcess(p, r, t) /\ SpawnInto(t, p)
        /\ FreeRoots # {} /\ FreePids # {} /\ FreeSlots # {}
    BY <1>4, <2>1 DEF ProcessSpawn
  <2>3. p \in FreePids /\ t \in FreeSlots /\ r \in FreeRoots
    <3>1. FreePids \subseteq Nat /\ FreeSlots \subseteq Nat /\ FreeRoots \subseteq Nat
      BY SlotFacts DEF FreePids, FreeSlots, FreeRoots
    <3> QED BY <2>1, <2>2, <3>1, MinIsLeast
  <2>4. p \in Pids /\ p # 1 /\ ~ Used(p) /\ r \in Roots \ roots
    BY <2>3 DEF FreePids, FreeRoots, USER_PROCESS_ID
  <2> QED BY <1>u, <2>2, <2>3, <2>4, RecordKeepsOwnership
<1>5. CASE ProcessSpawnFails /\ UNCHANGED waitVars
  <2>1. PICK p, r : p = Min(FreePids) /\ r = Min(FreeRoots)
    OBVIOUS
  <2>2. /\ InUser /\ roots' = roots \cup {r} /\ FreeRoots # {}
        /\ \/ FreePids = {} /\ UNCHANGED processes
           \/ FreePids # {} /\ RecordProcess(p, r, NO_THREAD)
        /\ UNCHANGED <<process, reapable, parked, state>>
    BY <1>5, <2>1 DEF ProcessSpawnFails
  <2>3. CASE FreePids = {} /\ UNCHANGED processes
    BY <2>2, <2>3
    DEF Ownership, FirstProcess, MainsOwned, SlotsOwned, SpacesOwned, WaitsForChild, NoOrphans,
        Used, Main, Space, Parent
  <2>4. CASE FreePids # {} /\ RecordProcess(p, r, NO_THREAD)
    <3>1. FreePids \subseteq Nat /\ FreeRoots \subseteq Nat
      BY SlotFacts DEF FreePids, FreeRoots
    <3>2. p \in FreePids /\ r \in FreeRoots
      BY <2>1, <2>2, <2>4, <3>1, MinIsLeast
    <3>3. p \in Pids /\ p # 1 /\ ~ Used(p) /\ r \in Roots \ roots
      BY <3>2 DEF FreePids, FreeRoots, USER_PROCESS_ID
    <3> QED BY <1>u, <2>2, <2>4, <3>3, RecordKeepsOwnership
  <2> QED BY <2>2, <2>3, <2>4
<1>6. CASE Exit /\ UNCHANGED waitVars
  <2>1. InUser
    BY <1>6 DEF Exit
  <2> QED BY <1>6, <1>u, <2>1, ExitKeepsOwnership
<1>7. CASE WaitReturn /\ UNCHANGED waitVars
  <2>1. state[current] # "Exited"
    BY <1>7, SlotFacts DEF WaitReturn, Returning, QueueInv
  <2> QED BY <1>7, <2>1, WaitReturnKeepsOwnership
<1>8. CASE ReapAnyChild /\ UNCHANGED waitVars
  <2>1. PICK p : p = Min(ExitedChildren)
    OBVIOUS
  <2>2. InUser /\ ExitedChildren # {} /\ ReapExited(p)
    BY <1>8, <2>1 DEF ReapAnyChild
  <2>3. p \in ExitedChildren
    BY <2>1, <2>2, MinIsLeast, SlotFacts DEF ExitedChildren
  <2> QED BY <1>u, <2>2, <2>3, ReapKeepsOwnership DEF ExitedChildren
<1>9. ASSUME NEW p \in Pids, WaitProcess(p), UNCHANGED waitVars PROVE Ownership'
  <2>1. InUser /\ IsChild(p)
    BY <1>9 DEF WaitProcess
  <2>2. CASE ReapExited(p)
    BY <1>u, <2>1, <2>2, ReapKeepsOwnership
  <2>3. ASSUME NEW t, t = Main(p), JoinBlocks(t, Continuation("wait", t, p)) PROVE Ownership'
    BY <2>1, <2>3, WaitBlocksKeepsOwnership
  <2> QED BY <1>9, <2>2, <2>3 DEF WaitProcess, Main
<1>10. ASSUME NEW p \in Pids, TryWaitProcess(p) PROVE Ownership'
  BY <1>10, <1>u, ReapKeepsOwnership DEF TryWaitProcess
<1>11. ASSUME NEW c, InUser, Block(c), c.op \in {"sleep", "futex"}, UNCHANGED <<tableVars, processVars>>
       PROVE  Ownership'
  <2>1. /\ current \in Slots /\ parked' = [parked EXCEPT ![current] = c]
        /\ \A x \in Slots : state'[x] = "Exited" <=> state[x] = "Exited"
    BY <1>11, BlockStatus DEF TablesInv
  <2>2. \A x \in Slots : parked'[x] = parked[x] \/ parked'[x].op \notin {"join", "wait"}
    BY <1>s, <1>11, <2>1
  <2> QED BY <1>11, <1>f, <2>1, <2>2
<1>12. ASSUME NEW ms \in 1 .. MaxDelay, Sleep(ms) PROVE Ownership'
  BY <1>11, <1>12 DEF Sleep, Continuation
<1>13. ASSUME NEW a \in Addresses, NEW d \in Timeouts, FutexWait(a, d) PROVE Ownership'
  BY <1>11, <1>13 DEF FutexWait, Continuation
<1>14. ASSUME NEW f, WakeAll(f) PROVE \A x \in Slots : state'[x] = "Exited" => state[x] = "Exited"
  BY <1>14, WakeEffect DEF WakeAll
<1>15. ASSUME NEW a \in Addresses, NEW n \in 1 .. MaxFutexWaiters, FutexWake(a, n)
       PROVE  Ownership'
  BY <1>f, <1>14, <1>15 DEF FutexWake
<1>16. ASSUME parked' = AfterInterrupt
       PROVE  \A x \in Slots : parked'[x] = parked[x] \/ parked'[x].op \notin {"join", "wait"}
  BY <1>s, <1>16 DEF AfterInterrupt, Continuations
<1>17. CASE Tick
  BY <1>f, <1>14, <1>16, <1>17 DEF Tick
<1>18. CASE OtherInterrupt
  BY <1>f, <1>16, <1>18 DEF OtherInterrupt
<1>19. CASE SleepReturn
  <2>1. \A x \in Slots : parked'[x] = parked[x] \/ parked'[x].op \notin {"join", "wait"}
    BY <1>s, <1>19, SlotFacts DEF SleepReturn, Returning, ReturnToUser, Continuation
  <2> QED BY <1>f, <1>19, <2>1 DEF SleepReturn
<1>20. CASE UNCHANGED vars
  BY <1>f, <1>20 DEF vars, threadVars
<1>21. ~ JoinReturn
  BY SlotFacts DEF JoinReturn, Returning, Ownership, WaitsForChild
<1>22. /\ ~ ThreadCreate
       /\ \A t \in Slots : ~ Join(t)
       /\ \A p \in Pids : ~ TerminateProcess(p)
  BY <1>o DEF ThreadCreate, Join, TerminateProcess
<1> QED
  BY <1>1, <1>2, <1>3, <1>4, <1>5, <1>6, <1>7, <1>8, <1>9, <1>10, <1>12, <1>13, <1>15,
     <1>17, <1>18, <1>19, <1>20, <1>21, <1>22 DEF Next, ThreadsNext

\* A process keeps its address space as long as it is recorded, and a thread
\* that has not exited its process.
LEMMA SpacesKept ==
  ASSUME TypeOK, [Next]_vars
  PROVE  /\ \A p \in Pids : Used(p) /\ Used(p)' => Space(p)' = Space(p)
         /\ \A t \in Slots : state[t] # "Exited" => process'[t] = process[t]
<1> USE DEF tableVars, queueVars, processVars
<1>t. /\ processes \in [Pids -> ProcessRecords] /\ process \in [Slots -> Pids \cup {NoProcess}]
  BY DEF TypeOK, ThreadsTypeOK
<1> DEFINE Kept == /\ \A p \in Pids : Used(p) /\ Used(p)' => Space(p)' = Space(p)
                   /\ \A t \in Slots : state[t] # "Exited" => process'[t] = process[t]
<1>f. ASSUME UNCHANGED <<process, processes>> PROVE Kept
  BY <1>f DEF Used, Space
<1>s. FreeSlots # {} => Min(FreeSlots) \in Slots /\ state[Min(FreeSlots)] = "Exited"
  <2>1. FreeSlots \subseteq Nat
    BY SlotFacts DEF FreeSlots
  <2> QED BY <2>1, MinIsLeast, SlotFacts DEF FreeSlots
<1>p. FreePids # {} => Min(FreePids) \in Pids /\ ~ Used(Min(FreePids))
  <2>1. FreePids \subseteq Nat
    BY SlotFacts DEF FreePids
  <2> QED BY <2>1, MinIsLeast DEF FreePids
<1>n. ASSUME FreeSlots # {}, NEW p, SpawnInto(Min(FreeSlots), p)
      PROVE  \A t \in Slots : state[t] # "Exited" => process'[t] = process[t]
  BY <1>t, <1>s, <1>n DEF SpawnInto
<1>r. ASSUME FreePids # {}, NEW root, NEW m, RecordProcess(Min(FreePids), root, m)
      PROVE  \A p \in Pids : Used(p) => Space(p)' = Space(p)
  BY <1>t, <1>p, <1>r DEF RecordProcess, Used, Space
<1>e. ASSUME NEW p \in Pids, Release(p), UNCHANGED process PROVE Kept
  BY <1>t, <1>e DEF Release, Used, Space, EMPTY
<1>1. ASSUME ProcessSpawn PROVE Kept
  BY <1>1, <1>n, <1>r DEF ProcessSpawn
<1>2. ASSUME ProcessSpawnFails PROVE Kept
  BY <1>2, <1>f, <1>r DEF ProcessSpawnFails
<1>3. ASSUME ThreadCreate PROVE Kept
  BY <1>3, <1>n DEF ThreadCreate, Used, Space
<1>4. ASSUME Exit PROVE Kept
  <2>1. process' = process /\ processes' = Reparented(current)
    BY <1>4 DEF Exit
  <2>2. ASSUME NEW p \in Pids PROVE Space(p)' = Space(p)
    <3>1. processes'[p] = processes[p] \/ processes'[p] = [processes[p] EXCEPT !.parent = 1]
      BY <2>1 DEF Reparented, USER_PROCESS_ID
    <3>2. processes[p] \in ProcessRecords
      BY <1>t
    <3> QED BY <3>1, <3>2 DEF Space, ProcessRecords, EMPTY
  <2> QED BY <2>1, <2>2
<1>5. ASSUME WaitReturn PROVE Kept
  <2>1. current \in Slots /\ parked[current].op = "wait"
    BY <1>5, SlotFacts DEF WaitReturn, Returning
  <2>2. parked[current].pid \in Pids
    BY <2>1, ParkedTypes DEF TypeOK
  <2> QED BY <1>5, <1>e, <1>f, <2>2 DEF WaitReturn
<1>6. ASSUME NEW p \in Pids, WaitProcess(p) \/ TryWaitProcess(p) \/ TerminateProcess(p) PROVE Kept
  BY <1>6, <1>e, <1>f DEF WaitProcess, TryWaitProcess, TerminateProcess, ReapExited, JoinBlocks
<1>7. ASSUME ReapAnyChild PROVE Kept
  <2>1. ExitedChildren # {} /\ ExitedChildren \subseteq Pids /\ Pids \subseteq Nat
    BY <1>7, SlotFacts DEF ReapAnyChild, ExitedChildren
  <2>2. Min(ExitedChildren) \in Pids
    BY <2>1, MinIsLeast
  <2> QED BY <1>7, <1>e, <2>2 DEF ReapAnyChild, ReapExited
<1>8. ASSUME UNCHANGED <<process, processes>> PROVE Kept
  BY <1>8, <1>f
<1> HIDE DEF Kept
<1>9. Kept
  BY <1>1, <1>2, <1>3, <1>4, <1>5, <1>6, <1>7, <1>8
  DEF Next, ThreadsNext, Start, Yield, IdleYield, JoinReturn, Join, JoinBlocks, SleepReturn, Tick,
      OtherInterrupt, Sleep, FutexWait, FutexWake, vars, threadVars
<1> QED BY <1>9 DEF Kept

\* The CPU changes hands in the scheduler only, which changes no process and
\* ends at most the thread it takes the CPU from.
LEMMA CpuStep ==
  ASSUME TypeOK, [Next]_vars, "terminate" \notin Syscalls, NEW me, me = current
  PROVE  \/ Start
         \/ UNCHANGED vars
         \/ me \in Slots /\ UNCHANGED <<current, cr3>>
         \/ /\ me \in Slots /\ process' = process
            /\ \A p \in Pids : Used(p)' <=> Used(p)
            /\ \E q, st : /\ Schedule(q, st) /\ DOMAIN st = Slots
                          /\ st[IDLE_THREAD] = "Exited" => state[IDLE_THREAD] = "Exited"
<1> USE DEF tableVars, queueVars, processVars
<1>s. /\ DOMAIN state = Slots /\ IDLE_THREAD \in Slots /\ processes \in [Pids -> ProcessRecords]
  BY SlotFacts DEF TypeOK, ThreadsTypeOK
<1>u. InUser => me \in Slots /\ me # IDLE_THREAD
  BY SlotFacts DEF InUser
<1> DEFINE Keeps == me \in Slots /\ UNCHANGED <<current, cr3>>
           Switches == /\ me \in Slots /\ process' = process
                       /\ \A p \in Pids : Used(p)' <=> Used(p)
                       /\ \E q, st : /\ Schedule(q, st) /\ DOMAIN st = Slots
                                     /\ st[IDLE_THREAD] = "Exited" => state[IDLE_THREAD] = "Exited"
<1>b. ASSUME InUser, NEW c, Block(c), UNCHANGED <<process, processes>> PROVE Switches
  <2>1. PICK q, st : Schedule(q, st) /\ st = [state EXCEPT ![me] = "Blocked"]
    BY <1>b DEF Block
  <2>2. DOMAIN st = Slots /\ st[IDLE_THREAD] = state[IDLE_THREAD]
    BY <1>b, <1>s, <1>u, <2>1
  <2> QED BY <1>b, <1>u, <2>1, <2>2 DEF Used
<1>1. ASSUME Yield PROVE Switches
  <2>1. PICK q, st : Schedule(q, st) /\ st = [state EXCEPT ![me] = "Ready"]
    BY <1>1 DEF Yield
  <2>2. InUser /\ UNCHANGED <<process, processes>>
    BY <1>1 DEF Yield
  <2>3. DOMAIN st = Slots /\ st[IDLE_THREAD] = state[IDLE_THREAD]
    BY <1>s, <1>u, <2>1, <2>2
  <2> QED BY <1>u, <2>1, <2>2, <2>3 DEF Used
<1>2. ASSUME IdleYield PROVE Switches
  BY <1>2, <1>s DEF IdleYield, Used
<1>3. ASSUME Exit PROVE Switches
  <2>1. PICK w, ended : w = join_waiters[me] /\ ended = [state EXCEPT ![me] = "Exited"]
    OBVIOUS
  <2>2. PICK q, st : Schedule(q, st) /\ st = AfterWake(w, ended)
    BY <1>3, <2>1 DEF Exit
  <2>3. InUser /\ UNCHANGED process /\ processes' = Reparented(me)
    BY <1>3 DEF Exit
  <2>4. DOMAIN st = Slots /\ (st[IDLE_THREAD] = "Exited" <=> ended[IDLE_THREAD] = "Exited")
    <3>1. DOMAIN st = Slots
      BY <2>2 DEF AfterWake
    <3> QED BY <1>s, <2>2, <3>1, WakeEffect
  <2>5. ended[IDLE_THREAD] = state[IDLE_THREAD]
    BY <1>s, <1>u, <2>1, <2>3
  <2>6. ASSUME NEW p \in Pids PROVE Used(p)' <=> Used(p)
    <3>1. processes'[p] = processes[p] \/ processes'[p] = [processes[p] EXCEPT !.parent = 1]
      BY <2>3 DEF Reparented, USER_PROCESS_ID
    <3>2. processes[p] \in ProcessRecords
      BY <1>s
    <3> QED BY <3>1, <3>2 DEF Used, ProcessRecords, EMPTY
  <2> QED BY <1>u, <2>2, <2>3, <2>4, <2>5, <2>6
<1>4. ASSUME NEW p \in Pids, WaitProcess(p) PROVE Keeps \/ Switches
  BY <1>4, <1>b, <1>u DEF WaitProcess, ReapExited, JoinBlocks
<1>5. ASSUME NEW t \in Slots, Join(t) PROVE Keeps \/ Switches
  BY <1>5, <1>b, <1>u DEF Join, JoinBlocks
<1>6. ASSUME NEW ms \in 1 .. MaxDelay, Sleep(ms) PROVE Switches
  BY <1>6, <1>b DEF Sleep
<1>7. ASSUME NEW a \in Addresses, NEW d \in Timeouts, FutexWait(a, d) PROVE Switches
  BY <1>7, <1>b DEF FutexWait
<1>8. ASSUME NEW p \in Pids, TryWaitProcess(p) PROVE Keeps
  BY <1>8, <1>u DEF TryWaitProcess, ReapExited
<1>9. ASSUME ProcessSpawn \/ ProcessSpawnFails \/ ThreadCreate \/ ReapAnyChild PROVE Keeps
  BY <1>9, <1>u DEF ProcessSpawn, ProcessSpawnFails, ThreadCreate, ReapAnyChild, ReapExited, SpawnInto
<1>10. ASSUME WaitReturn \/ JoinReturn \/ SleepReturn PROVE Keeps
  BY <1>10, SlotFacts DEF WaitReturn, JoinReturn, SleepReturn, Returning
<1>11. ASSUME Tick \/ OtherInterrupt PROVE Keeps
  BY <1>11, <1>s, <1>u DEF Tick, OtherInterrupt, WakeAll, Interruptible
<1>12. ASSUME NEW a \in Addresses, NEW n \in 1 .. MaxFutexWaiters, FutexWake(a, n) PROVE Keeps
  BY <1>12, <1>u DEF FutexWake, WakeAll
<1>13. \A p \in Pids : ~ TerminateProcess(p)
  BY DEF TerminateProcess
<1> HIDE DEF Keeps, Switches
<1>14. Start \/ UNCHANGED vars \/ Keeps \/ Switches
  BY <1>1, <1>2, <1>3, <1>4, <1>5, <1>6, <1>7, <1>8, <1>9, <1>10, <1>11, <1>12, <1>13
  DEF Next, ThreadsNext
<1> QED BY <1>14 DEF Keeps, Switches

\* Whoever is given the CPU finds the address space of its process active: the
\* scheduler activates it, or the thread is the one it was last active for.
LEMMA ActiveSpaceStep ==
  ASSUME TypeOK, TypeOK', JoinInv, JoinInv', QueueInv, QueueInv', TablesInv, Ownership, Ownership',
         ActiveSpace, [Next]_vars, "terminate" \notin Syscalls
  PROVE  ActiveSpace'
<1>t. /\ state \in [Slots -> ThreadState] /\ runQueue \in Seq(Slots) /\ IDLE_THREAD \in Slots
  BY SlotFacts DEF TypeOK, ThreadsTypeOK
<1>1. PICK me, next : me = current /\ next = current'
  OBVIOUS
<1>2. ASSUME next \in UserSlots, NEW p, p = process'[next]
      PROVE  p \in Pids /\ Used(p)' /\ next \in Slots /\ state'[next] = "Running"
  <2>1. next \in Slots /\ state'[next] = "Running"
    BY <1>1, <1>2, SlotFacts DEF QueueInv
  <2>2. CASE next = 1
    BY <1>2, <2>1, <2>2, SlotFacts DEF Ownership, FirstProcess, Used
  <2>3. CASE next # 1
    <3>1. ~ reapable'[next]
      BY <1>2, <2>1 DEF JoinInv, ReapableIsIdle
    <3> QED BY <1>2, <2>1, <2>3, <3>1 DEF Ownership, SlotsOwned, Used
  <2> QED BY <2>1, <2>2, <2>3
<1>3. ASSUME next \in UserSlots => \A p : p = process'[next] => cr3' = Space(p)',
             next # NO_THREAD
      PROVE  ActiveSpace'
  BY <1>1, <1>3 DEF ActiveSpace, Space
<1>4. CASE Start
  <2> DEFINE q == Enqueue(runQueue, <<IDLE_THREAD>>)
             st == [state EXCEPT ![IDLE_THREAD] = "Ready"]
  <2>1. current = NO_THREAD /\ next = NextReady(q, st) /\ cr3' = cr3
    BY <1>1, <1>4 DEF Start
  <2>2. /\ \A x \in Slots : st[x] = "Ready" <=> state[x] = "Ready" \/ x = IDLE_THREAD
        /\ state[IDLE_THREAD] = "Exited" /\ QueueExact(runQueue, state)
    BY <1>t, <2>1 DEF QueueInv
  <2> HIDE DEF st
  <2>3. q \in Seq(Slots) /\ Len(q) <= MaxThreads /\ QueueExact(q, st)
    BY <1>t, <2>2, AddOneExact
  <2> HIDE DEF q
  <2>4. next \in Slots /\ (next = IDLE_THREAD \/ state[next] = "Ready")
    BY <2>1, <2>2, <2>3, NextIsReady
  <2>5. cr3 = 1 /\ \A x \in Slots : state[x] = "Ready" => x = 1
    BY <2>1, <2>2 DEF ActiveSpace, QueueExact, Range
  <2>6. next = IDLE_THREAD \/ next = 1
    BY <2>4, <2>5
  <2>7. process'[1] = 1 /\ Space(1)' = 1
    BY DEF Ownership, FirstProcess, Space
  <2> QED BY <1>3, <2>1, <2>4, <2>5, <2>6, <2>7, SlotFacts
<1>5. CASE UNCHANGED vars
  BY <1>5 DEF vars, threadVars, tableVars, queueVars, processVars, ActiveSpace, Space
<1>6. ASSUME me \in UserSlots, NEW p, p = process[me], p = process'[me] PROVE Used(p) /\ cr3 = Space(p)
  <2>1. state[me] # "Exited"
    BY <1>1, <1>6, SlotFacts DEF QueueInv
  <2> QED BY <1>1, <1>6, <2>1, AliveOwned DEF ActiveSpace
<1>7. CASE me \in Slots /\ UNCHANGED <<current, cr3>>
  <2>1. ASSUME next \in UserSlots, NEW p, p = process'[next] PROVE cr3' = Space(p)'
    <3>1. me = next /\ me \in Slots /\ state[me] # "Exited"
      BY <1>1, <1>7 DEF QueueInv
    <3>2. p = process[me]
      BY <2>1, <3>1, SpacesKept
    <3> QED BY <1>2, <1>6, <1>7, <2>1, <3>1, <3>2, SpacesKept
  <2> QED BY <1>1, <1>3, <1>7, <2>1, SlotFacts
<1>8. CASE /\ me \in Slots /\ process' = process
           /\ \A p \in Pids : Used(p)' <=> Used(p)
           /\ \E q, st : /\ Schedule(q, st) /\ DOMAIN st = Slots
                         /\ st[IDLE_THREAD] = "Exited" => state[IDLE_THREAD] = "Exited"
  <2>1. PICK q, st : /\ Schedule(q, st) /\ DOMAIN st = Slots
                     /\ st[IDLE_THREAD] = "Exited" => state[IDLE_THREAD] = "Exited"
    BY <1>8
  <2>2. next # NO_THREAD
    <3>1. state[IDLE_THREAD] # "Exited"
      BY <1>1, <1>8, SlotFacts DEF TablesInv, IdleAlive
    <3>2. state'[IDLE_THREAD] # "Exited"
      BY <1>t, <2>1, <3>1, ScheduleEndsNobody
    <3> QED BY <1>1, <3>2 DEF QueueInv
  <2>3. ASSUME next \in UserSlots, NEW p, p = process'[next] PROVE cr3' = Space(p)'
    <3>1. p = process[next] /\ p \in Pids /\ Used(p) /\ Used(p)' /\ p # NoProcess
      BY <1>2, <1>8, <2>3, SlotFacts
    <3>2. Space(p)' = Space(p)
      BY <3>1, SpacesKept
    <3>3. next # me => cr3' = Space(p)
      BY <1>1, <2>1, <3>1 DEF Schedule, Space
    <3>4. next = me => cr3' = cr3 /\ cr3 = Space(p)
      BY <1>1, <1>6, <2>1, <2>3, <3>1 DEF Schedule
    <3> QED BY <3>2, <3>3, <3>4
  <2> QED BY <1>3, <2>2, <2>3
<1> QED BY <1>1, <1>4, <1>5, <1>7, <1>8, CpuStep

LEMMA ProcessInit == Init => ProcessInv
<1> SUFFICES ASSUME Init PROVE Ownership /\ ActiveSpace
  BY DEF ProcessInv
<1>1. /\ state = [t \in Slots |-> IF t = 1 THEN "Ready" ELSE "Exited"]
      /\ process = [t \in Slots |-> IF t = 1 THEN 1 ELSE NoProcess]
      /\ reapable = [t \in Slots |-> t # 1]
      /\ \A t \in Slots : parked[t].op \in {"start", "user"}
      /\ runQueue = <<1>> /\ current = NO_THREAD /\ cr3 = 1 /\ roots = {1}
  BY DEF Init, ThreadsInit, USER_PROCESS_ID, ReturnToUser, Continuation
<1>2. PICK first : /\ first = [EMPTY EXCEPT !.id = 1, !.address_space = 1]
                   /\ processes = [p \in Pids |-> IF p = 1 THEN first ELSE EMPTY]
  BY DEF Init, ThreadsInit, USER_PROCESS_ID
<1>r. /\ first.id = 1 /\ first.address_space = 1 /\ first.parent = NoProcess
      /\ first.main_thread = NO_THREAD
  BY <1>2 DEF EMPTY
<1>3. /\ 1 \in Slots /\ 1 \in Pids /\ 1 # NoProcess
      /\ \A p \in Pids : /\ Used(p) <=> p = 1
                         /\ Main(p) = NO_THREAD /\ Parent(p) = NoProcess
      /\ Space(1) = 1
  BY <1>2, <1>r, SlotFacts DEF Used, Main, Parent, Space, EMPTY
<1>4. FirstProcess
  BY <1>1, <1>3 DEF FirstProcess
<1>5. MainsOwned /\ SlotsOwned /\ SpacesOwned
  BY <1>1, <1>3, SlotFacts DEF MainsOwned, SlotsOwned, SpacesOwned
<1>6. WaitsForChild
  BY <1>1 DEF WaitsForChild
<1>7. NoOrphans
  BY <1>3 DEF NoOrphans, Parent
<1>8. ActiveSpace
  BY <1>1, <1>3, SlotFacts DEF ActiveSpace
<1> QED BY <1>4, <1>5, <1>6, <1>7, <1>8 DEF Ownership

LEMMA ProcessStep ==
  ASSUME TypeOK, TypeOK', JoinInv, JoinInv', WaitInv, WaitInv', ProcessInv, [Next]_vars
  PROVE  ProcessInv'
<1> SUFFICES ASSUME OnlyProcessCalls PROVE Ownership' /\ ActiveSpace'
  BY DEF ProcessInv, OnlyProcessCalls
<1>1. "terminate" \notin Syscalls /\ Ownership /\ ActiveSpace
  BY DEF OnlyProcessCalls, ProcessInv
<1>2. QueueInv /\ TablesInv /\ QueueInv' /\ TablesInv'
  BY <1>1 DEF WaitInv
<1>3. Ownership'
  BY <1>1, <1>2, OwnershipStep
<1> QED BY <1>1, <1>2, <1>3, ActiveSpaceStep

LEMMA ProcessInvariant == Spec => [](TypeOK /\ JoinInv /\ WaitInv /\ ProcessInv)
BY ProcessInit, ProcessStep, WaitInvariant, JoinTargetsSafe, PTL DEF Spec

\* For programs that collect processes by the wait calls only, user code always
\* runs in the address space recorded for its own process, whose page-table
\* root has not been freed: schedule_from_current() keeps CR3 when it resumes
\* the caller or goes idle, and no reaping, failed spawn or pid reuse in
\* between changes whose tables those are.
THEOREM RunsInOwnSpace == Spec => [](OnlyProcessCalls => OwnAddressSpace)
<1>1. TypeOK /\ JoinInv /\ WaitInv /\ ProcessInv => (OnlyProcessCalls => OwnAddressSpace)
  <2> SUFFICES ASSUME TypeOK, JoinInv, QueueInv, Ownership, ActiveSpace, InUser,
                      NEW me, me = current
               PROVE  /\ Used(process[me]) /\ cr3 = Space(process[me]) /\ cr3 \in roots
    BY DEF ProcessInv, WaitInv, OnlyProcessCalls, OwnAddressSpace, Space
  <2>1. me \in UserSlots /\ state[me] # "Exited"
    BY SlotFacts DEF InUser, QueueInv
  <2>2. process[me] \in Pids /\ Used(process[me])
    BY <2>1, AliveOwned
  <2> QED BY <2>1, <2>2 DEF ActiveSpace, Ownership, SpacesOwned
<1> QED BY <1>1, ProcessInvariant, PTL

\* For such programs some process remains responsible for every process: the
\* exit of a parent hands all its children to PID 1, and no child is recorded
\* for a parent whose main thread has exited.
THEOREM NobodyIsOrphaned == Spec => [](OnlyProcessCalls => NoOrphans)
<1>1. ProcessInv => (OnlyProcessCalls => NoOrphans)
  BY DEF ProcessInv, Ownership
<1> QED BY <1>1, ProcessInvariant, PTL

\* For such programs a process that has been reaped leaves no zombie: the slot
\* of an exited thread that is not free is still named by a process that can be
\* reaped.
THEOREM NoZombieRemains == Spec => [](OnlyProcessCalls => NoZombies)
<1>1. ProcessInv => (OnlyProcessCalls => NoZombies)
  <2> SUFFICES ASSUME Ownership, NEW t \in UserSlots, state[t] = "Exited", ~ reapable[t],
                      process[t] # 1
               PROVE  \E p \in Pids : processes[p].main_thread = t
    BY DEF ProcessInv, NoZombies, USER_PROCESS_ID
  <2>1. t # 1
    BY DEF Ownership, FirstProcess
  <2> QED BY <2>1 DEF Ownership, SlotsOwned, Main
<1> QED BY <1>1, ProcessInvariant, PTL

\* A record is released by one of the calls that found its thread exited, or by
\* the end of a wait_process().
LEMMA ReleasedBy ==
  ASSUME TypeOK, [Next]_vars, NEW p \in Pids, Used(p), ~ Used(p)'
  PROVE  \/ Main(p) # NO_THREAD /\ state[Main(p)] = "Exited"
         \/ /\ current \in UserSlots /\ parked[current].op = "wait" /\ parked[current].pid = p
            /\ state[parked[current].thread] = "Exited"
<1> USE DEF tableVars, queueVars, processVars
<1>t. processes \in [Pids -> ProcessRecords]
  BY DEF TypeOK, ThreadsTypeOK
<1>c. processes' # processes
  BY DEF Used
<1>e. ASSUME NEW r, r \in Pids, Release(r) PROVE r = p
  BY <1>t, <1>e DEF Release, Used
<1>r. ASSUME NEW r, r \in Pids, IsChild(r), ReapExited(r)
      PROVE  Main(p) # NO_THREAD /\ state[Main(p)] = "Exited"
  BY <1>e, <1>r DEF IsChild, ReapExited, Main
<1>a. ASSUME NEW r, NEW root, NEW m, RecordProcess(r, root, m), r \in Pids PROVE FALSE
  BY <1>t, <1>a, SlotFacts DEF RecordProcess, Used
<1>p. FreePids # {} => Min(FreePids) \in Pids
  <2>1. FreePids \subseteq Nat
    BY SlotFacts DEF FreePids
  <2> QED BY <2>1, MinIsLeast DEF FreePids
<1>1. ~ ProcessSpawn /\ ~ ProcessSpawnFails
  BY <1>a, <1>c, <1>p DEF ProcessSpawn, ProcessSpawnFails
<1>2. ~ Exit
  <2> SUFFICES ASSUME Exit PROVE FALSE
    OBVIOUS
  <2>1. processes' = Reparented(current)
    BY DEF Exit
  <2>2. processes'[p] = processes[p] \/ processes'[p] = [processes[p] EXCEPT !.parent = 1]
    BY <2>1 DEF Reparented, USER_PROCESS_ID
  <2>3. processes[p] \in ProcessRecords
    BY <1>t
  <2> QED BY <2>2, <2>3 DEF Used, ProcessRecords, EMPTY
<1>3. CASE WaitReturn
  <2>1. current \in UserSlots /\ parked[current].op = "wait"
    BY <1>3 DEF WaitReturn, Returning
  <2>2. parked[current].pid \in Pids
    BY <2>1, ParkedTypes, SlotFacts DEF TypeOK
  <2> QED BY <1>3, <1>c, <1>e, <2>1, <2>2 DEF WaitReturn, JoinCollects
<1>4. ASSUME NEW r \in Pids, WaitProcess(r) \/ TryWaitProcess(r) \/ TerminateProcess(r)
      PROVE  Main(p) # NO_THREAD /\ state[Main(p)] = "Exited"
  BY <1>4, <1>c, <1>r DEF WaitProcess, TryWaitProcess, TerminateProcess, JoinBlocks
<1>5. CASE ReapAnyChild
  <2>1. ExitedChildren # {} /\ ExitedChildren \subseteq Nat
    BY <1>5, SlotFacts DEF ReapAnyChild, ExitedChildren
  <2>2. Min(ExitedChildren) \in ExitedChildren
    BY <2>1, MinIsLeast
  <2> QED BY <1>5, <1>r, <2>2 DEF ReapAnyChild, ExitedChildren
<1> QED
  BY <1>c, <1>1, <1>2, <1>3, <1>4, <1>5
  DEF Next, ThreadsNext, Start, Yield, IdleYield, ThreadCreate, JoinReturn, Join, JoinBlocks,
      SleepReturn, Tick, OtherInterrupt, Sleep, FutexWait, FutexWake, vars, threadVars

\* For such programs a process record and its address space are released only
\* after the main thread it names has exited, and that thread is its own: a
\* wait_process() that resumes late finds the child it waited for, and not a
\* later process with its pid or a later thread in its slot.
THEOREM OnlyExitedAreReaped == OnlyProcessCalls => (Spec => ReapsOnlyExited)
<1> SUFFICES ASSUME OnlyProcessCalls PROVE Spec => ReapsOnlyExited
  OBVIOUS
<1> DEFINE Reaps ==
      \A p \in Pids : Used(p) /\ ~ Used(p)'
        => LET t == processes[p].main_thread IN state[t] = "Exited" /\ process[t] = p
<1>1. TypeOK /\ JoinInv /\ WaitInv /\ ProcessInv /\ [Next]_vars => [Reaps]_vars
  <2> SUFFICES ASSUME TypeOK, QueueInv, Ownership, [Next]_vars,
                      NEW p \in Pids, Used(p), ~ Used(p)'
               PROVE  state[Main(p)] = "Exited" /\ process[Main(p)] = p
    BY DEF ProcessInv, WaitInv, OnlyProcessCalls, Main
  <2>1. CASE Main(p) # NO_THREAD /\ state[Main(p)] = "Exited"
    BY <2>1 DEF Ownership, MainsOwned
  <2>2. CASE /\ current \in UserSlots /\ parked[current].op = "wait" /\ parked[current].pid = p
             /\ state[parked[current].thread] = "Exited"
    <3>1. parked[current].thread \in Slots
      BY <2>2, ParkedTypes, SlotFacts DEF TypeOK
    <3>2. Main(p) = parked[current].thread
      BY <2>2, SlotFacts DEF Ownership, WaitsForChild
    <3> QED BY <2>2, <3>1, <3>2, SlotFacts DEF Ownership, MainsOwned
  <2> QED BY <2>1, <2>2, ReleasedBy
<1> QED BY <1>1, ProcessInvariant, PTL DEF Spec, ReapsOnlyExited

-----------------------------------------------------------------------------
(***************************************************************************)
(* Contexts.                                                               *)
(***************************************************************************)
RegisterFile == [thread : Slots \cup {NO_THREAD}, begun : BOOLEAN]
FsBases == [thread : Slots \cup {NO_THREAD}, changed : BOOLEAN]
UserContextRecords == [registers : RegisterFile, fs_base : FsBases]

ContextTypeOK ==
  /\ fresh \subseteq Slots
  /\ user_context \in [Slots -> UserContextRecords]
  /\ syscall_state \in [Slots -> RegisterFile]
  /\ program \in [Slots -> UserContextRecords]
  /\ cpu \in RegisterFile /\ fs \in FsBases

\* Where the registers of thread t are kept while it does not run.
SavedRegisters(t) == IF t \in fresh THEN user_context[t].registers ELSE syscall_state[t]

\* RunsOwnContext is inductive together with the saved contexts: every thread
\* that is not running in user mode, exited or not, has in the record its return
\* path reads what its program expects.
ContextInv ==
  /\ InUser => current \notin fresh
  /\ RunsOwnContext
  /\ \A t \in Slots : ~ (InUser /\ t = current) =>
       /\ SavedRegisters(t) = program[t].registers
       /\ user_context[t].fs_base = program[t].fs_base

\* Every step of the system is one of the kernel, or leaves the kernel alone.
LEMMA KernelStepOrStutter == [UserNext]_<<vars, userVars>> => [Next]_vars
<1>1. ASSUME UserNext PROVE Next \/ UNCHANGED vars
  <2>1. CASE Interrupted
    BY <2>1 DEF Interrupted, Next
  <2>2. CASE KernelRuns
    BY <2>2 DEF KernelRuns, Next, ThreadsNext
  <2>3. CASE SetTlsBase \/ OtherCall \/ CreateThreadFails
    BY <2>3 DEF SetTlsBase, OtherCall, CreateThreadFails
  <2>4. CASE CreateThread \/ SpawnProcess \/ SpawnProcessFails
    BY <2>4 DEF CreateThread, SpawnProcess, SpawnProcessFails, Next, ThreadsNext
  <2> QED BY <1>1, <2>1, <2>2, <2>3, <2>4 DEF UserNext
<1> QED BY <1>1

\* The system with registers, FS bases and stacks implements module Kernel.
THEOREM ContextsImplementKernel == UserSpec => Spec
<1>1. UserInit => Init
  BY DEF UserInit
<1> QED BY <1>1, KernelStepOrStutter, PTL DEF UserSpec, Spec

-----------------------------------------------------------------------------
\* Entering the kernel saves the running thread: afterwards what its return
\* paths read is what its program expects.
SavedAll(uc, ss, pr) ==
  /\ uc \in [Slots -> UserContextRecords] /\ ss \in [Slots -> RegisterFile]
  /\ pr \in [Slots -> UserContextRecords]
  /\ \A t \in Slots : /\ pr[t].registers = IF t \in fresh THEN uc[t].registers ELSE ss[t]
                      /\ pr[t].fs_base = uc[t].fs_base

LEMMA BegunRegisters ==
  ASSUME NEW r \in RegisterFile PROVE [r EXCEPT !.begun = TRUE] = Registers(r.thread, TRUE)
<1>1. ASSUME NEW S, NEW B, NEW x \in [thread : S, begun : B], NEW v
      PROVE  [x EXCEPT !.begun = v] = [thread |-> x.thread, begun |-> v]
  OBVIOUS
<1>2. PICK v : v = TRUE
  OBVIOUS
<1>3. [r EXCEPT !.begun = v] = Registers(r.thread, v)
  BY <1>1 DEF Registers, RegisterFile
<1> QED BY <1>2, <1>3, Zenon

LEMMA EntrySaves ==
  ASSUME ContextTypeOK, ContextInv PROVE SavedAll(Saved, SavedState, Moved)
<1>1. CASE ~ InUser
  BY <1>1 DEF Saved, SavedState, Moved, SavedAll, ContextTypeOK, ContextInv, SavedRegisters
<1>2. CASE InUser
  <2>1. PICK me : me = current
    OBVIOUS
  <2>2. /\ me \in Slots /\ me \notin fresh /\ cpu = program[me].registers
        /\ fs = program[me].fs_base
    BY <1>2, <2>1, SlotFacts DEF InUser, ContextInv, RunsOwnContext
  <2>3. PICK r : r = Registers(cpu.thread, TRUE)
    OBVIOUS
  <2>4. r \in RegisterFile
    BY <2>3 DEF Registers, RegisterFile, ContextTypeOK
  <2>5. PICK c : c = [registers |-> r, fs_base |-> fs]
    OBVIOUS
  <2>6. c \in UserContextRecords /\ c.registers = r /\ c.fs_base = fs
    BY <2>4, <2>5 DEF UserContextRecords, ContextTypeOK
  <2>7. /\ Saved = [user_context EXCEPT ![me] = c]
        /\ SavedState = [syscall_state EXCEPT ![me] = r]
    BY <1>2, <2>1, <2>3, <2>5 DEF Saved, SavedState
  <2>8. Moved = [program EXCEPT ![me] = c]
    <3>1. [program[me].registers EXCEPT !.begun = TRUE] = r
      BY <2>2, <2>3, BegunRegisters, Zenon DEF ContextTypeOK
    <3>2. [program[me] EXCEPT !.registers = r] = c
      BY <2>2, <2>5 DEF UserContextRecords, ContextTypeOK
    <3> QED BY <1>2, <2>1, <3>1, <3>2 DEF Moved
  <2>9. \A t \in Slots : t # me => /\ SavedRegisters(t) = program[t].registers
                                   /\ user_context[t].fs_base = program[t].fs_base
    BY <2>1 DEF ContextInv
  <2> HIDE DEF UserContextRecords, RegisterFile, FsBases
  <2> QED BY <2>2, <2>4, <2>6, <2>7, <2>8, <2>9 DEF SavedAll, ContextTypeOK, SavedRegisters
<1> QED BY <1>1, <1>2

\* The way back to user mode loads what was saved, for whichever thread is
\* dispatched.
LEMMA ResumeRestores ==
  ASSUME ContextTypeOK, SavedAll(user_context', syscall_state', program'), Resume
  PROVE  ContextTypeOK' /\ ContextInv'
<1>1. CASE InUser'
  <2>1. PICK me : me = current'
    OBVIOUS
  <2>2. me \in Slots
    BY <1>1, <2>1, SlotFacts DEF InUser
  <2>3. /\ fresh' = fresh \ {me} /\ rsp0' = me /\ fs' = user_context'[me].fs_base
        /\ cpu' = IF me \in fresh THEN user_context'[me].registers ELSE syscall_state'[me]
    BY <1>1, <2>1 DEF Resume, ReturnRegisters
  <2>4. cpu' = program'[me].registers /\ fs' = program'[me].fs_base
    BY <2>2, <2>3 DEF SavedAll
  <2>5. cpu' \in RegisterFile /\ fs' \in FsBases
    BY <2>2, <2>4 DEF SavedAll, UserContextRecords
  <2>6. ContextTypeOK'
    BY <2>3, <2>5 DEF ContextTypeOK, SavedAll
  <2>7. \A t \in Slots : t # me => /\ SavedRegisters(t)' = program'[t].registers
                                   /\ user_context'[t].fs_base = program'[t].fs_base
    BY <2>3 DEF SavedAll, SavedRegisters
  <2>8. RunsOwnContext'
    BY <2>1, <2>3, <2>4 DEF RunsOwnContext
  <2>9. current' \notin fresh' /\ \A t \in Slots : ~ (InUser' /\ t = current') => t # me
    BY <1>1, <2>1, <2>3
  <2> QED BY <2>6, <2>7, <2>8, <2>9 DEF ContextInv
<1>2. CASE ~ InUser'
  <2>1. fresh' = fresh /\ cpu' = cpu /\ fs' = fs
    BY <1>2 DEF Resume
  <2> QED BY <1>2, <2>1 DEF ContextTypeOK, SavedAll, ContextInv, RunsOwnContext, SavedRegisters
<1> QED BY <1>1, <1>2

\* A new thread is given a slot that is not the caller's; the caller goes on.
LEMMA CreateKeepsContexts ==
  ASSUME ContextTypeOK, ContextInv, InUser, NEW t \in Slots, t # current,
         UNCHANGED current, parked' = [parked EXCEPT ![t] = ReturnToUser],
         parked \in [Slots -> Continuations], SaveAndCreate(t)
  PROVE  ContextTypeOK' /\ ContextInv'
<1> DEFINE uc == Saved
           ss == SavedState
           pr == Moved
<1>1. SavedAll(uc, ss, pr)
  BY EntrySaves
<1>2. PICK me : me = current
  OBVIOUS
<1>3. me \in Slots /\ me # t /\ me \notin fresh /\ current' = me
  BY <1>2, SlotFacts DEF InUser, ContextInv
<1>4. InUser'
  BY <1>2, <1>3 DEF InUser
<1>5. /\ NewContext(t) \in UserContextRecords /\ NoState \in RegisterFile
      /\ NewContext(t).registers \in RegisterFile
  <2>1. Registers(t, FALSE) \in RegisterFile /\ NoState \in RegisterFile
    BY Zenon DEF Registers, RegisterFile, NoState
  <2>2. FsBase(t, FALSE) \in FsBases
    BY Zenon DEF FsBase, FsBases
  <2> HIDE DEF RegisterFile, FsBases
  <2> QED BY <2>1, <2>2 DEF NewContext, UserContextRecords
<1>6. PICK n, z : n = NewContext(t) /\ z = NoState
  OBVIOUS
<1>7. /\ user_context' = [uc EXCEPT ![t] = n] /\ syscall_state' = [ss EXCEPT ![t] = z]
      /\ program' = [pr EXCEPT ![t] = n] /\ fresh' = fresh \cup {t}
      /\ cpu' = syscall_state'[me] /\ fs' = user_context'[me].fs_base /\ rsp0' = me
  BY <1>2, <1>6 DEF SaveAndCreate
<1> HIDE DEF uc, ss, pr
<1>8. /\ user_context' \in [Slots -> UserContextRecords]
      /\ syscall_state' \in [Slots -> RegisterFile] /\ program' \in [Slots -> UserContextRecords]
      /\ user_context'[t] = n /\ program'[t] = n
      /\ \A x \in Slots : x # t => /\ user_context'[x] = uc[x] /\ program'[x] = pr[x]
                                   /\ syscall_state'[x] = ss[x]
  BY <1>1, <1>5, <1>6, <1>7 DEF SavedAll
<1>9. cpu' = program'[me].registers /\ fs' = program'[me].fs_base
  BY <1>1, <1>3, <1>7, <1>8 DEF SavedAll
<1>10. ContextTypeOK'
  <2>1. cpu' \in RegisterFile /\ fs' \in FsBases
    BY <1>3, <1>8, <1>9 DEF UserContextRecords
  <2> QED BY <1>7, <1>8, <2>1 DEF ContextTypeOK
<1>11. \A x \in Slots : x # me => /\ SavedRegisters(x)' = program'[x].registers
                                  /\ user_context'[x].fs_base = program'[x].fs_base
  BY <1>1, <1>7, <1>8 DEF SavedAll, SavedRegisters
<1>12. RunsOwnContext'
  BY <1>3, <1>7, <1>9 DEF RunsOwnContext
<1>13. current' \notin fresh' /\ \A x \in Slots : ~ (InUser' /\ x = current') => x # me
  BY <1>3, <1>4, <1>7
<1> QED BY <1>10, <1>11, <1>12, <1>13 DEF ContextInv

LEMMA ContextStep ==
  ASSUME TypeOK, JoinInv, ContextTypeOK, ContextInv, [UserNext]_<<vars, userVars>>
  PROVE  ContextTypeOK' /\ ContextInv'
<1>s. /\ current \in Slots \cup {NO_THREAD} /\ parked \in [Slots -> Continuations]
  BY DEF TypeOK, ThreadsTypeOK
<1>f. ASSUME FreeSlots # {}, InUser
      PROVE  Min(FreeSlots) \in Slots /\ Min(FreeSlots) # current
  <2>1. Min(FreeSlots) \in FreeSlots
    BY <1>f, MinIsLeast, SlotFacts DEF FreeSlots
  <2> QED BY <2>1, SlotFacts DEF FreeSlots, JoinInv, ReapableIsIdle
<1>u. ASSUME UNCHANGED registerVars, InUser' <=> InUser, InUser => UNCHANGED current
      PROVE  ContextTypeOK' /\ ContextInv'
  <2>1. UNCHANGED <<fresh, user_context, syscall_state, cpu, fs, rsp0, program>>
    BY <1>u DEF registerVars
  <2>2. RunsOwnContext'
    BY <1>u, <2>1 DEF ContextInv, RunsOwnContext
  <2>3. \A t \in Slots : ~ (InUser /\ t = current)' => ~ (InUser /\ t = current)
    BY <1>u
  <2> QED BY <1>u, <2>1, <2>2, <2>3 DEF ContextTypeOK, ContextInv, SavedRegisters
<1>1. CASE Interrupted
  <2>1. CASE current = IDLE_THREAD
    <3>1. ~ InUser /\ ~ InUser'
      BY <1>1, <2>1, SlotFacts DEF Interrupted, Tick, OtherInterrupt, WakeAll, queueVars, InUser
    <3> QED BY <1>1, <1>u, <3>1 DEF Interrupted, userVars
  <2>2. CASE current # IDLE_THREAD
    <3>1. UNCHANGED <<current, parked>>
      BY <1>1, <2>2 DEF Interrupted, Tick, OtherInterrupt, AfterInterrupt, WakeAll, queueVars
    <3> QED BY <1>1, <1>u, <3>1 DEF Interrupted, userVars, InUser
  <2> QED BY <2>1, <2>2
<1>2. CASE SaveAndResume
  BY <1>2, EntrySaves, ResumeRestores DEF SaveAndResume
<1>3. CASE SetTlsBase
  <2> DEFINE uc == Saved
             ss == SavedState
             pr == Moved
  <2>1. PICK me, base : me = current /\ base = FsBase(current, TRUE)
    OBVIOUS
  <2>2. me \in Slots
    BY <1>3, <2>1, SlotFacts DEF SetTlsBase, InUser
  <2>3. base \in FsBases
    BY <2>1, <2>2, Zenon DEF FsBase, FsBases
  <2>4. SavedAll(uc, ss, pr)
    BY EntrySaves
  <2>5. /\ user_context' = [uc EXCEPT ![me].fs_base = base]
        /\ program' = [pr EXCEPT ![me].fs_base = base]
        /\ syscall_state' = ss /\ Resume
    BY <1>3, <2>1 DEF SetTlsBase
  <2> HIDE DEF uc, ss, pr, RegisterFile, FsBases
  <2>6. SavedAll(user_context', syscall_state', program')
    BY <2>2, <2>3, <2>4, <2>5 DEF SavedAll, UserContextRecords
  <2> QED BY <2>5, <2>6, ResumeRestores
<1>4. CASE CreateThread \/ SpawnProcess
  <2>1. PICK t : t = Min(FreeSlots)
    OBVIOUS
  <2>2. /\ SaveAndCreate(t) /\ InUser /\ FreeSlots # {} /\ UNCHANGED current
        /\ parked' = [parked EXCEPT ![t] = ReturnToUser]
    BY <1>4, <2>1 DEF CreateThread, SpawnProcess, ThreadCreate, ProcessSpawn, SpawnInto
  <2>3. t \in Slots /\ t # current
    BY <1>f, <2>1, <2>2
  <2> QED BY <1>s, <2>2, <2>3, CreateKeepsContexts
<1>5. CASE UNCHANGED <<vars, userVars>>
  BY <1>5, <1>u DEF vars, userVars, threadVars, queueVars, InUser
<1> QED
  BY <1>1, <1>2, <1>3, <1>4, <1>5
  DEF UserNext, OtherCall, CreateThreadFails, SpawnProcessFails, LosesStack

\* Whatever way a thread left the CPU, whoever ran in between and whoever had
\* its slot before, its program finds its own registers and FS base when it runs,
\* and its interrupts arrive on its own kernel stack.
THEOREM ProgramsRunOwnContext == UserSpec => []RunsOwnContext
<1>1. UserInit => ContextTypeOK /\ ContextInv
  <2> SUFFICES ASSUME UserInit PROVE ContextTypeOK /\ ContextInv
    OBVIOUS
  <2>1. /\ \A t \in Slots \cup {NO_THREAD} : NewContext(t) \in UserContextRecords
        /\ NoState \in RegisterFile /\ FsBase(NO_THREAD, FALSE) \in FsBases
    <3>1. \A t \in Slots \cup {NO_THREAD} : /\ Registers(t, FALSE) \in RegisterFile
                                            /\ FsBase(t, FALSE) \in FsBases
      BY Zenon DEF Registers, RegisterFile, FsBase, FsBases
    <3> HIDE DEF RegisterFile, FsBases
    <3> QED BY <3>1 DEF NewContext, UserContextRecords, NoState
  <2>2. ~ InUser
    BY SlotFacts DEF UserInit, Init, ThreadsInit, InUser
  <2>3. PICK n : n \in [Slots \cup {NO_THREAD} -> UserContextRecords]
                 /\ n = [t \in Slots \cup {NO_THREAD} |-> NewContext(t)]
    BY <2>1
  <2>4. /\ fresh = {1} /\ syscall_state = [t \in Slots |-> NoState] /\ cpu = NoState
        /\ fs = FsBase(NO_THREAD, FALSE) /\ program = user_context
        /\ user_context = [t \in Slots |-> IF t = 1 THEN n[t] ELSE n[NO_THREAD]]
    BY <2>3 DEF UserInit, NoContext
  <2>5. n[NO_THREAD].registers = NoState
    BY <2>3 DEF NewContext, NoState
  <2> HIDE DEF RegisterFile, FsBases, UserContextRecords, NoState
  <2>6. ContextTypeOK
    BY <2>1, <2>3, <2>4, SlotFacts DEF ContextTypeOK
  <2>7. \A t \in Slots : SavedRegisters(t) = program[t].registers
    BY <2>4, <2>5 DEF SavedRegisters
  <2> QED BY <2>2, <2>4, <2>6, <2>7 DEF ContextInv, RunsOwnContext
<1>2. ContextInv => RunsOwnContext
  BY DEF ContextInv
<1> QED
  BY <1>1, <1>2, ContextStep, ContextsImplementKernel, TypeCorrect, JoinTargetsSafe, PTL
  DEF UserSpec

-----------------------------------------------------------------------------
(***************************************************************************)
(* Stacks, for programs of which only PID 1's create threads and           *)
(* processes.  Where several threads of PID 1 could wait for one child,    *)
(* one of them may release the record of a later process with that pid     *)
(* under its thread, and a spawn that fails then makes a record without a  *)
(* stack for it; so they use either threads or the blocking wait.          *)
(***************************************************************************)
OneCreator ==
  /\ Creators \subseteq {1} /\ "terminate" \notin Syscalls
  /\ ~ {"thread_create", "wait"} \subseteq Syscalls

\* PID 1 keeps its record and its space, and no other process has that space.
FirstSpace == Used(1) /\ Space(1) = 1 /\ Main(1) = NO_THREAD

\* Only PID 1 has children that can be waited for.
ChildrenOfFirst == \A p \in Pids : Main(p) # NO_THREAD => Parent(p) \in {NoProcess, 1}

\* A thread that has not exited is of PID 1 or the main thread of its process.
AliveRecorded ==
  \A t \in UserSlots : state[t] # "Exited" =>
    process[t] = 1 \/ (process[t] \in Pids /\ Used(process[t]) /\ Main(process[t]) = t)

\* The one thread that can be in wait_process() finds what it waits for.
OneWaiter ==
  /\ "wait" \in Syscalls => \A t \in UserSlots : process[t] = 1 => t = 1
  /\ \A x \in Slots : parked[x].op = "wait" =>
       /\ "wait" \in Syscalls /\ x \in UserSlots /\ process[x] = 1 /\ parked[x].pid # 1
       /\ Used(parked[x].pid) /\ Main(parked[x].pid) = parked[x].thread

RecordsInv == FirstSpace /\ ChildrenOfFirst /\ SpacesOwned /\ AliveRecorded /\ OneWaiter

\* A thread of PID 1 runs in the space of PID 1.
CreatorSpace ==
  /\ current \in UserSlots /\ process[current] = 1 => cr3 = 1
  /\ current = NO_THREAD => cr3 = 1

\* The main stack of PID 1, the stacks of its other threads and the stack of
\* each process that has got a thread.
UserStacks ==
  /\ <<1, 0>> \in stacks
  /\ \A t \in UserSlots : owns_user_stack[t] => process[t] = 1
  /\ \A t \in UserSlots : owns_user_stack[t] /\ state[t] # "Exited" => <<1, t>> \in stacks
  /\ \A p \in Pids : p # 1 /\ Main(p) # NO_THREAD => <<Space(p), p>> \in stacks

KernelStacks == \A t \in UserSlots : state[t] # "Exited" => kernel_stack[t] = "mapped"

StackTypeOK ==
  /\ owns_user_stack \in [Slots -> BOOLEAN]
  /\ kernel_stack \in [Slots -> {"none", "part", "mapped"}]

StackInv == RecordsInv /\ CreatorSpace /\ StackTypeOK /\ UserStacks /\ KernelStacks

-----------------------------------------------------------------------------
(***************************************************************************)
(* What a step that creates no thread does to the records.                 *)
(***************************************************************************)
ExitedStay == \A t \in UserSlots : state[t] = "Exited" => state'[t] = "Exited"

RecordsStay ==
  /\ UNCHANGED <<process, roots>> /\ ExitedStay
  /\ \A p \in Pids : \/ processes'[p] = processes[p]
                     \/ processes'[p] = [processes[p] EXCEPT !.parent = 1]
  /\ \A x \in Slots : parked'[x].op = "wait" => parked'[x] = parked[x]

BeginsWait(p) ==
  /\ InUser /\ "wait" \in Syscalls /\ IsChild(p)
  /\ parked' = [parked EXCEPT ![current] = Continuation("wait", Main(p), p)]
  /\ UNCHANGED <<process, processVars>> /\ ExitedStay

Reaps(p) ==
  /\ Release(p) /\ UNCHANGED <<process, state>>
  /\ \/ InUser /\ IsChild(p) /\ state[Main(p)] = "Exited" /\ UNCHANGED parked
     \/ /\ current \in UserSlots /\ parked[current].op = "wait" /\ parked[current].pid = p
        /\ state[parked[current].thread] = "Exited"
        /\ parked' = [parked EXCEPT ![current] = ReturnToUser]

LosesRoot(r) ==
  /\ r \in Roots \ roots /\ roots' = roots \cup {r} /\ UNCHANGED <<process, parked, state>>
  /\ \/ UNCHANGED processes
     \/ \E p \in Pids : p # 1 /\ ~ Used(p) /\ RecordProcess(p, r, NO_THREAD)

\* The scheduler revives nobody.
LEMMA ScheduleRevivesNobody ==
  ASSUME ThreadsTypeOK, NEW q \in Seq(Slots), Len(q) <= MaxThreads,
         NEW st \in [Slots -> ThreadState], Schedule(q, st), NEW t \in UserSlots, st[t] = "Exited"
  PROVE  state'[t] = "Exited"
BY ScheduleType, SlotFacts

LEMMA FreeFacts ==
  /\ FreeSlots # {} => Min(FreeSlots) \in FreeSlots
  /\ FreePids # {} => Min(FreePids) \in Pids /\ Min(FreePids) # 1 /\ ~ Used(Min(FreePids))
  /\ FreeRoots # {} => Min(FreeRoots) \in Roots \ roots
<1>1. FreePids \subseteq Nat /\ FreeSlots \subseteq Nat /\ FreeRoots \subseteq Nat
  BY SlotFacts DEF FreePids, FreeSlots, FreeRoots
<1>2. /\ FreeSlots # {} => Min(FreeSlots) \in FreeSlots
      /\ FreePids # {} => Min(FreePids) \in FreePids
      /\ FreeRoots # {} => Min(FreeRoots) \in FreeRoots
  BY <1>1, MinIsLeast
<1> QED BY <1>2 DEF FreePids, FreeRoots, USER_PROCESS_ID

\* Every such step keeps the records, begins a wait, reaps or loses a root.
LEMMA QuietSteps ==
  ASSUME TypeOK, QueueInv, TablesInv, "terminate" \notin Syscalls,
         KernelRuns \/ Interrupted \/ UNCHANGED vars
  PROVE  RecordsStay \/ (\E p \in Pids : BeginsWait(p) \/ Reaps(p)) \/ (\E r : LosesRoot(r))
<1> USE DEF tableVars, queueVars, processVars
<1>s. /\ ThreadsTypeOK /\ state \in [Slots -> ThreadState] /\ DOMAIN state = Slots
      /\ parked \in [Slots -> Continuations] /\ IDLE_THREAD \in Slots
      /\ runQueue \in Seq(Slots) /\ Len(runQueue) <= MaxThreads
  BY SlotFacts DEF TypeOK, ThreadsTypeOK
<1>u. InUser => current \in UserSlots /\ current \in Slots /\ state[current] = "Running"
  BY SlotFacts DEF InUser, QueueInv
<1>i. UserSlots \subseteq Slots /\ IDLE_THREAD \notin UserSlots
  BY SlotFacts
<1>f. ASSUME UNCHANGED <<process, processes, roots>>, ExitedStay,
             \A x \in Slots : parked'[x].op = "wait" => parked'[x] = parked[x]
      PROVE  RecordsStay
  BY <1>f DEF RecordsStay
<1>b. ASSUME NEW c, InUser, Block(c)
      PROVE  ExitedStay /\ parked' = [parked EXCEPT ![current] = c]
  BY <1>b, <1>i, BlockStatus DEF ExitedStay, TablesInv
<1>w. ASSUME NEW f, WakeAll(f) PROVE ExitedStay
  BY <1>w, <1>i, WakeEffect DEF WakeAll, ExitedStay
<1>1. CASE Start
  <2>1. state' = [[state EXCEPT ![IDLE_THREAD] = "Ready"] EXCEPT ![current'] = "Running"]
    BY <1>1 DEF Start
  <2> DEFINE q == Enqueue(runQueue, <<IDLE_THREAD>>)
             st == [state EXCEPT ![IDLE_THREAD] = "Ready"]
  <2>2. q \in Seq(Slots) /\ Len(q) <= MaxThreads
    <3>1. <<IDLE_THREAD>> \in Seq(Slots)
      BY <1>s
    <3> QED BY <1>s, <3>1, EnqueueType
  <2>3. st \in [Slots -> ThreadState] /\ current' = NextReady(q, st)
    BY <1>1, <1>s DEF Start, ThreadState
  <2> HIDE DEF q
  <2>4. current' = IDLE_THREAD \/ st[current'] # "Exited"
    BY <2>2, <2>3, NextReadyType
  <2>5. ExitedStay
    BY <1>s, <1>i, <2>1, <2>4 DEF ExitedStay
  <2> QED BY <1>1, <1>f, <2>5 DEF Start
<1>2. CASE Yield
  <2>1. PICK q, st : /\ Schedule(q, st) /\ st = [state EXCEPT ![current] = "Ready"]
                     /\ q = Enqueue(runQueue, <<current>>)
    BY <1>2 DEF Yield
  <2>2. InUser /\ UNCHANGED <<process, processes, roots, parked>>
    BY <1>2 DEF Yield
  <2>3. q \in Seq(Slots) /\ Len(q) <= MaxThreads
    <3>1. <<current>> \in Seq(Slots)
      BY <1>u, <2>2
    <3> QED BY <1>s, <2>1, <3>1, EnqueueType
  <2>4. st \in [Slots -> ThreadState]
    BY <1>s, <2>1 DEF ThreadState
  <2>5. \A t \in UserSlots : state[t] = "Exited" => st[t] = "Exited"
    BY <1>s, <1>i, <1>u, <2>1, <2>2
  <2>6. ExitedStay
    BY <1>s, <2>1, <2>3, <2>4, <2>5, ScheduleRevivesNobody DEF ExitedStay
  <2> QED BY <1>f, <2>2, <2>6
<1>3. CASE IdleYield
  <2>1. ExitedStay
    BY <1>3, <1>s, ScheduleRevivesNobody DEF IdleYield, ExitedStay
  <2>2. \A x \in Slots : parked'[x].op = "wait" => parked'[x] = parked[x]
    BY <1>s, <1>3 DEF IdleYield, Continuations
  <2> QED BY <1>3, <1>f, <2>1, <2>2 DEF IdleYield
<1>4. CASE Exit
  <2>1. PICK me, w, ended : me = current /\ w = join_waiters[me]
                            /\ ended = [state EXCEPT ![me] = "Exited"]
    OBVIOUS
  <2>2. PICK order \in WakeOrders(w, ended) : Schedule(Enqueue(runQueue, order), AfterWake(w, ended))
    BY <1>4, <2>1 DEF Exit
  <2>3. InUser /\ UNCHANGED <<process, parked, roots>> /\ processes' = Reparented(me)
    BY <1>4, <2>1 DEF Exit
  <2>4. Range(w) \subseteq Slots
    BY <1>s, <1>u, <2>1, <2>3, JoinWaitersRange
  <2>5. Enqueue(runQueue, order) \in Seq(Slots) /\ Len(Enqueue(runQueue, order)) <= MaxThreads
    BY <1>s, <2>4, WakeOrderType, EnqueueType
  <2>6. ended \in [Slots -> ThreadState]
    BY <1>s, <2>1 DEF ThreadState
  <2>7. AfterWake(w, ended) \in [Slots -> ThreadState]
    BY <2>6, AfterWakeType
  <2>8. ASSUME NEW t \in UserSlots, state[t] = "Exited" PROVE AfterWake(w, ended)[t] = "Exited"
    <3>1. t \in Slots /\ ended[t] = "Exited"
      BY <1>s, <1>i, <2>1, <2>8
    <3> QED BY <3>1, WakeEffect
  <2>9. ExitedStay
    BY <1>s, <2>2, <2>5, <2>7, <2>8, ScheduleRevivesNobody DEF ExitedStay
  <2>10. \A p \in Pids : \/ processes'[p] = processes[p]
                         \/ processes'[p] = [processes[p] EXCEPT !.parent = 1]
    BY <2>3 DEF Reparented, USER_PROCESS_ID
  <2> QED BY <2>3, <2>9, <2>10 DEF RecordsStay
<1>5. CASE JoinReturn \/ SleepReturn
  <2>1. \A x \in Slots : parked'[x].op = "wait" => parked'[x] = parked[x]
    BY <1>s, <1>5, SlotFacts DEF JoinReturn, SleepReturn, Returning, ReturnToUser, Continuation
  <2> QED BY <1>f, <1>5, <2>1 DEF JoinReturn, SleepReturn, ExitedStay
<1>6. CASE WaitReturn
  <2>1. PICK me, t, p : me = current /\ t = parked[me].thread /\ p = parked[me].pid
    OBVIOUS
  <2>2. /\ me \in UserSlots /\ me \in Slots /\ parked[me].op = "wait"
        /\ parked' = [parked EXCEPT ![me] = ReturnToUser] /\ UNCHANGED <<process, state>>
    BY <1>6, <1>i, <2>1 DEF WaitReturn, Returning
  <2>3. p \in Pids
    BY <1>s, <2>1, <2>2, ParkedTypes
  <2>4. CASE state[t] = "Exited" /\ Release(p)
    BY <2>1, <2>2, <2>3, <2>4 DEF Reaps
  <2>5. CASE UNCHANGED <<processes, roots>>
    <3>1. \A x \in Slots : parked'[x].op = "wait" => parked'[x] = parked[x]
      BY <1>s, <2>2 DEF ReturnToUser, Continuation
    <3> QED BY <1>f, <2>2, <2>5, <3>1 DEF ExitedStay
  <2> QED BY <1>6, <2>1, <2>4, <2>5 DEF WaitReturn, JoinCollects
<1>7. ASSUME NEW p \in Pids, InUser, IsChild(p), ReapExited(p) PROVE Reaps(p)
  BY <1>7 DEF ReapExited, Reaps, Main
<1>8. CASE ReapAnyChild
  <2>1. ExitedChildren # {} /\ ExitedChildren \subseteq Nat
    BY <1>8, SlotFacts DEF ReapAnyChild, ExitedChildren
  <2>2. Min(ExitedChildren) \in ExitedChildren
    BY <2>1, MinIsLeast
  <2> QED BY <1>7, <1>8, <2>2 DEF ReapAnyChild, ExitedChildren
<1>9. ASSUME NEW p \in Pids, WaitProcess(p) \/ TryWaitProcess(p)
      PROVE  BeginsWait(p) \/ Reaps(p)
  <2>1. InUser /\ IsChild(p)
    BY <1>9 DEF WaitProcess, TryWaitProcess
  <2>2. ASSUME NEW t, t = Main(p), JoinBlocks(t, Continuation("wait", t, p)), "wait" \in Syscalls
        PROVE  BeginsWait(p)
    BY <1>b, <2>1, <2>2 DEF JoinBlocks, BeginsWait
  <2> QED BY <1>7, <1>9, <2>1, <2>2 DEF WaitProcess, TryWaitProcess, Main
<1>10. CASE ProcessSpawnFails
  BY <1>10, FreeFacts DEF ProcessSpawnFails, LosesRoot
<1>11. ASSUME NEW t \in Slots, Join(t) PROVE RecordsStay
  <2>1. CASE UNCHANGED <<process, parked, state, processes, roots>>
    BY <1>f, <2>1 DEF ExitedStay
  <2>2. ASSUME NEW c, c = Continuation("join", t, NoProcess), JoinBlocks(t, c) PROVE RecordsStay
    <3>1. ExitedStay /\ parked' = [parked EXCEPT ![current] = c]
      BY <1>11, <1>b, <2>2 DEF Join, JoinBlocks
    <3>2. \A x \in Slots : parked'[x].op = "wait" => parked'[x] = parked[x]
      BY <1>s, <2>2, <3>1 DEF Continuation
    <3> QED BY <1>f, <2>2, <3>1, <3>2 DEF JoinBlocks
  <2> QED BY <1>11, <2>1, <2>2 DEF Join
<1>12. ASSUME NEW c, InUser, Block(c), c.op \in {"sleep", "futex"}, UNCHANGED <<tableVars, processVars>>
       PROVE  RecordsStay
  <2>1. ExitedStay /\ parked' = [parked EXCEPT ![current] = c]
    BY <1>12, <1>b
  <2>2. \A x \in Slots : parked'[x].op = "wait" => parked'[x] = parked[x]
    BY <1>s, <1>12, <2>1
  <2> QED BY <1>f, <1>12, <2>1, <2>2
<1>13. ASSUME NEW ms \in 1 .. MaxDelay, Sleep(ms) PROVE RecordsStay
  BY <1>12, <1>13 DEF Sleep, Continuation
<1>14. ASSUME NEW a \in Addresses, NEW d \in Timeouts, FutexWait(a, d) PROVE RecordsStay
  BY <1>12, <1>14 DEF FutexWait, Continuation
<1>15. ASSUME NEW a \in Addresses, NEW n \in 1 .. MaxFutexWaiters, FutexWake(a, n)
       PROVE  RecordsStay
  BY <1>f, <1>w, <1>15 DEF FutexWake
<1>16. CASE Tick \/ OtherInterrupt
  <2>1. \A x \in Slots : parked'[x].op = "wait" => parked'[x] = parked[x]
    BY <1>s, <1>16 DEF Tick, OtherInterrupt, AfterInterrupt, Continuations
  <2> QED BY <1>f, <1>w, <1>16, <2>1 DEF Tick, OtherInterrupt, ExitedStay
<1>17. CASE UNCHANGED vars
  BY <1>f, <1>17 DEF vars, threadVars, ExitedStay
<1>18. \A p \in Pids : ~ TerminateProcess(p)
  BY DEF TerminateProcess
<1> QED
  BY <1>1, <1>2, <1>3, <1>4, <1>5, <1>6, <1>8, <1>9, <1>10, <1>11, <1>13, <1>14, <1>15,
     <1>16, <1>17, <1>18 DEF KernelRuns, Interrupted

-----------------------------------------------------------------------------
\* The caller of a system call is alive, and of PID 1 if it can reap a process.
LEMMA ReaperIsFirst ==
  ASSUME TypeOK, QueueInv, RecordsInv, InUser, NEW p \in Pids, IsChild(p)
  PROVE  process[current] = 1 /\ p # 1 /\ Used(p)
<1>1. PICK me : me = current
  OBVIOUS
<1>2. me \in UserSlots /\ state[me] = "Running"
  BY <1>1, SlotFacts DEF InUser, QueueInv
<1>3. process[me] \in Pids
  BY <1>2, SlotFacts DEF RecordsInv, AliveRecorded
<1>4. Used(p) /\ Parent(p) = process[me] /\ Main(p) # NO_THREAD
  BY <1>1 DEF IsChild, Parent, Main
<1> QED BY <1>1, <1>3, <1>4, SlotFacts DEF RecordsInv, ChildrenOfFirst, FirstSpace

LEMMA RecordsStayKeeps ==
  ASSUME TypeOK, RecordsInv, RecordsStay PROVE RecordsInv'
<1>1. ASSUME NEW p \in Pids
      PROVE  /\ Used(p)' = Used(p) /\ Main(p)' = Main(p) /\ Space(p)' = Space(p)
             /\ Parent(p)' = Parent(p) \/ Parent(p)' = 1
  <2>1. processes[p] \in ProcessRecords
    BY DEF TypeOK, ThreadsTypeOK
  <2>2. processes'[p] = processes[p] \/ processes'[p] = [processes[p] EXCEPT !.parent = 1]
    BY DEF RecordsStay
  <2> QED BY <2>1, <2>2 DEF Used, Main, Space, Parent, ProcessRecords, EMPTY
<1>2. FirstSpace' /\ ChildrenOfFirst' /\ SpacesOwned'
  BY <1>1, SlotFacts DEF RecordsInv, FirstSpace, ChildrenOfFirst, SpacesOwned, RecordsStay
<1>3. AliveRecorded'
  <2> SUFFICES ASSUME NEW t \in UserSlots, state'[t] # "Exited", NEW q, q = process'[t]
               PROVE  q = 1 \/ (q \in Pids /\ Used(q)' /\ Main(q)' = t)
    BY DEF AliveRecorded, Used, Main
  <2>1. state[t] # "Exited" /\ process' = process
    BY DEF RecordsStay, ExitedStay
  <2> QED BY <1>1, <2>1 DEF RecordsInv, AliveRecorded
<1>4. OneWaiter'
  <2>1. ASSUME NEW x \in Slots, parked'[x].op = "wait", NEW p, p = parked'[x].pid
        PROVE  /\ "wait" \in Syscalls /\ x \in UserSlots /\ process'[x] = 1 /\ p # 1
               /\ Used(p)' /\ Main(p)' = parked'[x].thread
    <3>1. parked'[x] = parked[x] /\ process' = process
      BY <2>1 DEF RecordsStay
    <3>2. p \in Pids
      BY <2>1, <3>1, ParkedTypes DEF TypeOK
    <3> QED BY <1>1, <2>1, <3>1, <3>2 DEF RecordsInv, OneWaiter
  <2>2. "wait" \in Syscalls => \A t \in UserSlots : process'[t] = 1 => t = 1
    BY DEF RecordsInv, OneWaiter, RecordsStay
  <2> QED BY <2>1, <2>2 DEF OneWaiter, Used, Main
<1> QED BY <1>2, <1>3, <1>4 DEF RecordsInv

LEMMA BeginsWaitKeeps ==
  ASSUME TypeOK, QueueInv, RecordsInv, NEW p \in Pids, BeginsWait(p) PROVE RecordsInv'
<1>1. PICK me : me = current
  OBVIOUS
<1>2. /\ me \in UserSlots /\ me \in Slots /\ process[me] = 1 /\ p # 1 /\ Used(p)
      /\ "wait" \in Syscalls /\ UNCHANGED <<process, processes, roots>> /\ ExitedStay
      /\ parked' = [parked EXCEPT ![me] = Continuation("wait", Main(p), p)]
  BY <1>1, ReaperIsFirst, SlotFacts DEF BeginsWait, InUser, processVars
<1>3. FirstSpace' /\ ChildrenOfFirst' /\ SpacesOwned'
  BY <1>2 DEF RecordsInv, FirstSpace, ChildrenOfFirst, SpacesOwned, Used, Main, Space, Parent
<1>4. AliveRecorded'
  BY <1>2 DEF RecordsInv, AliveRecorded, ExitedStay, Used, Main
<1>5. \A x \in Slots : \/ parked'[x] = parked[x]
                       \/ x = me /\ parked'[x].pid = p /\ parked'[x].thread = Main(p)
  BY <1>2 DEF Continuation, TypeOK, ThreadsTypeOK
<1>6. OneWaiter'
  BY <1>2, <1>5 DEF RecordsInv, OneWaiter, Used, Main
<1> QED BY <1>3, <1>4, <1>6 DEF RecordsInv

\* Only the process whose main thread has exited is released, and nobody waits
\* for it any more.
LEMMA ReapsKeeps ==
  ASSUME TypeOK, QueueInv, RecordsInv, NEW p \in Pids, Reaps(p) PROVE RecordsInv'
<1>1. PICK me : me = current
  OBVIOUS
<1>2. /\ me \in UserSlots /\ me \in Slots /\ process[me] = 1 /\ p # 1 /\ Used(p)
      /\ state[Main(p)] = "Exited"
      /\ \A x \in Slots : parked'[x].op = "wait" => x # me /\ parked'[x] = parked[x]
  <2>1. CASE InUser /\ IsChild(p) /\ state[Main(p)] = "Exited" /\ UNCHANGED parked
    BY <1>1, <2>1, ReaperIsFirst, SlotFacts DEF InUser
  <2>2. CASE /\ current \in UserSlots /\ parked[current].op = "wait" /\ parked[current].pid = p
             /\ state[parked[current].thread] = "Exited"
             /\ parked' = [parked EXCEPT ![current] = ReturnToUser]
    <3>1. me \in Slots /\ me \in UserSlots /\ parked \in [Slots -> Continuations]
      BY <1>1, <2>2, SlotFacts DEF TypeOK, ThreadsTypeOK
    <3>2. process[me] = 1 /\ p # 1 /\ Used(p) /\ Main(p) = parked[me].thread
      BY <1>1, <2>2, <3>1 DEF RecordsInv, OneWaiter
    <3>3. \A x \in Slots : parked'[x].op = "wait" => x # me /\ parked'[x] = parked[x]
      BY <1>1, <2>2, <3>1 DEF ReturnToUser, Continuation
    <3> QED BY <1>1, <2>2, <3>1, <3>2, <3>3
  <2> QED BY <2>1, <2>2 DEF Reaps
<1>3. /\ processes' = [processes EXCEPT ![p] = EMPTY] /\ roots' = roots \ {Space(p)}
      /\ UNCHANGED <<process, state>> /\ processes \in [Pids -> ProcessRecords]
  BY <1>2 DEF Reaps, Release, Space, TypeOK, ThreadsTypeOK
<1>4. /\ ~ Used(p)' /\ Main(p)' = NO_THREAD
      /\ \A q \in Pids : q # p => /\ Used(q)' = Used(q) /\ Main(q)' = Main(q)
                                  /\ Space(q)' = Space(q) /\ Parent(q)' = Parent(q)
  BY <1>3 DEF Used, Main, Space, Parent, EMPTY
<1>5. FirstSpace' /\ ChildrenOfFirst' /\ SpacesOwned'
  BY <1>2, <1>3, <1>4, SlotFacts DEF RecordsInv, FirstSpace, ChildrenOfFirst, SpacesOwned
<1>6. AliveRecorded'
  <2> SUFFICES ASSUME NEW t \in UserSlots, state'[t] # "Exited", NEW q, q = process'[t]
               PROVE  q = 1 \/ (q \in Pids /\ Used(q)' /\ Main(q)' = t)
    BY DEF AliveRecorded, Used, Main
  <2>1. state[t] # "Exited" /\ process' = process
    BY <1>3
  <2> QED BY <1>2, <1>4, <2>1 DEF RecordsInv, AliveRecorded
<1>7. OneWaiter'
  <2>1. ASSUME NEW x \in Slots, parked'[x].op = "wait" PROVE FALSE
    <3>1. x # me /\ parked[x].op = "wait"
      BY <1>2, <2>1
    <3>2. "wait" \in Syscalls /\ x \in UserSlots /\ process[x] = 1
      BY <3>1 DEF RecordsInv, OneWaiter
    <3> QED BY <1>2, <3>1, <3>2 DEF RecordsInv, OneWaiter
  <2> QED BY <1>3, <2>1 DEF RecordsInv, OneWaiter
<1> QED BY <1>5, <1>6, <1>7 DEF RecordsInv

\* A new record with a new root, with or without a thread in a free slot.
LEMMA RecordKeeps ==
  ASSUME TypeOK, TablesInv, RecordsInv, NEW p \in Pids, p # 1, ~ Used(p),
         NEW r \in Roots \ roots, roots' = roots \cup {r}, NEW m, RecordProcess(p, r, m),
         \/ m = NO_THREAD /\ UNCHANGED <<process, parked, state>>
         \/ m \in FreeSlots /\ process[current] = 1 /\ SpawnInto(m, p)
  PROVE  RecordsInv'
<1>t. /\ processes \in [Pids -> ProcessRecords] /\ process \in [Slots -> Pids \cup {NoProcess}]
      /\ parked \in [Slots -> Continuations] /\ state \in [Slots -> ThreadState]
  BY DEF TypeOK, ThreadsTypeOK
<1>1. /\ Used(p)' /\ Main(p)' = m /\ Space(p)' = r /\ Parent(p)' = process[current]
      /\ \A q \in Pids : q # p => /\ Used(q)' = Used(q) /\ Main(q)' = Main(q)
                                  /\ Space(q)' = Space(q) /\ Parent(q)' = Parent(q)
  <2>1. p # NoProcess
    BY SlotFacts
  <2> QED BY <1>t, <2>1 DEF RecordProcess, Used, Main, Space, Parent
<1>2. /\ m \in UserSlots => m \in Slots /\ state[m] = "Exited" /\ process' = [process EXCEPT ![m] = p]
                            /\ state' = [state EXCEPT ![m] = "Ready"]
                            /\ parked' = [parked EXCEPT ![m] = ReturnToUser]
      /\ m \notin UserSlots => m = NO_THREAD /\ UNCHANGED <<process, parked, state>>
  BY SlotFacts DEF FreeSlots, SpawnInto
<1>3. FirstSpace' /\ SpacesOwned'
  BY <1>1, SlotFacts DEF RecordsInv, FirstSpace, SpacesOwned
<1>4. ChildrenOfFirst'
  <2>1. m # NO_THREAD => process[current] = 1
    OBVIOUS
  <2> QED BY <1>1, <2>1 DEF RecordsInv, ChildrenOfFirst
<1>5. AliveRecorded'
  <2> SUFFICES ASSUME NEW t \in UserSlots, state'[t] # "Exited", NEW q, q = process'[t]
               PROVE  q = 1 \/ (q \in Pids /\ Used(q)' /\ Main(q)' = t)
    BY DEF AliveRecorded, Used, Main
  <2>1. CASE t = m
    BY <1>t, <1>1, <1>2, <2>1
  <2>2. CASE t # m
    <3>1. state[t] # "Exited" /\ process'[t] = process[t]
      BY <1>t, <1>2, <2>2, SlotFacts
    <3> QED BY <1>1, <3>1 DEF RecordsInv, AliveRecorded
  <2> QED BY <2>1, <2>2
<1>6. OneWaiter'
  <2>1. ASSUME NEW x \in Slots, parked'[x].op = "wait", NEW q, q = parked'[x].pid
        PROVE  /\ "wait" \in Syscalls /\ x \in UserSlots /\ process'[x] = 1 /\ q # 1
               /\ Used(q)' /\ Main(q)' = parked'[x].thread
    <3>1. x # m /\ parked'[x] = parked[x] /\ process'[x] = process[x]
      BY <1>t, <1>2, <2>1, SlotFacts DEF ReturnToUser, Continuation
    <3>2. q \in Pids /\ Used(q)
      BY <2>1, <3>1, ParkedTypes DEF TypeOK, RecordsInv, OneWaiter
    <3> QED BY <1>1, <2>1, <3>1, <3>2 DEF RecordsInv, OneWaiter
  <2>2. "wait" \in Syscalls => \A t \in UserSlots : process'[t] = 1 => t = 1
    BY <1>t, <1>2, SlotFacts DEF RecordsInv, OneWaiter
  <2> QED BY <2>1, <2>2 DEF OneWaiter, Used, Main
<1> QED BY <1>3, <1>4, <1>5, <1>6 DEF RecordsInv

\* A new thread of PID 1 in a free slot, for programs that do not use the
\* blocking wait.
LEMMA ThreadKeepsRecords ==
  ASSUME TypeOK, RecordsInv, "wait" \notin Syscalls, NEW t \in UserSlots, SpawnInto(t, 1),
         UNCHANGED processVars
  PROVE  RecordsInv'
<1>1. /\ UNCHANGED <<processes, roots>> /\ process' = [process EXCEPT ![t] = 1]
      /\ state' = [state EXCEPT ![t] = "Ready"] /\ parked' = [parked EXCEPT ![t] = ReturnToUser]
      /\ process \in [Slots -> Pids \cup {NoProcess}] /\ parked \in [Slots -> Continuations]
      /\ state \in [Slots -> ThreadState] /\ t \in Slots
  BY SlotFacts DEF SpawnInto, TypeOK, ThreadsTypeOK, processVars
<1>2. FirstSpace' /\ ChildrenOfFirst' /\ SpacesOwned'
  BY <1>1 DEF RecordsInv, FirstSpace, ChildrenOfFirst, SpacesOwned, Used, Main, Space, Parent
<1>3. AliveRecorded'
  BY <1>1, SlotFacts DEF RecordsInv, AliveRecorded, Used, Main
<1>4. OneWaiter'
  BY <1>1 DEF RecordsInv, OneWaiter, Used, Main, ReturnToUser, Continuation
<1> QED BY <1>2, <1>3, <1>4 DEF RecordsInv

LEMMA LosesRootKeeps ==
  ASSUME TypeOK, TablesInv, RecordsInv, NEW r, LosesRoot(r) PROVE RecordsInv'
<1>1. /\ r \in Roots \ roots /\ roots' = roots \cup {r} /\ UNCHANGED <<process, parked, state>>
  BY DEF LosesRoot
<1>2. CASE UNCHANGED processes
  BY <1>1, <1>2
  DEF RecordsInv, FirstSpace, ChildrenOfFirst, SpacesOwned, AliveRecorded, OneWaiter,
      Used, Main, Space, Parent
<1>3. ASSUME NEW p \in Pids, p # 1, ~ Used(p), RecordProcess(p, r, NO_THREAD)
      PROVE  RecordsInv'
  BY <1>1, <1>3, RecordKeeps
<1> QED BY <1>2, <1>3 DEF LosesRoot

\* PID 1's space is active whenever a thread of PID 1 gets the CPU.
LEMMA CreatorSpaceStep ==
  ASSUME TypeOK, TypeOK', QueueInv, QueueInv', TablesInv, FirstSpace, CreatorSpace, [Next]_vars,
         "terminate" \notin Syscalls
  PROVE  CreatorSpace'
<1>1. PICK me, next : me = current /\ next = current'
  OBVIOUS
<1>2. CASE Start
  <2>1. cr3' = 1
    BY <1>2 DEF Start, CreatorSpace
  <2> QED BY <2>1 DEF CreatorSpace
<1>3. CASE UNCHANGED vars
  BY <1>3 DEF vars, threadVars, tableVars, queueVars, CreatorSpace
<1>4. CASE me \in Slots /\ UNCHANGED <<current, cr3>>
  <2>1. state[me] # "Exited" /\ me # NO_THREAD
    BY <1>1, <1>4, SlotFacts DEF QueueInv
  <2>2. process'[me] = process[me]
    BY <1>4, <2>1, SpacesKept
  <2> QED BY <1>1, <1>4, <2>1, <2>2 DEF CreatorSpace
<1>5. CASE /\ me \in Slots /\ process' = process
           /\ \A p \in Pids : Used(p)' <=> Used(p)
           /\ \E q, st : /\ Schedule(q, st) /\ DOMAIN st = Slots
                         /\ st[IDLE_THREAD] = "Exited" => state[IDLE_THREAD] = "Exited"
  <2>1. PICK q, st : /\ Schedule(q, st) /\ DOMAIN st = Slots
                     /\ st[IDLE_THREAD] = "Exited" => state[IDLE_THREAD] = "Exited"
    BY <1>5
  <2>2. next # NO_THREAD
    <3>1. state[IDLE_THREAD] # "Exited"
      BY <1>1, <1>5, SlotFacts DEF TablesInv, IdleAlive
    <3>2. state'[IDLE_THREAD] # "Exited"
      BY <2>1, <3>1, ScheduleEndsNobody, SlotFacts
    <3> QED BY <1>1, <3>2 DEF QueueInv
  <2>3. ASSUME next \in UserSlots, process[next] = 1 PROVE cr3' = 1
    <3>1. next = me => cr3' = cr3 /\ cr3 = 1
      BY <1>1, <2>1, <2>3 DEF Schedule, CreatorSpace
    <3>2. next # me => cr3' = Space(1)
      BY <1>1, <2>1, <2>3, SlotFacts DEF Schedule, Space, FirstSpace
    <3> QED BY <3>1, <3>2 DEF FirstSpace
  <2> QED BY <1>1, <1>5, <2>2, <2>3 DEF CreatorSpace
<1> QED BY <1>1, <1>2, <1>3, <1>4, <1>5, CpuStep

-----------------------------------------------------------------------------
\* A step that creates no thread keeps the records of the threads there are.
LEMMA QuietRecords ==
  ASSUME TypeOK, QueueInv, TablesInv, RecordsInv, "terminate" \notin Syscalls,
         KernelRuns \/ Interrupted \/ UNCHANGED vars
  PROVE  /\ RecordsInv' /\ UNCHANGED process /\ ExitedStay
         /\ \A p \in Pids : Main(p)' # NO_THREAD => Main(p) # NO_THREAD /\ Space(p)' = Space(p)
<1>1. processes \in [Pids -> ProcessRecords]
  BY DEF TypeOK, ThreadsTypeOK
<1>2. CASE RecordsStay
  <2>1. ASSUME NEW p \in Pids PROVE Main(p)' = Main(p) /\ Space(p)' = Space(p)
    <3>1. processes[p] \in ProcessRecords
      BY <1>1
    <3>2. processes'[p] = processes[p] \/ processes'[p] = [processes[p] EXCEPT !.parent = 1]
      BY <1>2 DEF RecordsStay
    <3> QED BY <3>1, <3>2 DEF Main, Space, ProcessRecords, EMPTY
  <2> QED BY <1>2, <2>1, RecordsStayKeeps DEF RecordsStay
<1>3. ASSUME NEW p \in Pids, BeginsWait(p)
      PROVE  /\ RecordsInv' /\ UNCHANGED <<process, processes>> /\ ExitedStay
  BY <1>3, BeginsWaitKeeps DEF BeginsWait, processVars
<1>4. ASSUME NEW p \in Pids, Reaps(p)
      PROVE  /\ RecordsInv' /\ UNCHANGED <<process, state>>
             /\ UNCHANGED processes \/ processes' = [processes EXCEPT ![p] = EMPTY]
  BY <1>4, ReapsKeeps DEF Reaps, Release, processVars
<1>5. ASSUME NEW r, LosesRoot(r)
      PROVE  /\ RecordsInv' /\ UNCHANGED <<process, state>>
             /\ \/ UNCHANGED processes
                \/ \E p \in Pids : RecordProcess(p, r, NO_THREAD)
  BY <1>5, LosesRootKeeps DEF LosesRoot
<1>6. ASSUME NEW p \in Pids, NEW rec, rec.main_thread = NO_THREAD, UNCHANGED <<process, state>>,
             processes' = [processes EXCEPT ![p] = rec]
      PROVE  /\ ExitedStay
             /\ \A q \in Pids : Main(q)' # NO_THREAD => Main(q) # NO_THREAD /\ Space(q)' = Space(q)
  BY <1>1, <1>6 DEF ExitedStay, Main, Space
<1>7. ASSUME NEW p \in Pids, NEW r, RecordProcess(p, r, NO_THREAD), UNCHANGED <<process, state>>
      PROVE  /\ ExitedStay
             /\ \A q \in Pids : Main(q)' # NO_THREAD => Main(q) # NO_THREAD /\ Space(q)' = Space(q)
  BY <1>6, <1>7 DEF RecordProcess
<1>8. EMPTY.main_thread = NO_THREAD
  BY DEF EMPTY
<1> QED
  BY <1>2, <1>3, <1>4, <1>5, <1>6, <1>7, <1>8, QuietSteps DEF ExitedStay, Main, Space

\* Such a step keeps the stacks in use, if all it takes away are the stacks of
\* released spaces and of slots that are free.
LEMMA StackFrame ==
  ASSUME UserStacks, KernelStacks, RecordsInv', UNCHANGED process, ExitedStay,
         \A p \in Pids : Main(p)' # NO_THREAD => Main(p) # NO_THREAD /\ Space(p)' = Space(p),
         \A p \in Pids : Main(p)' # NO_THREAD => Used(p)',
         \A t \in UserSlots : owns_user_stack'[t] => owns_user_stack[t],
         \A t \in UserSlots : state[t] # "Exited" => kernel_stack'[t] = kernel_stack[t],
         \A s \in stacks : /\ s[1] \in roots'
                           /\ \A t \in UserSlots : state[t] = "Exited" => s # <<1, t>>
                           => s \in stacks'
  PROVE  UserStacks' /\ KernelStacks'
<1>1. 1 \in roots' /\ 1 \in Pids
  BY SlotFacts DEF RecordsInv, FirstSpace, SpacesOwned
<1>2. <<1, 0>> \in stacks'
  BY <1>1, SlotFacts DEF UserStacks, IDLE_THREAD
<1>3. ASSUME NEW t \in UserSlots, owns_user_stack'[t] PROVE process'[t] = 1
  BY <1>3 DEF UserStacks
<1>4. ASSUME NEW t \in UserSlots, owns_user_stack'[t], state'[t] # "Exited"
      PROVE  <<1, t>> \in stacks'
  <2>1. owns_user_stack[t] /\ state[t] # "Exited"
    BY <1>4 DEF ExitedStay
  <2>2. <<1, t>> \in stacks
    BY <2>1 DEF UserStacks
  <2> QED BY <1>1, <2>1, <2>2
<1>5. ASSUME NEW p \in Pids, p # 1, Main(p)' # NO_THREAD
      PROVE  <<Space(p)', p>> \in stacks'
  <2>1. <<Space(p)', p>> \in stacks
    BY <1>5 DEF UserStacks
  <2>2. Space(p)' \in roots' /\ Space(p)' # 1
    BY <1>1, <1>5 DEF RecordsInv, FirstSpace, SpacesOwned
  <2> QED BY <2>1, <2>2
<1>6. KernelStacks'
  BY DEF KernelStacks, ExitedStay
<1> QED BY <1>2, <1>3, <1>4, <1>5, <1>6 DEF UserStacks

\* A process with a main thread is in use.
LEMMA MainsAreUsed ==
  ASSUME NEW records \in [Pids -> ProcessRecords], NEW p \in Pids,
         records[p].main_thread # NO_THREAD
  PROVE  records[p].id # NoProcess
<1>1. records[p] \in ProcessRecords
  OBVIOUS
<1> QED BY <1>1, SlotFacts DEF ProcessRecords, EMPTY

\* What release_resources() of a free slot leaves, called by a thread of PID 1.
LEMMA ReleasedStacksFacts ==
  ASSUME NEW t \in UserSlots, cr3 = 1
  PROVE  \A s \in stacks : s # <<1, t>> => s \in ReleasedStacks(t)
BY DEF ReleasedStacks

\* A caller that creates is of PID 1, and the slot it gets is free.
LEMMA CreatorIsFirst ==
  ASSUME InUser, CreatorSpace, OneCreator, process[current] \in Creators, FreeSlots # {}
  PROVE  /\ process[current] = 1 /\ cr3 = 1 /\ Min(FreeSlots) \in FreeSlots
         /\ Min(FreeSlots) \in UserSlots /\ state[Min(FreeSlots)] = "Exited"
<1>1. Min(FreeSlots) \in FreeSlots
  BY FreeFacts
<1>2. process[current] = 1 /\ current \in UserSlots
  BY DEF OneCreator, InUser
<1> QED BY <1>1, <1>2 DEF FreeSlots, CreatorSpace

\* The stacks after a step that creates no thread.
LEMMA QuietStacks ==
  ASSUME TypeOK, TypeOK', QueueInv, TablesInv, StackInv, OneCreator,
         \/ Interrupted
         \/ KernelRuns /\ StacksOfSpaces
         \/ UNCHANGED <<vars, stackVars>>
  PROVE  RecordsInv' /\ StackTypeOK' /\ UserStacks' /\ KernelStacks'
<1> USE DEF stackVars
<1>1. /\ RecordsInv' /\ UNCHANGED process /\ ExitedStay
      /\ \A p \in Pids : Main(p)' # NO_THREAD => Main(p) # NO_THREAD /\ Space(p)' = Space(p)
  <2>1. RecordsInv /\ "terminate" \notin Syscalls
    BY DEF StackInv, OneCreator
  <2> QED BY <2>1, QuietRecords
<1>2. \A p \in Pids : Main(p)' # NO_THREAD => Used(p)'
  BY MainsAreUsed DEF TypeOK, ThreadsTypeOK, Main, Used
<1>3. /\ UNCHANGED <<owns_user_stack, kernel_stack>>
      /\ stacks' = stacks \/ stacks' = {s \in stacks : s[1] \in roots'}
  BY DEF Interrupted, userVars, StacksOfSpaces
<1>4. StackTypeOK'
  BY <1>3 DEF StackInv, StackTypeOK
<1>5. \A s \in stacks : s[1] \in roots' => s \in stacks'
  BY <1>3
<1>6. UserStacks' /\ KernelStacks'
  BY <1>1, <1>2, <1>3, <1>5, StackFrame DEF StackInv
<1> QED BY <1>1, <1>4, <1>6

\* The stacks after a call that fails half way.
LEMMA LosesStackKeeps ==
  ASSUME TypeOK, TypeOK', QueueInv, TablesInv, StackInv, OneCreator, InUser,
         KernelRuns \/ UNCHANGED vars, NEW outcomes, outcomes \subseteq {"none", "part", "mapped"},
         NEW new, NEW parts, LosesStack(outcomes, new, parts)
  PROVE  RecordsInv' /\ StackTypeOK' /\ UserStacks' /\ KernelStacks'
<1>1. /\ RecordsInv' /\ UNCHANGED process /\ ExitedStay
      /\ \A p \in Pids : Main(p)' # NO_THREAD => Main(p) # NO_THREAD /\ Space(p)' = Space(p)
  <2>1. RecordsInv /\ "terminate" \notin Syscalls
    BY DEF StackInv, OneCreator
  <2> QED BY <2>1, QuietRecords
<1>2. \A p \in Pids : Main(p)' # NO_THREAD => Used(p)'
  BY MainsAreUsed DEF TypeOK, ThreadsTypeOK, Main, Used
<1>t. PICK t : t = Min(FreeSlots)
  OBVIOUS
<1>3. /\ \E mapped \in outcomes : kernel_stack' = [kernel_stack EXCEPT ![t] = mapped]
      /\ stacks' = ReleasedStacks(t) \cup new
      /\ owns_user_stack' = [owns_user_stack EXCEPT ![t] = FALSE]
  BY <1>t DEF LosesStack
<1>4. cr3 = 1 /\ t \in UserSlots /\ t \in Slots /\ state[t] = "Exited"
  BY <1>t, CreatorIsFirst, SlotFacts DEF LosesStack, StackInv
<1>5. StackTypeOK'
  BY <1>3 DEF StackInv, StackTypeOK
<1>6. \A s \in stacks : s # <<1, t>> => s \in stacks'
  BY <1>3, <1>4, ReleasedStacksFacts
<1>7. /\ \A x \in UserSlots : owns_user_stack'[x] => owns_user_stack[x]
      /\ \A x \in UserSlots : state[x] # "Exited" => kernel_stack'[x] = kernel_stack[x]
  BY <1>3, <1>4, SlotFacts DEF StackInv, StackTypeOK
<1>8. UserStacks' /\ KernelStacks'
  BY <1>1, <1>2, <1>4, <1>6, <1>7, StackFrame DEF StackInv
<1> QED BY <1>1, <1>5, <1>8

\* The stacks after a call that creates the thread in slot t for process q, with
\* its user stack either in PID 1's space or in a new one.
LEMMA NewStackKeeps ==
  ASSUME TypeOK, StackInv, NEW t \in FreeSlots, cr3 = 1, NEW q \in Pids, SpawnInto(t, q),
         RecordsInv', HasKernelStack(t), NEW owned \in BOOLEAN, owned => q = 1,
         owns_user_stack' = [owns_user_stack EXCEPT ![t] = owned],
         NEW new, stacks' = ReleasedStacks(t) \cup {new}, owned => new = <<1, t>>,
         \A p \in Pids : p # 1 /\ Main(p)' # NO_THREAD =>
           \/ new = <<Space(p)', p>>
           \/ Main(p) # NO_THREAD /\ Space(p)' = Space(p) /\ Used(p)
  PROVE  StackTypeOK' /\ UserStacks' /\ KernelStacks'
<1>1. /\ t \in UserSlots /\ t \in Slots /\ state[t] = "Exited"
      /\ process \in [Slots -> Pids \cup {NoProcess}] /\ state \in [Slots -> ThreadState]
      /\ process' = [process EXCEPT ![t] = q] /\ state' = [state EXCEPT ![t] = "Ready"]
      /\ kernel_stack' = [kernel_stack EXCEPT ![t] = "mapped"]
  BY SlotFacts DEF FreeSlots, TypeOK, ThreadsTypeOK, SpawnInto, HasKernelStack
<1>2. StackTypeOK'
  BY <1>1 DEF StackInv, StackTypeOK
<1>3. new \in stacks' /\ \A s \in stacks : s # <<1, t>> => s \in stacks'
  BY <1>1, ReleasedStacksFacts
<1>4. <<1, 0>> \in stacks'
  BY <1>1, <1>3, SlotFacts DEF StackInv, UserStacks, IDLE_THREAD
<1>5. ASSUME NEW x \in UserSlots, owns_user_stack'[x]
      PROVE  process'[x] = 1 /\ (state'[x] # "Exited" => <<1, x>> \in stacks')
  <2>1. x \in Slots /\ owns_user_stack \in [Slots -> BOOLEAN]
    BY SlotFacts DEF StackInv, StackTypeOK
  <2>2. CASE x = t
    BY <1>1, <1>3, <1>5, <2>1, <2>2
  <2>3. CASE x # t
    <3>1. owns_user_stack[x] /\ process'[x] = process[x] /\ state'[x] = state[x]
      BY <1>1, <1>5, <2>1, <2>3
    <3> QED BY <1>3, <2>3, <3>1 DEF StackInv, UserStacks
  <2> QED BY <2>2, <2>3
<1>6. ASSUME NEW p \in Pids, p # 1, Main(p)' # NO_THREAD
      PROVE  <<Space(p)', p>> \in stacks'
  <2>1. CASE new = <<Space(p)', p>>
    BY <1>3, <2>1
  <2>2. CASE Main(p) # NO_THREAD /\ Space(p)' = Space(p) /\ Used(p)
    <3>1. Space(p) # 1
      BY <1>6, <2>2, SlotFacts DEF StackInv, RecordsInv, FirstSpace, SpacesOwned
    <3>2. <<Space(p), p>> \in stacks
      BY <1>6, <2>2 DEF StackInv, UserStacks
    <3> QED BY <1>3, <2>2, <3>1, <3>2
  <2> QED BY <1>6, <2>1, <2>2
<1>7. KernelStacks'
  BY <1>1, SlotFacts DEF StackInv, StackTypeOK, KernelStacks
<1> QED BY <1>2, <1>4, <1>5, <1>6, <1>7 DEF UserStacks

LEMMA StackStep ==
  ASSUME TypeOK, TypeOK', QueueInv, QueueInv', TablesInv, OneCreator, StackInv,
         [UserNext]_<<vars, userVars>>
  PROVE  StackInv'
<1>1. CreatorSpace'
  BY KernelStepOrStutter, CreatorSpaceStep DEF StackInv, RecordsInv, OneCreator
<1>2. CASE \/ Interrupted
           \/ KernelRuns /\ StacksOfSpaces
           \/ SetTlsBase \/ OtherCall \/ UNCHANGED <<vars, userVars>>
  <2>1. \/ Interrupted
        \/ KernelRuns /\ StacksOfSpaces
        \/ UNCHANGED <<vars, stackVars>>
    BY <1>2 DEF SetTlsBase, OtherCall, userVars
  <2> QED BY <1>1, <2>1, QuietStacks DEF StackInv
<1>3. CASE CreateThreadFails
  <2>1. /\ InUser /\ UNCHANGED vars
        /\ \E o, parts : o \subseteq {"none", "part", "mapped"} /\ LosesStack(o, {}, parts)
    BY <1>3 DEF CreateThreadFails
  <2> QED BY <1>1, <2>1, LosesStackKeeps DEF StackInv
<1>4. CASE SpawnProcessFails
  <2>1. InUser /\ KernelRuns /\ LosesStack({"none", "part"}, NewProcessStack, {})
    BY <1>4 DEF SpawnProcessFails, ProcessSpawnFails, KernelRuns
  <2> QED BY <1>1, <2>1, LosesStackKeeps DEF StackInv
<1>t. PICK t : t = Min(FreeSlots)
  OBVIOUS
<1>5. CASE CreateThread
  <2>1. /\ InUser /\ FreeSlots # {} /\ SpawnInto(t, 1) /\ UNCHANGED processVars
        /\ "wait" \notin Syscalls /\ process[current] \in Creators /\ HasKernelStack(t)
        /\ stacks' = ReleasedStacks(t) \cup {<<cr3, t>>}
        /\ owns_user_stack' = [owns_user_stack EXCEPT ![t] = TRUE]
    BY <1>t, <1>5 DEF CreateThread, ThreadCreate, OneCreator, USER_PROCESS_ID
  <2>2. cr3 = 1 /\ t \in FreeSlots /\ t \in UserSlots
    BY <1>t, <2>1, CreatorIsFirst DEF StackInv
  <2>3. RecordsInv'
    BY <2>1, <2>2, ThreadKeepsRecords DEF StackInv
  <2>4. \A p \in Pids : p # 1 /\ Main(p)' # NO_THREAD =>
           Main(p) # NO_THREAD /\ Space(p)' = Space(p) /\ Used(p)
    BY <2>1, MainsAreUsed DEF Main, Space, Used, TypeOK, ThreadsTypeOK, processVars
  <2>5. StackTypeOK' /\ UserStacks' /\ KernelStacks'
    BY <2>1, <2>2, <2>3, <2>4, NewStackKeeps, SlotFacts
  <2> QED BY <1>1, <2>3, <2>5 DEF StackInv
<1>6. CASE SpawnProcess
  <2>p. PICK q, r : q = Min(FreePids) /\ r = Min(FreeRoots)
    OBVIOUS
  <2>1. /\ InUser /\ FreeSlots # {} /\ FreePids # {} /\ FreeRoots # {} /\ SpawnInto(t, q)
        /\ RecordProcess(q, r, t) /\ roots' = roots \cup {r}
        /\ process[current] \in Creators /\ HasKernelStack(t)
        /\ stacks' = ReleasedStacks(t) \cup {<<r, q>>}
        /\ owns_user_stack' = [owns_user_stack EXCEPT ![t] = FALSE]
    BY <1>t, <1>6, <2>p DEF SpawnProcess, ProcessSpawn, NewProcessStack
  <2>2. process[current] = 1 /\ cr3 = 1 /\ t \in FreeSlots
    BY <1>t, <2>1, CreatorIsFirst DEF StackInv
  <2>3. q \in Pids /\ q # 1 /\ ~ Used(q) /\ r \in Roots \ roots
    BY <2>p, <2>1, FreeFacts
  <2>4. RecordsInv'
    BY <2>1, <2>2, <2>3, RecordKeeps DEF StackInv
  <2>5. ASSUME NEW p \in Pids, p # 1, Main(p)' # NO_THREAD
        PROVE  \/ <<r, q>> = <<Space(p)', p>>
               \/ Main(p) # NO_THREAD /\ Space(p)' = Space(p) /\ Used(p)
    <3>1. processes \in [Pids -> ProcessRecords]
      BY DEF TypeOK, ThreadsTypeOK
    <3>2. CASE p = q
      BY <2>1, <3>1, <3>2 DEF RecordProcess, Space
    <3>3. CASE p # q
      BY <2>1, <2>5, <3>1, <3>3, MainsAreUsed DEF RecordProcess, Main, Space, Used
    <3> QED BY <3>2, <3>3
  <2>6. StackTypeOK' /\ UserStacks' /\ KernelStacks'
    BY <2>1, <2>2, <2>3, <2>4, <2>5, NewStackKeeps
  <2> QED BY <1>1, <2>4, <2>6 DEF StackInv
<1> QED BY <1>2, <1>3, <1>4, <1>5, <1>6 DEF UserNext

LEMMA StackInit == UserInit => StackInv
<1> SUFFICES ASSUME UserInit PROVE StackInv
  OBVIOUS
<1>1. /\ state = [t \in Slots |-> IF t = 1 THEN "Ready" ELSE "Exited"]
      /\ process = [t \in Slots |-> IF t = 1 THEN 1 ELSE NoProcess]
      /\ \A t \in Slots : parked[t].op # "wait"
      /\ current = NO_THREAD /\ cr3 = 1 /\ roots = {1}
      /\ stacks = {<<1, 0>>} /\ owns_user_stack = [t \in Slots |-> FALSE]
      /\ kernel_stack = [t \in Slots |-> IF t = 1 THEN "mapped" ELSE "none"]
  BY DEF UserInit, Init, ThreadsInit, USER_PROCESS_ID, Continuation, ReturnToUser
<1>2. /\ Used(1) /\ Space(1) = 1
      /\ \A p \in Pids : Main(p) = NO_THREAD /\ (p # 1 => ~ Used(p))
  <2>1. processes = [p \in Pids |-> IF p = 1 THEN [EMPTY EXCEPT !.id = 1, !.address_space = 1]
                                   ELSE EMPTY]
    BY DEF UserInit, Init, ThreadsInit, USER_PROCESS_ID
  <2> QED BY <2>1, SlotFacts DEF Used, Space, Main, EMPTY, NoProcess
<1>3. FirstSpace /\ ChildrenOfFirst /\ SpacesOwned
  BY <1>1, <1>2, SlotFacts DEF FirstSpace, ChildrenOfFirst, SpacesOwned
<1>4. AliveRecorded /\ OneWaiter
  BY <1>1, SlotFacts DEF AliveRecorded, OneWaiter, NoProcess
<1>5. CreatorSpace /\ StackTypeOK /\ UserStacks /\ KernelStacks
  BY <1>1, <1>2, SlotFacts DEF CreatorSpace, StackTypeOK, UserStacks, KernelStacks
<1> QED BY <1>3, <1>4, <1>5 DEF StackInv, RecordsInv

LEMMA StacksFound == ASSUME StackInv PROVE StacksMapped
<1> SUFFICES ASSUME NEW t \in UserSlots, state[t] # "Exited", NEW p, p = process[t]
             PROVE  <<Space(p), StackSlot(t)>> \in stacks /\ kernel_stack[t] = "mapped"
  BY DEF StacksMapped, Space
<1>1. kernel_stack[t] = "mapped"
  BY DEF StackInv, KernelStacks
<1>2. CASE owns_user_stack[t]
  <2>1. p = 1 /\ <<1, t>> \in stacks /\ Space(1) = 1
    BY <1>2 DEF StackInv, RecordsInv, FirstSpace, UserStacks
  <2> QED BY <1>1, <1>2, <2>1 DEF StackSlot
<1>3. CASE ~ owns_user_stack[t] /\ p = 1
  <2>1. <<1, 0>> \in stacks /\ Space(1) = 1
    BY DEF StackInv, RecordsInv, FirstSpace, UserStacks
  <2> QED BY <1>1, <1>3, <2>1 DEF StackSlot, USER_PROCESS_ID
<1>4. CASE ~ owns_user_stack[t] /\ p # 1
  <2>1. p \in Pids /\ Main(p) = t
    BY <1>4 DEF StackInv, RecordsInv, AliveRecorded
  <2>2. <<Space(p), p>> \in stacks
    BY <1>4, <2>1, SlotFacts DEF StackInv, UserStacks
  <2> QED BY <1>1, <1>4, <2>2 DEF StackSlot, USER_PROCESS_ID
<1> QED BY <1>2, <1>3, <1>4

\* Where only PID 1's programs create threads and processes, and use either
\* threads or the blocking wait_process(), every thread that has not exited has
\* its user stack mapped in the address space of its process and both kernel
\* stacks: release_user_stack() unmaps in whatever space is active when the slot
\* is used again, and calls that fail half way leave pages, records and
\* unowned slots behind, but never at the expense of a thread that is alive.
THEOREM StacksStayMapped == UserSpec => [](OneCreator => StacksMapped)
<1>1. UserInit => (OneCreator => StackInv)
  BY StackInit
<1>2. ASSUME TypeOK, TypeOK', WaitInv, WaitInv', OneCreator => StackInv,
             [UserNext]_<<vars, userVars>>
      PROVE  (OneCreator => StackInv)'
  <2> SUFFICES ASSUME OneCreator PROVE StackInv'
    BY DEF OneCreator
  <2>1. QueueInv /\ QueueInv' /\ TablesInv
    BY <1>2 DEF WaitInv, OneCreator
  <2> QED BY <1>2, <2>1, StackStep
<1>3. (OneCreator => StackInv) => (OneCreator => StacksMapped)
  BY StacksFound
<1> QED BY <1>1, <1>2, <1>3, ContextsImplementKernel, WaitInvariant, PTL DEF UserSpec
=============================================================================
