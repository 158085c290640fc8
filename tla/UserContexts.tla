---------------------------- MODULE UserContexts ----------------------------
(***************************************************************************)
(* What a user thread needs around the scheduler of module Kernel: its     *)
(* registers and FS base, saved by the system call stub and restored by    *)
(* two different return paths (kernel-core/src/arch.rs), the kernel stack  *)
(* interrupts arrive on, and its user stack in some address space          *)
(* (kernel-core/src/paging.rs).  A step is one of Kernel, or changes only  *)
(* what this module adds to it.                                            *)
(*                                                                         *)
(* The user registers of a thread are either those it was created with     *)
(* (entry point, stack, argument) or those of a later point of its         *)
(* program.  Of the allocations that can fail this module has the kernel   *)
(* stacks; module AddressSpace has the others.                             *)
(***************************************************************************)
EXTENDS Kernel

CONSTANTS
  TlsSetters,   \* the slots whose programs call set_tls_base
  Creators      \* the processes whose programs create threads and processes

ASSUME UserContextsAssumption == TlsSetters \subseteq Slots /\ Creators \subseteq Pids

VARIABLES
  fresh,            \* threads whose context still leads to user_thread_trampoline()
  user_context,     \* Thread.user_context
  syscall_state,    \* Thread.syscall_state
  cpu,              \* the user registers in the CPU
  fs,               \* IA32_FS_BASE
  rsp0,             \* the thread whose kernel stack is in TSS.rsp[0]
  program,          \* what each program expects: where it is and its FS base
  stacks,           \* user stacks that are mapped, as <<root, stack slot>>
  partStacks,       \* those of which a call that failed mapped only some pages
  owns_user_stack,  \* Thread.owns_user_stack
  kernel_stack      \* the kernel stacks of each slot: "none", "part" or "mapped"

registerVars == <<fresh, user_context, syscall_state, cpu, fs, rsp0, program>>
stackVars == <<stacks, partStacks, owns_user_stack, kernel_stack>>
userVars == <<registerVars, stackVars>>

Registers(t, begun) == [thread |-> t, begun |-> begun]
FsBase(t, changed) == [thread |-> t, changed |-> changed]
NewContext(t) == [registers |-> Registers(t, FALSE), fs_base |-> FsBase(t, FALSE)]
NoState == Registers(NO_THREAD, FALSE)    \* SyscallState::EMPTY
NoContext == NewContext(NO_THREAD)        \* UserContext::EMPTY
BOOT_STACK == NO_THREAD                   \* SYSCALL_STACK of initialize_tss()

\* The first thread of PID 1 has been spawned into slot 1; its stack is slot 0.
UserInit ==
  /\ Init
  /\ fresh = {1}
  /\ user_context = [t \in Slots |-> IF t = 1 THEN NewContext(t) ELSE NoContext]
  /\ syscall_state = [t \in Slots |-> NoState]
  /\ cpu = NoState /\ fs = FsBase(NO_THREAD, FALSE) /\ rsp0 = BOOT_STACK
  /\ program = user_context
  /\ stacks = {<<1, 0>>} /\ partStacks = {}
  /\ owns_user_stack = [t \in Slots |-> FALSE]
  /\ kernel_stack = [t \in Slots |-> IF t = 1 THEN "mapped" ELSE "none"]

-----------------------------------------------------------------------------
(***************************************************************************)
(* Registers.                                                              *)
(***************************************************************************)

\* scheduler_save_syscall_state(): a system call saves the registers twice, as
\* syscall_state and as user_context, the latter with the FS base.
Saved ==
  IF InUser
  THEN [user_context EXCEPT ![current] =
          [registers |-> Registers(cpu.thread, TRUE), fs_base |-> fs]]
  ELSE user_context
SavedState ==
  IF InUser THEN [syscall_state EXCEPT ![current] = Registers(cpu.thread, TRUE)]
  ELSE syscall_state

\* What the way to user mode loads: resume_user_context() all of user_context,
\* the end of x86_syscall_stub what current_syscall_state() has, with the other
\* registers as the kernel's calls have preserved them.
ReturnRegisters ==
  IF current' \in fresh THEN user_context'[current'].registers ELSE syscall_state'[current']

\* Mutation: the end of a system call does not load the FS base.
Resume_KeepsFs ==
  /\ fresh' = IF InUser' THEN fresh \ {current'} ELSE fresh
  /\ IF InUser'
     THEN /\ cpu' = ReturnRegisters
          /\ fs' = IF current' \in fresh THEN user_context'[current'].fs_base ELSE fs
          /\ rsp0' = current'
     ELSE UNCHANGED <<cpu, fs, rsp0>>

\* The way to user mode of the thread that is dispatched or stays current:
\* user_thread_trampoline() and resume_user_context() the first time, the end
\* of x86_syscall_stub with scheduler_set_tss_stack() from then on.
Resume ==
  /\ fresh' = IF InUser' THEN fresh \ {current'} ELSE fresh
  /\ IF InUser'
     THEN /\ cpu' = ReturnRegisters
          /\ fs' = user_context'[current'].fs_base
          /\ rsp0' = current'
     ELSE UNCHANGED <<cpu, fs, rsp0>>

\* The program of the calling thread has moved on.
Moved ==
  IF InUser THEN [program EXCEPT ![current].registers.begun = TRUE] ELSE program

\* Everything the kernel does between entry and exit that creates no thread
\* and changes no FS base.
SaveAndResume ==
  /\ user_context' = Saved /\ syscall_state' = SavedState /\ program' = Moved
  /\ Resume

\* The new thread t of spawn_user_for_process() is not dispatched yet.
SaveAndCreate(t) ==
  /\ user_context' = [Saved EXCEPT ![t] = NewContext(t)]
  /\ syscall_state' = [SavedState EXCEPT ![t] = NoState]
  /\ program' = [Moved EXCEPT ![t] = NewContext(t)]
  /\ fresh' = fresh \cup {t}
  /\ cpu' = syscall_state'[current]
  /\ fs' = user_context'[current].fs_base
  /\ rsp0' = current

\* syscall_set_tls_base() of a mapped address.
SetTlsBase ==
  /\ InUser /\ current \in TlsSetters
  /\ UNCHANGED <<vars, stackVars>>
  /\ LET base == FsBase(current, TRUE)
     IN /\ user_context' = [Saved EXCEPT ![current].fs_base = base]
        /\ program' = [Moved EXCEPT ![current].fs_base = base]
  /\ syscall_state' = SavedState
  /\ Resume

\* A system call that changes nothing above: input, output, or a call that
\* fails before it has any effect.
OtherCall ==
  /\ InUser /\ UNCHANGED <<vars, stackVars>>
  /\ SaveAndResume

-----------------------------------------------------------------------------
(***************************************************************************)
(* User stacks.                                                            *)
(***************************************************************************)

\* Mutation: the pages of the stack area below are unmapped.
ReleasedStacks_Below(t) ==
  IF owns_user_stack[t] THEN stacks \ {<<cr3, t - 1>>} ELSE stacks

\* release_resources() of slot t: release_user_stack() unmaps the slot's stack
\* in the address space that is active now.
ReleasedStacks(t) == IF owns_user_stack[t] THEN stacks \ {<<cr3, t>>} ELSE stacks
ReleasedParts(t) == IF owns_user_stack[t] THEN partStacks \ {<<cr3, t>>} ELSE partStacks

\* The first page of a new stack in slot t is mapped already.
StackInTheWay(t) == <<cr3, t>> \in ReleasedStacks(t) \cup ReleasedParts(t)

\* The stack slot of a thread's stack pointer: that of its thread slot, or the
\* one load_user_elf_into() was given for the process.
StackSlot(t) ==
  IF owns_user_stack[t] THEN t
  ELSE IF process[t] = USER_PROCESS_ID THEN 0 ELSE process[t]

\* allocate_kernel_stack(), twice, in spawn_user_for_process(): stacks of the
\* slot's last thread have been released before, those of a failed attempt have
\* not, and then the first page is mapped already.
HasKernelStack(t) ==
  /\ kernel_stack[t] # "part"
  /\ kernel_stack' = [kernel_stack EXCEPT ![t] = "mapped"]

\* syscall_thread_create(): allocate_user_stack() works on the active space.
\* With pages of that slot's stack mapped there already the call fails.
CreateThread ==
  /\ ThreadCreate /\ UNCHANGED waitVars
  /\ process[current] \in Creators
  /\ LET t == Min(FreeSlots)
     IN /\ HasKernelStack(t)
        /\ ~ StackInTheWay(t)
        /\ stacks' = ReleasedStacks(t) \cup {<<cr3, t>>}
        /\ partStacks' = ReleasedParts(t)
        /\ owns_user_stack' = [owns_user_stack EXCEPT ![t] = TRUE]
        /\ SaveAndCreate(t)

\* user::spawn(): load_user_elf_into() maps the stack with the number of the
\* process in the new space, while the caller's space is active.
NewProcessStack == {<<Min(FreeRoots), Min(FreePids)>>}
SpawnProcess ==
  /\ ProcessSpawn /\ UNCHANGED waitVars
  /\ process[current] \in Creators
  /\ LET t == Min(FreeSlots)
     IN /\ HasKernelStack(t)
        /\ stacks' = ReleasedStacks(t) \cup NewProcessStack
        /\ partStacks' = ReleasedParts(t)
        /\ owns_user_stack' = [owns_user_stack EXCEPT ![t] = FALSE]
        /\ SaveAndCreate(t)

\* Either call when frames run out: at the first page of the kernel stacks, or
\* later, which keeps the pages mapped until then.  What is left of the kernel
\* stacks is one of `outcomes', and with both of them mapped the pages of the
\* user stacks `newParts' may be left too.
LosesStack(outcomes, newStacks, newParts) ==
  /\ process[current] \in Creators /\ FreeSlots # {}
  /\ LET t == Min(FreeSlots)
     IN /\ kernel_stack[t] # "part"
        /\ \E mapped \in outcomes :
             /\ kernel_stack' = [kernel_stack EXCEPT ![t] = mapped]
             /\ \E parts \in IF mapped = "mapped" THEN {{}, newParts} ELSE {{}} :
                  partStacks' = ReleasedParts(t) \cup parts
        /\ stacks' = ReleasedStacks(t) \cup newStacks
        /\ owns_user_stack' = [owns_user_stack EXCEPT ![t] = FALSE]
  /\ SaveAndResume

\* A new thread also fails at a page of its user stack, for want of a frame, or at
\* the first because it is mapped in the caller's space; it has its kernel stacks
\* then.  The pages mapped so far stay, as the slot does not own them.
CreateThreadFails ==
  /\ "thread_create" \in Syscalls
  /\ InUser /\ FreeSlots # {} /\ UNCHANGED vars
  /\ LET t == Min(FreeSlots)
     IN LosesStack(IF "spawn_failure" \in Syscalls THEN {"none", "part", "mapped"}
                   ELSE IF StackInTheWay(t) THEN {"mapped"} ELSE {},
                   {}, IF StackInTheWay(t) THEN {} ELSE {<<cr3, t>>})

SpawnProcessFails ==
  /\ ProcessSpawnFails /\ FreePids # {} /\ UNCHANGED waitVars
  /\ LosesStack({"none", "part"}, NewProcessStack, {})

\* destroy_user_address_space() of the roots a step releases.
StacksOfSpaces ==
  /\ stacks' = {s \in stacks : s[1] \in roots'}
  /\ partStacks' = {s \in partStacks : s[1] \in roots'}
  /\ UNCHANGED <<owns_user_stack, kernel_stack>>

-----------------------------------------------------------------------------
\* Registers and stacks survive an interrupt: the stub saves and restores what
\* irq_dispatch() uses, and iretq the rest.
Interrupted == (Tick \/ OtherInterrupt) /\ UNCHANGED userVars

KernelRuns ==
  \/ /\ \/ Start \/ Yield \/ IdleYield \/ Exit
        \/ JoinReturn \/ WaitReturn \/ ReapAnyChild \/ ProcessSpawnFails
        \/ \E t \in Slots : Join(t)
        \/ \E p \in Pids : WaitProcess(p) \/ TryWaitProcess(p) \/ TerminateProcess(p)
     /\ UNCHANGED waitVars
  \/ SleepReturn
  \/ \E ms \in 1 .. MaxDelay : Sleep(ms)
  \/ \E a \in Addresses, d \in Timeouts : FutexWait(a, d)
  \/ \E a \in Addresses, n \in 1 .. MaxFutexWaiters : FutexWake(a, n)

UserNext ==
  \/ Interrupted
  \/ KernelRuns /\ SaveAndResume /\ StacksOfSpaces
  \/ SetTlsBase \/ OtherCall
  \/ CreateThread \/ SpawnProcess \/ CreateThreadFails \/ SpawnProcessFails

UserSpec == UserInit /\ [][UserNext]_<<vars, userVars>>

-----------------------------------------------------------------------------
\* A program finds its own registers and its own FS base whenever it runs, at
\* its entry point the first time and where it made its last system call from
\* then on, and an interrupt arrives on the kernel stack of its thread: on
\* whichever way it left the CPU, whoever ran in between, and whoever had its
\* slot before.
RunsOwnContext ==
  InUser => /\ cpu = program[current].registers
            /\ fs = program[current].fs_base
            /\ rsp0 = current

\* "Enqueues the initial thread of a process whose ELF and stack have already
\* been mapped into its address space" (threads.rs): a thread that has not
\* exited has its user stack mapped in the address space of its process, and
\* its kernel stacks, whatever was released, used again or failed half way
\* before.  It holds where only PID 1 creates threads and processes, and either
\* has one thread or does not use the blocking wait_process().
StacksMapped ==
  \A t \in UserSlots :
    /\ state[t] # "Exited" /\ Used(process[t])
    => /\ <<processes[process[t]].address_space, StackSlot(t)>> \in stacks
       /\ kernel_stack[t] = "mapped"
=============================================================================
