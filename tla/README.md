# open-kernel in TLA+

Models of the open-kernel repository, checked with TLC and proved about with
TLAPS. `PROJECT.json` says for every definition which lines of the source it
stands for, and lists the runs, mutations, theorems and hazards.

## 1. The system

open-kernel is a small x86_64 kernel for one CPU, with an init process and a
shell. What matters for its correctness:

* **It is cooperative.** System calls run with interrupts masked
  (`arch.rs`, SFMASK), nothing preempts a thread, and a switch happens only in
  `yield_now`, `block_current` and `exit_current`. Interrupts arrive in user
  mode and in the idle loop's `sti; hlt; cli`. One system call is therefore one
  step of a model, up to the point where it blocks; what it does after it has
  blocked is another step, and anything may have happened between.
* **Everything is in fixed tables** that are indexed by small numbers which are
  reused: thread slots, pids, pty ids, descriptors, frames.
  Most of what can go wrong is a number that outlives what it named.
* **Operations have several steps and undo none of them** when one fails.
* **Devices are polled and abandoned.** A driver waits a bounded number of
  rounds and then gives up without taking its request back; the device may still
  answer.

| Component | State | Operations | Hard part |
|---|---|---|---|
| Threads, scheduler (`threads.rs`) | `THREADS`, `RUN_QUEUE`, `CURRENT_THREAD` | spawn, yield, block, wake, exit, join | joins against slot reuse, lost wakeups |
| Processes (`threads.rs`, `user.rs`) | `PROCESSES`, address-space roots | spawn, wait, try_wait, reap_any, terminate | reparenting, pid reuse, half-made processes |
| Sleep, futex, timer (`arch.rs`) | `SLEEPERS`, `FUTEX_WAITERS` | sleep, futex_wait, futex_wake, tick | full tables, wake against timeout |
| Frame allocator (`memory.rs`) | two bitmaps and a counter | initialize, allocate, free | rounding, saturation, double free |
| Address spaces (`paging.rs`, `elf.rs`, `user.rs`) | page tables, heap break | create, map, load, brk, destroy | failure half way, leaks, stale contents |
| Stacks and contexts (`paging.rs`, `threads.rs`, `arch.rs`) | kernel and user stacks, saved registers, FS base, TSS | allocate, release on reuse, system call entry and exit | two ways back to user mode; stacks of another space |
| ELF loader (`elf.rs`) | the memory of a new process | headers, segments, stack, TLS | segments that share pages, sizes and alignments |
| Process arguments (`init`, shell, `arch.rs`, `user.rs`) | argv in two address spaces | pass, copy, write | lengths, terminators, layout |
| Files (`user.rs`, `vfs.rs`, `storage.rs`) | descriptors, cwd, RAM files | open, read, write, seek, close, chdir | positions and holes, lookup by path in every call |
| Pseudo-terminals (`pty.rs`) | `PTYS`, console bindings | open, close, read, write, attach | ring wrap-around, bindings that go stale |
| Console (`console.rs`) | terminals, screen, keys | write, clear, backspace, blink, switch, key | what is on the screen after which order of draws |
| SATA (`sata.rs`) | one command slot, one buffer | identify, read | late answer after a timeout |
| Random (`random.rs`) | one virtio queue, one buffer | fill | late and short answers |
| Init (`init/src/main.rs`) | `running`, `POWER_EVENT` | start_order, start, supervise, reap, shutdown | pid reuse, restarts against shutdown |

The components call each other directly: `spawn` makes an address space, a
process record, the user state of the process (heap, descriptors, console) and a
thread; `exit` wakes joiners and reparents; `wait_process` joins the main thread
and destroys the address space; the timer interrupt wakes sleepers and futex
waiters and blinks cursors; init drives the process calls from user space and
learns of power requests through a mailbox it polls.

## 2. Modules

| Module | Models | Abstracts |
|---|---|---|
| `Threads` | thread table, run queue, process table and every call on them | registers and stacks (in `UserContexts`), page tables (a root is a number) |
| `Kernel` | `Threads` with sleep, futex and interrupts; its properties | time (ticks left; a delay is given in milliseconds and rounded as in the code), futex words (the value comparison is made in the caller's step) |
| `UserContexts` | `Kernel` composed with registers, FS base, interrupt stack, kernel and user stacks | registers are those of the entry point or of a later one; a stack is none, part or mapped |
| `Paging` | page arithmetic that the memory modules share | |
| `FrameAllocator` | `BitmapFrameAllocator` with its arithmetic; page size and address width are parameters | the contents of frames |
| `FramePool` | abstract specification: a pool of frames | |
| `AddressSpace` | address spaces, their frames and contents, heap | the shape of the page table: a page needs a chain of `Levels` tables that nearby pages share |
| `ElfLoader` | `load_user_elf_into()` header by header, stack and TLS block | a byte of the file is its position; frames do not run out (they do in `AddressSpace`) |
| `Startup` | argv from the spawning program to the stack of the new one | a string is which one it is and its length |
| `Ring`, `RingCapacity`, `ByteQueue` | the ring buffer, and the queue it implements | |
| `Pty` | ptys, master and slave calls, console bindings | a ring is a sequence (justified by `Ring`), a byte is the session it was written in |
| `Console` | terminals, cursors, blitting, switching, keys | pixels: a cell holds a glyph or an underscore or neither |
| `Sata` | the AHCI driver and, as external, the controller and disk beside it | data is named by the command that reads it |
| `VirtioRandom` | `fill()` and, as external, the virtio entropy device | a byte is named by the answer it came in |
| `Files`, `FileStore` | descriptors, paths, boot and RAM files, and the store they implement | paths are sequences of parts; boot files have no contents |
| `StartOrder` | `start_order()`, one action per loop iteration | |
| `Supervisor` | PID 1 from start to power-off | the kernel is a process table; services have a kind, policy and dependencies |
| `MC*` | instances for TLC | |
| `KernelProofs`, `ProcessProofs`, `MemoryProofs`, `FileProofs`, `DeviceProofs`, `StartOrderProofs`, `SupervisorProofs` | theorems (section 4) | |
| `LoopLemmas` | lemmas on least elements, induction and folds | |

Points where the correspondence needs a word:

* *Blocking calls.* `parked[t]` is the place in the kernel where thread `t` is
  blocked; `JoinReturn`, `WaitReturn` and `SleepReturn` are the code after
  `block_current()` and run when the thread is dispatched. They re-read the
  tables as the code does.
* *The idle thread* is slot 0; `IdleYield` is one round of its loop. It is
  enqueued once, at the start, and never again: the scheduler falls back to it.
* *Several wakeups in one step* are enqueued in the order of the table they come
  from (`WakeOrders`).
* *`Syscalls`* is the set of calls programs use in an instance. It is a
  parameter of the model and never changes what a call does.
* *Spawning that fails* keeps what was done up to the failing step, as the code
  does: a record without a thread (`ProcessSpawnFails`, state `"stuck"` in
  `Supervisor`), frames (`AddressSpace!Spawn`).
* *`spawnMayFail`* in `Supervisor` and *`MULTI_TTY_ENABLED`* in `Console` are
  chosen at the start and stay: an ample or scarce machine, a small or a large
  screen.
* *Devices* are processes of their own: a driver's step is what it does between
  two accesses to memory or registers that the device also uses, so the device
  can act before and after a timeout. They are modelled as far as the driver can
  tell, and may be late, short, in error or gone.
* *User and kernel.* A step of `UserContexts` is a step of `Kernel` with what the
  system call stub saves before it and restores after it, for whichever thread
  runs then (`SaveAndResume`), or a step that creates a thread
  (`SaveAndCreate`).
* *`part`* in `MCMemory` and `MCDevices`: these instances hold components without
  common state. Each behaviour runs one of them.
* *`failed`, `session`, `abandoned`, `timedOut`, `handedOut`* are history variables: no action reads them except to
  bound itself. So is the field `owed` of a sleeper, the part of its delay in
  milliseconds that no tick has accounted for yet.
* *A stack that fails half way.* What `allocate_kernel_stack` or
  `allocate_user_stack` had mapped stays: `kernel_stack[t] = "part"`, and
  `partStacks` for user stacks. Either makes a later allocation of the same
  stack in the same space fail.

## 3. What is checked

| Run | Instance | Result |
|---|---|---|
| `kernel_threads` | 4 thread slots, 2 sleepers, 2 futex waiters on 2 addresses, delays up to 3 ms where a tick is 2 ms | 17 k states |
| `kernel_processes` | 5 thread slots, 4 processes, 5 roots, failing spawns | 68 k states |
| `kernel_terminate` | `UserContexts`: 4 thread slots, 3 processes that create threads and processes, sleep, wait for and terminate each other | 597 k states |
| `user_stacks` | `UserContexts`: the same sizes, PID 1 creates and asks with `try_wait`, kernel and user stacks fail half way | 1.6 M states |
| `memory` | boot maps with overlapping, unaligned, empty and overflowing ranges; 2 processes with 3 heap pages each on 18 frames; ELF files of 2 headers; up to 4 arguments where 3 fit | 355 k states |
| `devices` | a ring of 3 bytes; 2 ptys with 2 sessions each; 2 terminals of 2 by 2 cells; a disk; an entropy device | 304 k states |
| `files` | 2 processes with a descriptor each, 2 RAM files of 2 bytes, a boot file or none | 147 k states |
| `start_order` | all dependency tables of 3 services and a missing name | 23 k states |
| `supervisor` | a oneshot and 2 daemons, 3 pids, 3 attempts | 50 k states |
| `brk_grow` | the address spaces of `memory` | violation |
| `elf_tls` | the ELF files of `memory` | violation |
| `thread_stacks` | `user_stacks` where every process creates threads | violation |

The properties, by the question they answer:

* **Can a thread be woken for the wrong thing, or never?** `NoLostWakeup`: a
  Blocked thread is named by what will wake it. `JoinTargetsKept`: the slot a
  joiner will read is not reused before it has. `RunQueueExact` and
  `WaitTablesExact`: queue, tables and waiter counts hold what they
  should and nothing more, so no slot leaks and `enqueue()` never finds the
  queue full. `SleepsFullTime`: a sleep is over with the tick that completes the
  milliseconds asked for, no tick earlier (rounding down would make 3 ms of 2 ms
  ticks end after one) and none later. `SleepsEnd` and `ReadyRuns`: sleeps do end, and Ready
  threads do run.
* **Does a thread find what it left?** `RunsOwnContext`: its registers, FS base
  and interrupt stack, on both ways back to user mode. `StacksMapped`: its stacks
  are mapped, in its own address space.
* **Who is responsible for a process?** `NoOrphans`, `NoZombies`,
  `ReapsOnlyExited`, `OwnAddressSpace`.
* **Is memory isolated?** `OnlySafeFrames`, `FreeFramesExact`, `ImplementsPool`
  for the allocator; `FramesNotShared`, `NoForeignData`, `BreakIsMapped`,
  `NothingLeaks` for what is built on it.
* **Does a program start as it should?** `LoadedExactly`: every byte of its
  memory is the byte of the file its headers say, or zero, and nothing outside its
  segments is there. `ArgumentsDelivered`: its arguments and environment.
* **Do terminals and files keep data apart and in order?** `ImplementsQueue`,
  `FreshSession`; `ImplementsStore`; `LookupsStable`: descriptors hold paths that
  are looked up in every call, and directories are read by index, so both must
  lead to the same file whatever is created meanwhile; `ScreenShowsActive`,
  `NoTrails`.
* **What does a late device do?** `ReadsWhatItAsked` (SATA): a read returns its
  own sector unless some command was abandoned before. `OnlyRandomBytes`: nothing
  but random bytes are handed out as random; `FreshUnlessTimedOut`: never twice,
  unless a request timed out.
* **Does init do its job?** `DependenciesFirst`, `Terminates`
  for the order; `TrackedExactly`, `DependentsWait`, `AllStopped`,
  `StopsDependentsFirst`, `RequestsServed`, `AlwaysRestarted` for the rest.

**Bounds.** Tables have two to four entries in place of 8 to 32: enough for a
full table, for one entry to be freed and reused while two others still refer
to it, and for a third party to interfere. Sizes (rings, files, screens, pages)
are the smallest with a wrap-around, a hole, a last line and a last column.
Counters are bounded by parameters named in the modules (`MaxSessions`,
`MaxDelay`, in milliseconds, `MaxPosition`, `MaxText`, `MaxHeaders`, `MaxPassed`, `MaxRequests`).
`MsPerTick` is 2 where delays matter, in place of 10: delays of 1 to 3 ms are then
below, equal to and between multiples of a tick.
`TlsSetters` and `Creators` restrict which slots' programs set an FS base and which
processes create threads; one thread that sets it and others that do not are
enough to tell a base that leaks. `Flags` has a writable and an executable kind of
segment; the other two kinds differ in nothing the loader looks at. Two program headers are enough for segments
that share a page, and for a segment with TLS; `MaxRequests` lets an answer be late by
more than one request and the ring index wrap around.

**Fairness.** `LiveSpec` assumes that kernel code with interrupts masked runs to
its end (weak fairness of `KernelStep`), and that a timer interrupt raised while
they are masked stays pending (strong fairness of `Tick`). `SleepsEnd` needs no
more. `ReadyRuns` also needs programs that enter the scheduler again and again,
which it states as its premise because the kernel does not preempt.
`Supervisor` assumes that init runs when it can, which these two provide, and
that a oneshot it waits for ends: init waits for it without a bound.
`StartOrder` is a loop that runs. Nothing else assumes fairness.

**Deadlock** is checked, except where something ends: the machine is off
(`supervisor`), `start_order()` has returned, or a memory map has no frame to
hand out, so that no call of the allocator does anything (`Stop` in `MCMemory`).
A process that has started is the end of `Startup` and of `ElfLoader`.

**Mutations.** Each property of each passing run has a mutation, a changed copy
of one action or helper that stands for a plausible bug (a dropped guard, a
forgotten reset), under which TLC finds the property violated.

## 4. What is proved

Each theorem holds for every value of the constants under the named assumptions
of the modules it is about (`ThreadsAssumption`, `KernelAssumption`,
`UserContextsAssumption`, `FrameAllocatorAssumption`, `PagingAssumption`,
`AddressSpaceAssumption`, `ElfLoaderAssumption`, `StartupAssumption`,
`RingAssumption`, `PtyAssumption`, `ConsoleAssumption`, `SataAssumption`,
`VirtioRandomAssumption`, `FilesAssumption`, `StartOrderAssumption`,
`SupervisorAssumption`). They ask
for tables with room for the idle thread and one user thread, sizes and
capacities above zero, constants of the kernel's layout that are page-aligned and
the like. `StartupAssumption` asks for a stack with room for the longest path,
four full buffers and the vector: 312 bytes at most, of the four pages the kernel
maps. `SupervisorAssumption` asks for a start order of the kind
`OrderRespectsDependencies` proves of `start_order()` when nothing is missing or
cyclic. TLC evaluates every assumption in the runs.

| Module | Theorem | Property | Inductive invariant or argument |
|---|---|---|---|
| `KernelProofs` | `TypeCorrect` | `TypeOK` | one step per action; the queue's bound comes from `Enqueue`, which drops what does not fit |
| | `JoinTargetsSafe` | `JoinTargetsKept` | `JoinInv` |
| | `NoWakeupIsLost` | `NoLostWakeup` | `WakeupInv` |
| | `QueueStaysExact` | `RunQueueExact` (1) | `QueueInv` |
| | `TablesStayExact` | `WaitTablesExact` (1) | `WaitInv`: `QueueInv` and `TablesInv` |
| | `SleepIsNotCutShort` | `SleepsFullTime` (1) | an action property, from `WaitInv` and `DelaysCovered` |
| `ProcessProofs` | `RunsInOwnSpace` | `OwnAddressSpace` (2) | `ProcessInv`: `Ownership` and `ActiveSpace` |
| | `NobodyIsOrphaned` | `NoOrphans` (2) | `ProcessInv` |
| | `NoZombieRemains` | `NoZombies` (2) | `ProcessInv` |
| | `OnlyExitedAreReaped` | `ReapsOnlyExited` (2) | an action property, from `ProcessInv` |
| | `ContextsImplementKernel` | `UserSpec => Spec` | every step of `UserContexts` is one of `Kernel` or leaves it alone |
| | `ProgramsRunOwnContext` | `RunsOwnContext` | `ContextInv` |
| | `StacksStayMapped` | `StacksMapped` (3) | `StackInv` |
| `MemoryProofs` | `FreeCountCorrect` | `FreeFramesExact` | cardinalities of sets that gain or lose one frame |
| | `HandsOutSafeFrames` | `OnlySafeFrames` | `PoolInv`: what is or was free was free after `initialize()`; rounding lemmas |
| | `AllocatorImplementsPool` | `ImplementsPool` | `Allocate` is a `Take`, `Free` a `Give` or a stutter |
| | `NoFrameIsShared`, `NothingForeignIsSeen`, `ReapingReturnsAll` | `FramesNotShared`, `NoForeignData`, `NothingLeaks` | `FramesInv` |
| | `BytesBelowBreakAreMapped` | `BreakIsMapped` | `HeapInv` |
| | `ImageIsLoadedExactly` | `LoadedExactly` | `ElfInv` |
| | `InitDeliversArguments` | `ArgumentsDelivered` (4) | `StartupInv` |
| `FileProofs` | `FilesImplementStore` | `ImplementsStore` | `FilesInv`; every step leaves the table alone, is `Created` or is `Written` |
| | `LookupsStay` | `LookupsStable` | an action property, from `FilesInv` and `PathsLead` |
| `DeviceProofs` | `RingImplementsQueue` | `ImplementsQueue` | lemmas on `(head + i) % capacity` |
| | `SessionsAreFresh` | `FreshSession` | `PtyInv` |
| | `ReadsAreExpected` | `ReadsWhatItAsked` | `SataInv` |
| | `RandomBytesOnly`, `FreshBytes` | `OnlyRandomBytes`, `FreshUnlessTimedOut` | `RandomInv` |
| | `ScreenIsActiveTerminal`, `CursorLeavesNoTrails` | `ScreenShowsActive`, `NoTrails` | `ConsoleInv` |
| `StartOrderProofs` | `OrderRespectsDependencies` | `DependenciesFirst` | `OrderInv` |
| `SupervisorProofs` | `ServicesAreTracked`, `DependentsWaitForOneshots`, `NoServiceOutlivesShutdown`, `DependentsStopFirst` | `TrackedExactly`, `DependentsWait`, `AllStopped`, `StopsDependentsFirst` | `SupervisorInv` |

(1) For programs without `terminate_process()`, `"terminate" \notin Syscalls`.
(2) For programs that also create no second thread and do not join threads
(`OnlyProcessCalls`): with one thread to a process, process calls are all there
is to wait with.
(3) For programs of which only PID 1's create threads and processes, without
`terminate_process()` and with either `thread_create` or the blocking
`wait_process()`, not both (`OneCreator`).
(4) For `Callers \subseteq {"init"}`: init's list of pointers ends, the shell's does
not (section 5). These are the conditions of the runs that check the properties;
section 5 says what happens without them. The other theorems hold whatever
programs call.

None of the properties is inductive. What has to be added:

* **`JoinInv`.** A slot becomes reapable when its waiter count reaches zero, and
  nothing in `JoinTargetsKept` connects that count with the threads parked on the
  slot. `JoinInv` does: the count is at least the number of parked threads (more
  after a termination, which leaks counts), a reapable slot is exited with
  count zero, and no thread waits for itself.
* **`WakeupInv`.** The running thread is not Blocked, so that the call that blocks
  it is the one that has just entered it in a table. With `JoinInv` a recycled
  slot has no waiters that its new tenant could lose.
* **`QueueInv`, `TablesInv`.** The queue is a list of the Ready threads without
  repetitions, hence never longer than there are threads. Every entry of
  `SLEEPERS` and `FUTEX_WAITERS` is that of a Blocked thread parked there; the
  registrations of a slot are as many as the threads that have still to collect
  it; a joiner that is not Blocked has a target that has exited, and exited
  threads are parked nowhere. `TablesInv` needs `QueueInv`: only a Ready thread
  is dispatched, so nobody leaves a wait that a table still names.
* **`DelaysCovered`.** Ticks and milliseconds of an entry agree: what is owed fits
  into the ticks left and not into one less. `TicksCover` shows it of the rounding
  in `Ticks`, and each tick takes one from one side and `MsPerTick` from the other.
* **`ProcessInv`.** `Ownership`: each slot that is not free belongs to one
  recorded process that names it as its main thread, slot 1 to PID 1; roots are
  not shared; a thread in `wait_process()` waits for a child that is still its
  own. Then what the call finds after it has blocked is what it looked for before.
  `ActiveSpace`: CR3 holds the space of the current thread's process also while
  that thread is inside a system call, where `OwnAddressSpace` says nothing.
* **`ContextInv`.** For each thread that is not in user mode, what is saved is
  what its program expects, in whichever of the two places it will be restored
  from.
* **`StackInv`.** A stack is found through the process of its thread, so the
  stacks need `RecordsInv` first: PID 1 keeps its space and no other process has
  it; a thread that has not exited is of PID 1 or the recorded main thread of its
  process; only PID 1 reaps, and what a thread in `wait_process()` will release is
  still the process it looked up. `CreatorSpace`: PID 1's space is active whenever
  a thread of PID 1 runs, hence what `release_user_stack()` unmaps is in that
  space, and it is of a free slot. `UserStacks`: each process with a main thread
  has the stack of its number in its own space, whatever its thread does;
  only threads of PID 1 own the stack of their slot.
* **`FramesInv`.** `FramesApart` says it frame by frame: a frame is not free and
  in use, not in two places of one space, and not used by two spaces (it may be
  lost by a failure, and then it is in none). It has to be carried together with
  `NoForeignData` and `NothingLeaks`: who may see a frame depends on who owns
  it. The steps are loops of `map_page_in()` over levels and pages, and the
  invariant is shown for every iteration.
* **`HeapInv`.** The break is at most `heap_mapped_end`, which is a whole number of
  pages, all of them mapped. The converse does not hold (section 5): a growth
  that fails keeps its pages, and a break that is lowered and raised leaves
  mapped pages above `heap_mapped_end`.
* **`ElfInv`.** The memory is that of the headers looked at so far, and no
  segment, stack page or TLS block overlaps another: `AlreadyMapped` is
  what keeps them apart.
* **`StartupInv`.** What is where at each stage of the call: after init's part a
  buffer for each argument and a list of pointers that ends; after
  `syscall_process_spawn()` copies of the same length, none refused; then each
  string with its NUL at the place `Starts` gives it. The loop of
  `initialize_process_stack()` puts string `k` directly below string `k + 1`
  (`StartsFacts`), hence they do not overlap (`StartsApart`, by induction on the
  distance) and a byte is covered once (`CoveredOnce`). `RoomLeft` bounds how far
  down the loop gets; below it the aligned vector fits, and a byte at
  `WORD * i + b` of it is in word `i`.
* **`FilesInv`.** A file reads as the store says only because every byte beyond its
  length is zero, and in free slots every byte: neither `create()` nor `write_at()`
  clears anything, so that a hole shows what was there before. Names are unique,
  which makes `find_ram_file()` a function of the name; and slots are used in
  order without a gap, so that the index-th file of a listing is that of slot
  index (`ListingFacts`). `PathsLead`: every path in a descriptor leads to a file.
  Boot files never change and come first in the lookup, RAM files stay in their
  slots, hence creating a file changes no lookup that succeeds (`LookupStays`).
* **`SataInv`, `RandomInv`.** Whose command is in the table, whose data is in the
  buffer, and which of them the driver has given up; for the random
  driver, that no length in the used ring exceeds what the device has written,
  and that as long as nothing has timed out the indices of driver and
  device differ by at most the one request in flight.
* **`ConsoleInv`.** Every terminal is `Tidy`: underscores are at the cursor, when
  it is visible, and possibly at the home cell, where a full screen restarts.
* **`OrderInv`.** `started` is what `order` holds, and the services of the current
  pass that were passed over still have something unresolved, or there has been
  progress.
* **`SupervisorInv`.** The process init waits for is the oneshot at its place in
  the order; each process of a service is known to init as that service's;
  and how far start and shutdown have come.

`LoopLemmas` has what these proofs share: `Min` and `Max` of sets of numbers,
and induction. The library's induction theorems take an operator as a
parameter and cannot be used here. `LoopInduction` replaces them by the
least counterexample, for a set of numbers in place of a predicate, and
`FoldExists` by a function in place of an operator: together they show that the
`CHOOSE` in the fold of the community modules has a witness, and that the fold
stays in every set its steps stay in. This is how the loops of `AddressSpace`,
`Console` and `StartOrder` are proved for every length; for the recursive function
in `Starts` the proof builds the witness from the top down.

Only model-checked are `SleepsEnd`, `ReadyRuns`, `Terminates`, `RequestsServed` and
`AlwaysRestarted`: liveness, which TLAPS does not reach. Every invariant and every
action property of the passing runs, and every refinement, is proved.

## 5. Known deviations

Three runs are expected to fail, and show that the code differs from its
comments:

* `brk_grow` (`GrowsAgain`): a break that is shrunk and then grown a little
  lowers `heap_mapped_end` below what is mapped (`user.rs:511`). The next growth
  meets a page that is mapped, fails, and loses a frame.
* `elf_tls` (`TlsWhereLinked`): the TLS block is rounded up to 16 bytes where the
  linker rounds to the segment's own alignment (`elf.rs:195`), so that variables
  are not where the program looks for them.
* `thread_stacks` (`StacksMapped`): `thread_create` of a process other than PID 1
  makes a thread of PID 1 (`threads.rs:327`) whose stack is mapped in the space of
  the caller.

The following are behaviours of the models as well, and the properties above are
stated so that they do not claim the opposite:

* `terminate_process` does not reparent the children of the terminated process
  (`threads.rs:572-601`; compare the comment at 468-471). `NoOrphans` is checked
  for programs that do not use it.
* A process terminated while it waits stays counted as a waiter, and its
  target's slot is never free again. `NoZombies` likewise.
* The run-queue, sleeper and futex entries of a terminated thread survive the
  reuse of its slot, and make the new tenant run early. `kernel_terminate` checks
  what holds in spite of them. What does not hold is that every Ready thread is
  in the queue: each round of spawning, terminating and reaping a process leaves
  one more entry of the same slot behind, until the queue is full and `enqueue()`
  drops a thread that has just been created (`threads.rs:797`). With four slots
  it takes two such rounds and two more threads: the queue is then
  `<<0, 2, 2, 2>>`, and thread 3 is Ready and nowhere. `RunQueueExact` shows that
  this takes `terminate_process`.
* The deadline of a sleep is counted from the last tick (`arch.rs:564`), so the
  tick in progress counts as a whole one. By the clock a sleep may be up to one
  tick, 10 ms, shorter than asked for. `SleepsFullTime` counts ticks. The
  saturation of the rounding at delays near 2^64 ms is left out.
* Two threads of PID 1 that wait for one child: the second looks the pid up
  again after it was reaped and may release a new process (`threads.rs:279`).
  `ReapsOnlyExited` is checked for processes of one thread. The proof of
  `StacksStayMapped` shows what else it does: the record goes under a thread
  that runs, and a spawn that fails then makes a record without a stack for the
  same pid, so `StacksMapped` fails too. It takes five slots, `thread_create`,
  `wait` and a failing spawn; the theorem and the run exclude the combination.
* A thread-level `join` on the main thread of a process frees its slot while the
  process record still names it. The process properties are checked for programs
  that wait for processes as processes.
* The ptys of a process stay open under its pid when it ends, for the next
  process with that pid; slaves stay bound to an id across `close` and `open`
  (`pty.rs:67`, `pty.rs:151`).
* A key that was typed before Alt+Fn and not read stays with the terminal that is
  now in the background (`console.rs:313`; compare the comment at 266-268).
* When the spawn that restarts a `Restart::Always` service fails, init drops the
  service (`init/src/main.rs:171`).
* `open` with `OPEN_CREATE` and no free descriptor fails and leaves the file;
  "/x" opens the RAM file of "/tmp/x" when there is no boot file `x`.
* `release_user_stack` unmaps in the active space (`paging.rs:235`). The thread
  slots and the pids share stack numbers there, so that with creators other than PID 1 it can
  unmap the main stack of the caller.
* `allocate_kernel_stack` that fails half way leaves pages mapped
  (`paging.rs:194`). Every later spawn picks the same slot, fails with
  `AlreadyMapped`, and loses a frame.
* `allocate_user_stack` that fails half way leaves pages mapped as well
  (`paging.rs:226-231`), and the slot does not own them, so nothing unmaps them: a
  thread can no longer be created in that slot from that space, though a process
  can.
* `initialize_controller` gives up at the first port with a disk when frames run out
  or the port does not stop, although another might do, and keeps the frames it
  has taken (`sata.rs:193-201`). `Sata` has the first; it does not count frames.
* After a SATA command has timed out, a later read may succeed with the data of
  the abandoned command or with zeros, and after an error the port is not
  restarted (`sata.rs:223-261`). `ReadsWhatItAsked` allows exactly that.
* After a timeout the random driver is one answer behind for good, and may copy a
  buffer it has handed out before (`random.rs:107-121`).
* The shell's `spawn_process` passes an array of one pointer without a
  terminator (`user-program/src/syscall.rs:99-112`); the kernel reads up to three
  words beyond it. `Startup` with `Callers = {"shell"}` violates
  `ArgumentsDelivered`; the run uses init's.
* `initialize_process_stack` leaves the stack pointer at 0 modulo 16 when the
  number of arguments is even, although its comment says 8 (`user.rs:569-570`).
  `_start` of openkernel-rt aligns it again.
* `close_pty` of the shell takes 0 for success where the kernel returns 1.

## 6. Not modelled

Boot adapters and bootstrap (they run once and pass on the memory map, which is
an input of `FrameAllocator`), GDT, IDT and PIC set-up,
exceptions (any of them halts the machine), serial output, PCI, xHCI and mouse
probing, font and banner drawing, the shell's commands, the C runtime, and
`scheduler.rs`, which is not compiled. `futex` words belong to no process in
`Kernel`: addresses are global, as the table's keys are in the code.

## 7. Plan

Done: scheduler and processes; frames; ring and ptys; init; address spaces;
files; console; stacks and contexts; ELF loader; arguments; SATA and random
drivers; proofs of all invariants, action properties and refinements the runs
check. What is left:

1. Futex words by process, composed with address spaces.
2. The shell's line editor and the pty demo, as clients of `Pty` and `Console`.
