----------------------------- MODULE Supervisor -----------------------------
(***************************************************************************)
(* PID 1 (init/src/main.rs): it starts the services, reaps and restarts    *)
(* them, and stops them when a process has asked for a shutdown or reboot. *)
(*                                                                         *)
(* The kernel below it is the process table alone: what init's system      *)
(* calls do to it, and what other processes may do meanwhile.  The kernel  *)
(* is cooperative, so another process runs only while init is blocked in   *)
(* wait_process() or sleep_ms(); between those, init's steps are its own.  *)
(***************************************************************************)
EXTENDS Integers, Sequences, SequencesExt, FiniteSetsExt

CONSTANTS
  Order,         \* what start_order() returned
  kind,          \* Service.kind: "Oneshot" or "Daemon"
  restart,       \* Service.restart: "Never", "OnFailure" or "Always"
  depends_on,    \* Service.depends_on
  Pids,          \* the pids the kernel gives to processes other than init
  MAX_ATTEMPTS

Services == Range(Order)
Init1 == 1       \* PID 1
NoPid == 0
NoService == "none"
Exits == {"ok", "failed"}      \* exit status zero or not

\* Module StartOrder establishes what is assumed of the order.
ASSUME SupervisorAssumption ==
  /\ Order \in Seq(Services) /\ IsInjective(Order) /\ NoService \notin Services
  /\ kind \in [Services -> {"Oneshot", "Daemon"}]
  /\ restart \in [Services -> {"Never", "OnFailure", "Always"}]
  /\ depends_on \in [Services -> SUBSET Services]
  /\ \A i, j \in DOMAIN Order : Order[j] \in depends_on[Order[i]] => j < i
  /\ Pids \subseteq Nat \ {NoPid, Init1}
  /\ MAX_ATTEMPTS \in Nat \ {0}

VARIABLES
  proc,          \* the process table
  running,       \* init's `running': the pid of each service, or NoPid
  pc,            \* where init is
  next,          \* position in the order start_service() or shutdown_sequence() is at
  attempt,       \* of run_oneshot()
  waited,        \* pid run_oneshot() waits for
  POWER_EVENT,   \* the kernel's mailbox
  event,         \* what init has read from it
  spawnMayFail   \* whether spawning can fail with room in the table; fixed

vars == <<proc, running, pc, next, attempt, waited, POWER_EVENT, event, spawnMayFail>>

Events == {"shutdown", "reboot"}

\* The state of a record is "free", "running", "exited" or "stuck": made by a
\* spawn that failed afterwards, and without a thread.
FREE == [state |-> "free", parent |-> NoPid, service |-> NoService, status |-> "ok"]

Init ==
  /\ proc = [p \in Pids |-> FREE]
  /\ running = [s \in Services |-> NoPid]
  /\ pc = "start" /\ next = 1 /\ attempt = 1 /\ waited = NoPid
  /\ POWER_EVENT = "none" /\ event = "none"
  /\ spawnMayFail \in BOOLEAN

-----------------------------------------------------------------------------
(***************************************************************************)
(* The system calls on a process table.                                    *)
(***************************************************************************)

FreeIn(table) == {p \in Pids : table[p].state = "free"}

Record(st, parent, s) == [state |-> st, parent |-> parent, service |-> s, status |-> "ok"]

\* What user::spawn() may do: the new table and the pid it returns.
Spawned(table, parent, s) ==
  LET free == FreeIn(table)
      made(st) == [table EXCEPT ![Min(free)] = Record(st, parent, s)]
      failed == [table |-> table, pid |-> NoPid]
  IN IF free = {} THEN {failed}
     ELSE {[table |-> made("running"), pid |-> Min(free)]}
          \cup (IF spawnMayFail
                THEN {failed, [table |-> made("stuck"), pid |-> NoPid]} ELSE {})

Children(p) == {q \in Pids : proc[q].parent = p /\ proc[q].state # "free"}
ExitedChildren(p) == {q \in Children(p) : proc[q].state = "exited"}

-----------------------------------------------------------------------------
(***************************************************************************)
(* Other processes, while init is blocked.                                 *)
(***************************************************************************)

Runs(p) == pc \in {"wait", "sleep"} /\ proc[p].state = "running"

ProcessSpawns(p) ==
  /\ Runs(p)
  /\ \E r \in Spawned(proc, p, NoService) : proc' = r.table
  /\ UNCHANGED <<running, pc, next, attempt, waited, POWER_EVENT, event, spawnMayFail>>

\* exit: the children, exited ones included, become init's.
ProcessExits(p, status) ==
  /\ Runs(p)
  /\ proc' = [q \in Pids |->
                IF q = p THEN [proc[p] EXCEPT !.state = "exited", !.status = status]
                ELSE IF q \in Children(p) THEN [proc[q] EXCEPT !.parent = Init1]
                ELSE proc[q]]
  /\ UNCHANGED <<running, pc, next, attempt, waited, POWER_EVENT, event, spawnMayFail>>

ProcessReaps(p) ==
  /\ Runs(p)
  /\ \E q \in ExitedChildren(p) : proc' = [proc EXCEPT ![q] = FREE]
  /\ UNCHANGED <<running, pc, next, attempt, waited, POWER_EVENT, event, spawnMayFail>>

\* terminate_process(): the children of the terminated process stay its own.
ProcessTerminates(p) ==
  /\ Runs(p)
  /\ \E q \in Children(p) :
       /\ proc[q].state = "running"
       /\ proc' = [proc EXCEPT ![q].state = "exited", ![q].status = "failed"]
  /\ UNCHANGED <<running, pc, next, attempt, waited, POWER_EVENT, event, spawnMayFail>>

\* syscall_request_power_event(): a later request replaces one that init has
\* not read yet.
RequestPowerEvent(p, e) ==
  /\ Runs(p)
  /\ POWER_EVENT' = e
  /\ UNCHANGED <<proc, running, pc, next, attempt, waited, event, spawnMayFail>>

-----------------------------------------------------------------------------
(***************************************************************************)
(* Starting the services.                                                  *)
(***************************************************************************)

\* Mutation: run_oneshot() does not wait.
RunOneshot_NoWait ==
  /\ pc = "start" /\ next <= Len(Order)
  /\ kind[Order[next]] = "Oneshot"
  /\ \E r \in Spawned(proc, Init1, Order[next]) :
       proc' = r.table /\ next' = next + 1 /\ UNCHANGED <<pc, waited, attempt>>
  /\ UNCHANGED <<running, POWER_EVENT, event, spawnMayFail>>

\* An attempt of run_oneshot() up to its wait_process().
RunOneshot ==
  /\ pc = "start" /\ next <= Len(Order)
  /\ kind[Order[next]] = "Oneshot"
  /\ \E r \in Spawned(proc, Init1, Order[next]) :
       /\ proc' = r.table
       /\ IF r.pid = NoPid
          THEN next' = next + 1 /\ attempt' = 1 /\ UNCHANGED <<pc, waited>>
          ELSE pc' = "wait" /\ waited' = r.pid /\ UNCHANGED <<next, attempt>>
  /\ UNCHANGED <<running, POWER_EVENT, event, spawnMayFail>>

\* run_oneshot()'s `retry'
Retry(s, status) ==
  /\ status = "failed"
  /\ restart[s] \in {"OnFailure", "Always"}
  /\ attempt < MAX_ATTEMPTS

\* The rest of the attempt, after wait_process() has reaped the oneshot.
OneshotFinished ==
  /\ pc = "wait" /\ proc[waited].state = "exited"
  /\ pc' = "start"
  /\ IF Retry(Order[next], proc[waited].status)
     THEN attempt' = attempt + 1 /\ next' = next
     ELSE attempt' = 1 /\ next' = next + 1
  /\ proc' = [proc EXCEPT ![waited] = FREE]
  /\ waited' = NoPid
  /\ UNCHANGED <<running, POWER_EVENT, event, spawnMayFail>>

\* start_daemon() from main()
StartDaemon ==
  /\ pc = "start" /\ next <= Len(Order)
  /\ kind[Order[next]] = "Daemon"
  /\ \E r \in Spawned(proc, Init1, Order[next]) :
       /\ proc' = r.table
       /\ running' = [running EXCEPT ![Order[next]] = r.pid]
  /\ next' = next + 1
  /\ UNCHANGED <<pc, attempt, waited, POWER_EVENT, event, spawnMayFail>>

EnterSupervise ==
  /\ pc = "start" /\ next = Len(Order) + 1
  /\ pc' = "poll"
  /\ UNCHANGED <<proc, running, next, attempt, waited, POWER_EVENT, event, spawnMayFail>>

-----------------------------------------------------------------------------
(***************************************************************************)
(* supervise()                                                             *)
(***************************************************************************)

\* Mutation: a request is lost when a child has exited meanwhile.
Poll_ReapsFirst ==
  /\ pc = "poll"
  /\ event' = POWER_EVENT /\ POWER_EVENT' = "none"
  /\ IF POWER_EVENT = "none" \/ ExitedChildren(Init1) # {}
     THEN pc' = "reap" /\ next' = next
     ELSE pc' = "stop" /\ next' = 1
  /\ UNCHANGED <<proc, running, attempt, waited, spawnMayFail>>

\* poll_power_event() reads and clears the mailbox.
Poll ==
  /\ pc = "poll"
  /\ event' = POWER_EVENT /\ POWER_EVENT' = "none"
  /\ IF POWER_EVENT = "none"
     THEN pc' = "reap" /\ next' = next
     ELSE pc' = "stop" /\ next' = 1
  /\ UNCHANGED <<proc, running, attempt, waited, spawnMayFail>>

\* Mutation: Always is treated like OnFailure.
Restarts_OnFailure(s, status) == restart[s] # "Never" /\ status = "failed"

Restarts(s, status) ==
  restart[s] = "Always" \/ (restart[s] = "OnFailure" /\ status = "failed")

\* Mutations: the entry of a service that is not restarted stays; the pid of
\* a service that is restarted is not recorded.
Reaped_KeepsEntry(table, s, status) ==
  IF Restarts(s, status)
  THEN {[table |-> r.table, running |-> [running EXCEPT ![s] = r.pid]] :
          r \in Spawned(table, Init1, s)}
  ELSE {[table |-> table, running |-> running]}
Reaped_Untracked(table, s, status) ==
  IF Restarts(s, status)
  THEN {[table |-> r.table, running |-> [running EXCEPT ![s] = NoPid]] :
          r \in Spawned(table, Init1, s)}
  ELSE {[table |-> table, running |-> [running EXCEPT ![s] = NoPid]]}

\* reap() of service s: the outcomes for the process table and `running'.
\* Only daemons are in `running', so start_service() is start_daemon().
Reaped(table, s, status) ==
  IF Restarts(s, status)
  THEN {[table |-> r.table, running |-> [running EXCEPT ![s] = r.pid]] :
          r \in Spawned(table, Init1, s)}
  ELSE {[table |-> table, running |-> [running EXCEPT ![s] = NoPid]]}

\* An iteration of the reap_any_child() loop.
Reap ==
  /\ pc = "reap"
  /\ ExitedChildren(Init1) # {}
  /\ LET p == Min(ExitedChildren(Init1))
         table == [proc EXCEPT ![p] = FREE]
         named == {s \in Services : running[s] = p}
     IN IF named = {}
        THEN proc' = table /\ running' = running
        ELSE \E s \in named : \E r \in Reaped(table, s, proc[p].status) :
               proc' = r.table /\ running' = r.running
  /\ UNCHANGED <<pc, next, attempt, waited, POWER_EVENT, event, spawnMayFail>>

Sleep ==
  /\ pc = "reap" /\ ExitedChildren(Init1) = {}
  /\ pc' = "sleep"
  /\ UNCHANGED <<proc, running, next, attempt, waited, POWER_EVENT, event, spawnMayFail>>

Wake ==
  /\ pc = "sleep"
  /\ pc' = "poll"
  /\ UNCHANGED <<proc, running, next, attempt, waited, POWER_EVENT, event, spawnMayFail>>

-----------------------------------------------------------------------------
(***************************************************************************)
(* shutdown_sequence()                                                     *)
(***************************************************************************)

\* Mutation: the services are stopped in the order they were started in.
StopOrder_Forward == Order

StopOrder == Reverse(Order)

\* terminate_process() and wait_process() of the next service.  The service
\* has exited by then, so the wait does not block.
Stop ==
  /\ pc = "stop" /\ next <= Len(Order)
  /\ LET s == StopOrder[next]
     IN /\ running' = [running EXCEPT ![s] = NoPid]
        /\ proc' = IF running[s] \in Children(Init1)
                   THEN [proc EXCEPT ![running[s]] = FREE] ELSE proc
  /\ next' = next + 1
  /\ UNCHANGED <<pc, attempt, waited, POWER_EVENT, event, spawnMayFail>>

\* shutdown() or reboot()
PowerOff ==
  /\ pc = "stop" /\ next = Len(Order) + 1
  /\ pc' = "off"
  /\ UNCHANGED <<proc, running, next, attempt, waited, POWER_EVENT, event, spawnMayFail>>

InitStep ==
  \/ RunOneshot \/ OneshotFinished \/ StartDaemon \/ EnterSupervise
  \/ Poll \/ Reap \/ Sleep \/ Wake \/ Stop \/ PowerOff

Next ==
  \/ InitStep
  \/ \E p \in Pids :
       \/ ProcessSpawns(p) \/ ProcessReaps(p) \/ ProcessTerminates(p)
       \/ \E status \in Exits : ProcessExits(p, status)
       \/ \E e \in Events : RequestPowerEvent(p, e)

\* Init runs again when the kernel schedules it (module Kernel: ReadyRuns and
\* SleepsEnd), and a oneshot runs to completion.
Fairness ==
  /\ WF_vars(InitStep)
  /\ WF_vars(\E status \in Exits : waited # NoPid /\ ProcessExits(waited, status))

Spec == Init /\ [][Next]_vars /\ Fairness

-----------------------------------------------------------------------------
\* Init knows the process of every service and nothing else: the pid it keeps
\* is that service's unreaped process and not a later process that was given
\* the same pid, and no process of a service runs unknown to init or twice.
\* It is what makes reap() restart the right service and the shutdown stop
\* the right processes.
TrackedExactly ==
  \A s \in Services, p \in Pids :
    (running[s] = p \/ (waited = p /\ s = Order[next]))
      <=> proc[p].service = s /\ proc[p].state \in {"running", "exited"}

\* Dependents of a oneshot wait for it to exit: none of them runs while it
\* runs, retries included.
DependentsWait ==
  \A p, q \in Pids :
    proc[p].state = "running" /\ proc[q].state = "running"
      /\ proc[p].service # NoService /\ proc[q].service # NoService
    => ~ (/\ kind[proc[p].service] = "Oneshot"
          /\ proc[p].service \in depends_on[proc[q].service])

\* No service is alive when init cuts the power.
AllStopped ==
  pc = "off" => \A p \in Pids : proc[p].service # NoService => proc[p].state = "stuck"

\* The shutdown stops a service only when its dependents have stopped.
StopsDependentsFirst ==
  [][\A s, t \in Services :
       /\ pc = "stop" /\ running[s] # NoPid /\ running'[s] = NoPid
       /\ s \in depends_on[t]
       => running'[t] = NoPid]_vars

\* A request for shutdown or reboot is carried out, however the services and
\* their children exit, restart and multiply meanwhile.
RequestsServed == (POWER_EVENT # "none") ~> (pc = "off")

\* A service with Restart::Always that was started runs again after each exit,
\* also when other processes have filled the process table, until init shuts
\* the system down.  It needs spawning to fail only for want of a record: when
\* the spawn that restarts the service fails, init drops the service for good.
AlwaysRestarted ==
  \A s \in Services :
    ~ spawnMayFail /\ restart[s] = "Always" =>
      /\ [](running[s] # NoPid /\ pc # "stop" /\ pc # "off" =>
             [](running[s] # NoPid \/ pc \in {"stop", "off"}))
      /\ (running[s] # NoPid /\ proc[running[s]].state = "exited")
           ~> ((running[s] # NoPid /\ proc[running[s]].state = "running") \/ pc \in {"stop", "off"})
=============================================================================
