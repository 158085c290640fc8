--------------------------- MODULE SupervisorProofs --------------------------
(***************************************************************************)
(* Theorems about init (module Supervisor), for every list of services and *)
(* every number of processes.                                              *)
(***************************************************************************)
EXTENDS Supervisor, LoopLemmas, SequenceTheorems

(***************************************************************************)
(* The inductive invariant.  TrackedExactly is not inductive: a pid that   *)
(* init keeps stays that of its service only because nobody but init can   *)
(* reap the process, whose parent is PID 1; and that the two ways of being *)
(* known, `running' and the oneshot that is waited for, do not mix needs   *)
(* `running' to hold daemons only.  The other properties add how far along *)
(* the order the services have been started or stopped.                    *)
(***************************************************************************)
Records ==
  [state : {"free", "running", "exited", "stuck"}, parent : Pids \cup {NoPid, Init1},
   service : Services \cup {NoService}, status : Exits]

Live(p) == proc[p].state \in {"running", "exited"}

SupervisorTypeOK ==
  /\ proc \in [Pids -> Records]
  /\ running \in [Services -> Pids \cup {NoPid}]
  /\ pc \in {"start", "wait", "poll", "reap", "sleep", "stop", "off"}
  /\ next \in 1 .. (Len(Order) + 1)

\* A record of a service is init's child.
ServiceRecords ==
  \A p \in Pids : /\ proc[p].state = "free" => proc[p].service = NoService
                  /\ proc[p].service # NoService => proc[p].parent = Init1

\* What init keeps is the pid of the service's process, and of daemons only.
KnownAreServices ==
  \A s \in Services, p \in Pids : running[s] = p =>
    kind[s] = "Daemon" /\ Live(p) /\ proc[p].service = s

WaitedIsOneshot ==
  /\ pc # "wait" => waited = NoPid
  /\ pc = "wait" =>
       /\ waited \in Pids /\ next <= Len(Order) /\ kind[Order[next]] = "Oneshot"
       /\ Live(waited) /\ proc[waited].service = Order[next]

ServicesAreKnown ==
  \A s \in Services, p \in Pids :
    Live(p) /\ proc[p].service = s => running[s] = p \/ waited = p

\* Services are started in order, and stopped in reverse order.
Progress ==
  /\ pc \in {"start", "wait"} => \A i \in DOMAIN Order : running[Order[i]] # NoPid => i < next
  /\ pc \in {"stop", "off"} =>
       \A i \in DOMAIN Order : i + next > Len(Order) + 1 => running[Order[i]] = NoPid
  /\ pc = "off" => next = Len(Order) + 1

SupervisorInv ==
  /\ SupervisorTypeOK /\ ServiceRecords /\ KnownAreServices /\ WaitedIsOneshot
  /\ ServicesAreKnown /\ Progress

LEMMA OrderFacts ==
  /\ Len(Order) \in Nat /\ DOMAIN Order = 1 .. Len(Order)
  /\ \A i \in DOMAIN Order : Order[i] \in Services
  /\ \A t \in Services : \E i \in DOMAIN Order : Order[i] = t
  /\ \A i, j \in DOMAIN Order : Order[i] = Order[j] => i = j
  /\ \A i, j \in DOMAIN Order : Order[j] \in depends_on[Order[i]] => j < i
  /\ NoService \notin Services
  /\ Pids \subseteq Nat /\ NoPid \notin Pids /\ Init1 \notin Pids
<1>1. Order \in Seq(Services)
  BY SupervisorAssumption
<1>2. Len(Order) \in Nat /\ DOMAIN Order = 1 .. Len(Order)
  BY <1>1, LenProperties
<1>3. \A i \in DOMAIN Order : Order[i] \in Services
  BY DEF Services, Range
<1>4. \A t \in Services : \E i \in DOMAIN Order : Order[i] = t
  BY DEF Services, Range
<1>5. \A i, j \in DOMAIN Order : Order[i] = Order[j] => i = j
  BY SupervisorAssumption DEF IsInjective
<1> QED BY <1>2, <1>3, <1>4, <1>5, SupervisorAssumption

\* spawn() changes at most one record, which was free.
LEMMA SpawnedFacts ==
  ASSUME NEW table \in [Pids -> Records], NEW parent, parent \in Pids \/ parent = Init1,
         NEW s, s \in Services \/ s = NoService, NEW r \in Spawned(table, parent, s)
  PROVE  /\ r.table \in [Pids -> Records] /\ r.pid \in Pids \cup {NoPid}
         /\ \A p \in Pids :
              \/ r.table[p] = table[p] /\ r.pid # p
              \/ /\ table[p].state = "free" /\ r.pid = p
                 /\ r.table[p].state = "running" /\ r.table[p].service = s
                 /\ r.table[p].parent = parent
              \/ /\ table[p].state = "free" /\ r.pid = NoPid
                 /\ r.table[p].state = "stuck" /\ r.table[p].service = s
                 /\ r.table[p].parent = parent
<1>1. PICK f : f = Min(FreeIn(table))
  OBVIOUS
<1>2. CASE FreeIn(table) = {}
  BY <1>2, OrderFacts DEF Spawned
<1>3. CASE FreeIn(table) # {}
  <2>1. f \in Pids /\ table[f].state = "free"
    <3>1. FreeIn(table) \subseteq Nat
      BY OrderFacts DEF FreeIn
    <3> QED BY <1>1, <1>3, <3>1, MinIsLeast DEF FreeIn
  <2>2. ASSUME NEW st \in {"running", "stuck"}, NEW made,
               made = [table EXCEPT ![f] = Record(st, parent, s)]
        PROVE  /\ made \in [Pids -> Records] /\ \A p \in Pids : p # f => made[p] = table[p]
               /\ made[f].state = st /\ made[f].service = s /\ made[f].parent = parent
    <3>1. Record(st, parent, s) \in Records
      BY DEF Record, Records, Exits
    <3> QED BY <2>1, <2>2, <3>1 DEF Record
  <2>3. \/ r = [table |-> table, pid |-> NoPid]
        \/ r = [table |-> [table EXCEPT ![f] = Record("running", parent, s)], pid |-> f]
        \/ r = [table |-> [table EXCEPT ![f] = Record("stuck", parent, s)], pid |-> NoPid]
    BY <1>1, <1>3 DEF Spawned
  <2>4. CASE r = [table |-> table, pid |-> NoPid]
    BY <2>4, OrderFacts
  <2>5. CASE r = [table |-> [table EXCEPT ![f] = Record("running", parent, s)], pid |-> f]
    <3>1. PICK made : made = [table EXCEPT ![f] = Record("running", parent, s)]
      OBVIOUS
    <3>2. r.table = made /\ r.pid = f
      BY <2>5, <3>1
    <3> QED BY <2>1, <2>2, <3>1, <3>2, OrderFacts
  <2>6. CASE r = [table |-> [table EXCEPT ![f] = Record("stuck", parent, s)], pid |-> NoPid]
    BY <2>1, <2>2, <2>6, OrderFacts
  <2> QED BY <2>3, <2>4, <2>5, <2>6
<1> QED BY <1>2, <1>3

LEMMA SpawnedByInit ==
  ASSUME NEW table \in [Pids -> Records], NEW s \in Services, NEW r \in Spawned(table, Init1, s)
  PROVE  /\ r.table \in [Pids -> Records] /\ r.pid \in Pids \cup {NoPid}
         /\ \A p \in Pids :
              \/ r.table[p] = table[p] /\ r.pid # p
              \/ /\ table[p].state = "free" /\ r.pid = p
                 /\ r.table[p].state = "running" /\ r.table[p].service = s
                 /\ r.table[p].parent = Init1
              \/ /\ table[p].state = "free" /\ r.pid = NoPid
                 /\ r.table[p].state = "stuck" /\ r.table[p].service = s
                 /\ r.table[p].parent = Init1
<1>1. PICK one : one = Init1
  OBVIOUS
<1>2. r \in Spawned(table, one, s)
  BY <1>1
<1>3. /\ r.table \in [Pids -> Records] /\ r.pid \in Pids \cup {NoPid}
      /\ \A p \in Pids :
           \/ r.table[p] = table[p] /\ r.pid # p
           \/ /\ table[p].state = "free" /\ r.pid = p
              /\ r.table[p].state = "running" /\ r.table[p].service = s
              /\ r.table[p].parent = one
           \/ /\ table[p].state = "free" /\ r.pid = NoPid
              /\ r.table[p].state = "stuck" /\ r.table[p].service = s
              /\ r.table[p].parent = one
  BY <1>1, <1>2, SpawnedFacts
<1> QED BY <1>1, <1>3

\* What other processes can do: processes of services change their state from
\* running to exited and their parent to PID 1, the others do as they like.
LEMMA OthersKeepInv ==
  ASSUME SupervisorInv, proc' \in [Pids -> Records], UNCHANGED <<running, pc, next, waited>>,
         \A p \in Pids :
           \/ proc[p].service = NoService /\ proc'[p].service = NoService
           \/ /\ proc'[p].service = proc[p].service
              /\ proc'[p].parent \in {proc[p].parent, Init1}
              /\ Live(p)' <=> Live(p)
              /\ proc'[p].state = "free" => proc[p].state = "free"
  PROVE  SupervisorInv'
<1> USE OrderFacts DEF SupervisorInv
<1>1. SupervisorTypeOK'
  BY DEF SupervisorTypeOK
<1>2. ServiceRecords'
  BY DEF ServiceRecords
<1>3. KnownAreServices'
  BY DEF KnownAreServices
<1>4. WaitedIsOneshot'
  <2>1. PICK w : w = waited /\ w = waited'
    OBVIOUS
  <2>2. pc = "wait" => /\ w \in Pids /\ next <= Len(Order) /\ kind[Order[next]] = "Oneshot"
                       /\ Live(w) /\ proc[w].service = Order[next] /\ Order[next] # NoService
    BY <2>1 DEF WaitedIsOneshot, SupervisorTypeOK
  <2>3. pc = "wait" => Live(w)' /\ proc'[w].service = Order[next]
    BY <2>2
  <2> QED BY <2>1, <2>2, <2>3 DEF WaitedIsOneshot, Live
<1>5. ServicesAreKnown'
  <2> SUFFICES ASSUME NEW s \in Services, NEW p \in Pids, Live(p)', proc'[p].service = s
               PROVE  running[s] = p \/ waited = p
    BY DEF ServicesAreKnown
  <2>1. Live(p) /\ proc[p].service = s
    BY SupervisorAssumption
  <2> QED BY <2>1 DEF ServicesAreKnown
<1>6. Progress'
  BY DEF Progress
<1> QED BY <1>1, <1>2, <1>3, <1>4, <1>5, <1>6

LEMMA OthersStep ==
  ASSUME SupervisorInv, NEW p \in Pids,
         \/ ProcessSpawns(p) \/ ProcessReaps(p) \/ ProcessTerminates(p)
         \/ \E status \in Exits : ProcessExits(p, status)
         \/ \E e \in Events : RequestPowerEvent(p, e)
  PROVE  SupervisorInv'
<1>t. /\ proc \in [Pids -> Records] /\ p # Init1
      /\ \A q \in Pids : /\ proc[q].state = "free" => proc[q].service = NoService
                         /\ proc[q].service # NoService => proc[q].parent = Init1
  BY OrderFacts DEF SupervisorInv, SupervisorTypeOK, ServiceRecords
<1>u. UNCHANGED <<running, pc, next, waited>>
  BY DEF ProcessSpawns, ProcessReaps, ProcessTerminates, ProcessExits, RequestPowerEvent
<1>r. \A q \in Pids : proc[q] \in Records
  BY <1>t
<1>1. CASE ProcessSpawns(p)
  <2>1. PICK r \in Spawned(proc, p, NoService) : proc' = r.table
    BY <1>1 DEF ProcessSpawns
  <2>2. /\ proc' \in [Pids -> Records]
        /\ \A q \in Pids : \/ proc'[q] = proc[q]
                           \/ proc[q].state = "free" /\ proc'[q].service = NoService
    BY <1>t, <2>1, SpawnedFacts
  <2> QED BY <1>t, <1>u, <2>2, OthersKeepInv DEF Live
<1>2. CASE ProcessReaps(p)
  <2>1. PICK q \in ExitedChildren(p) : proc' = [proc EXCEPT ![q] = FREE]
    BY <1>2 DEF ProcessReaps
  <2>2. q \in Pids /\ proc[q].parent = p
    BY <2>1 DEF ExitedChildren, Children
  <2>3. FREE \in Records /\ FREE.service = NoService
    BY DEF FREE, Records, Exits
  <2>4. proc' \in [Pids -> Records] /\ proc'[q] = FREE /\ \A x \in Pids : x # q => proc'[x] = proc[x]
    BY <1>t, <2>1, <2>2, <2>3
  <2> QED BY <1>t, <1>u, <2>2, <2>3, <2>4, OthersKeepInv DEF Live
<1>3. CASE ProcessTerminates(p)
  <2>1. PICK q \in Children(p) :
          /\ proc[q].state = "running"
          /\ proc' = [proc EXCEPT ![q].state = "exited", ![q].status = "failed"]
    BY <1>3 DEF ProcessTerminates
  <2>2. q \in Pids
    BY <2>1 DEF Children
  <2>3. PICK ended : ended = [[proc[q] EXCEPT !.state = "exited"] EXCEPT !.status = "failed"]
    OBVIOUS
  <2>4. /\ ended \in Records /\ ended.state = "exited"
        /\ ended.service = proc[q].service /\ ended.parent = proc[q].parent
    BY <1>r, <2>2, <2>3 DEF Records, Exits
  <2>5. proc'[q] = ended /\ DOMAIN proc' = Pids /\ \A x \in Pids : x # q => proc'[x] = proc[x]
    BY <1>t, <2>1, <2>2, <2>3
  <2>6. proc' \in [Pids -> Records]
    BY <1>t, <2>1, <2>2, <2>4, <2>5
  <2> QED BY <1>t, <1>u, <2>1, <2>2, <2>4, <2>5, <2>6, OthersKeepInv DEF Live
<1>4. ASSUME NEW status \in Exits, ProcessExits(p, status) PROVE SupervisorInv'
  <2>1. /\ proc[p].state = "running"
        /\ proc' = [q \in Pids |->
             IF q = p THEN [proc[p] EXCEPT !.state = "exited", !.status = status]
             ELSE IF q \in Children(p) THEN [proc[q] EXCEPT !.parent = Init1]
             ELSE proc[q]]
    BY <1>4 DEF ProcessExits, Runs
  <2>2. PICK ended : ended = [proc[p] EXCEPT !.state = "exited", !.status = status]
    OBVIOUS
  <2>3. /\ ended \in Records /\ ended.state = "exited"
        /\ ended.service = proc[p].service /\ ended.parent = proc[p].parent
    BY <1>r, <2>2 DEF Records
  <2>4. ASSUME NEW q \in Pids, NEW adopted, adopted = [proc[q] EXCEPT !.parent = Init1]
        PROVE  /\ adopted \in Records /\ adopted.parent = Init1
               /\ adopted.service = proc[q].service /\ adopted.state = proc[q].state
    BY <1>r, <2>4 DEF Records
  <2>5. proc'[p] = ended
    BY <2>1, <2>2
  <2>6. ASSUME NEW q \in Pids, q # p
        PROVE  /\ proc'[q] \in Records /\ proc'[q].service = proc[q].service
               /\ proc'[q].parent \in {proc[q].parent, Init1} /\ proc'[q].state = proc[q].state
    <3>1. proc'[q] = proc[q] \/ proc'[q] = [proc[q] EXCEPT !.parent = Init1]
      BY <2>1, <2>6
    <3> QED BY <1>r, <2>4, <3>1
  <2>7. proc' \in [Pids -> Records]
    BY <2>1, <2>3, <2>5, <2>6
  <2> HIDE DEF Init1
  <2> QED BY <1>u, <2>1, <2>3, <2>5, <2>6, <2>7, OthersKeepInv DEF Live
<1>5. ASSUME NEW e \in Events, RequestPowerEvent(p, e) PROVE SupervisorInv'
  <2>1. proc' = proc
    BY <1>5 DEF RequestPowerEvent
  <2> QED BY <1>t, <1>u, <2>1, OthersKeepInv DEF Live
<1> QED BY <1>1, <1>2, <1>3, <1>4, <1>5

\* Steps of init that leave the processes and what it knows of them alone.
LEMMA InitFrame ==
  ASSUME SupervisorInv, UNCHANGED <<proc, running, waited>>, pc # "wait", pc' # "wait",
         pc' \in {"start", "poll", "reap", "sleep", "stop", "off"},
         next' \in 1 .. (Len(Order) + 1), Progress'
  PROVE  SupervisorInv'
BY DEF SupervisorInv, SupervisorTypeOK, ServiceRecords, KnownAreServices, WaitedIsOneshot,
       ServicesAreKnown, Live

\* Steps that end, start or replace the process of one service.
LEMMA ServiceKeepsInv ==
  ASSUME SupervisorInv, pc # "wait", pc' \notin {"wait"}, UNCHANGED waited, SupervisorTypeOK',
         Progress', NEW s \in Services,
         \A t \in Services : t # s => running'[t] = running[t],
         running'[s] \in Pids => kind[s] = "Daemon",
         \A p \in Pids :
           \/ proc'[p] = proc[p] /\ ~ (Live(p) /\ proc[p].service = s) /\ running'[s] # p
           \/ /\ ~ Live(p)' /\ running'[s] # p /\ \A t \in Services : t # s => running[t] # p
              /\ proc'[p].service # NoService => proc'[p].state = "stuck" /\ proc'[p].parent = Init1
           \/ /\ Live(p)' /\ running'[s] = p /\ \A t \in Services : t # s => running[t] # p
              /\ proc'[p].service = s /\ proc'[p].parent = Init1
  PROVE  SupervisorInv'
<1> USE OrderFacts DEF SupervisorInv
<1>1. ServiceRecords'
  BY DEF ServiceRecords, Live
<1>2. KnownAreServices'
  <2> SUFFICES ASSUME NEW t \in Services, NEW p \in Pids, running'[t] = p
               PROVE  kind[t] = "Daemon" /\ Live(p)' /\ proc'[p].service = t
    BY DEF KnownAreServices
  <2>1. CASE t = s
    BY <2>1
  <2>2. CASE t # s
    <3>1. kind[t] = "Daemon" /\ Live(p) /\ proc[p].service = t /\ running[t] = p
      BY <2>2 DEF KnownAreServices
    <3> QED BY <2>2, <3>1 DEF Live
  <2> QED BY <2>1, <2>2
<1>3. WaitedIsOneshot'
  BY DEF WaitedIsOneshot
<1>4. ServicesAreKnown'
  <2> SUFFICES ASSUME NEW t \in Services, NEW p \in Pids, Live(p)', proc'[p].service = t
               PROVE  running'[t] = p
    BY DEF ServicesAreKnown
  <2>1. CASE proc'[p] = proc[p] /\ ~ (Live(p) /\ proc[p].service = s)
    <3>1. waited # p
      BY DEF WaitedIsOneshot
    <3> QED BY <2>1, <3>1 DEF ServicesAreKnown, Live
  <2>2. CASE running'[s] = p /\ proc'[p].service = s
    BY <2>2
  <2> QED BY <2>1, <2>2
<1> QED BY <1>1, <1>2, <1>3, <1>4

\* No process of a service that init does not know.
LEMMA UnknownIsDead ==
  ASSUME SupervisorInv, pc # "wait", NEW s \in Services, running[s] = NoPid, NEW p \in Pids
  PROVE  ~ (Live(p) /\ proc[p].service = s)
BY OrderFacts DEF SupervisorInv, ServicesAreKnown, WaitedIsOneshot

\* A free record is that of no service.
LEMMA FreeIsUnknown ==
  ASSUME SupervisorInv, NEW p \in Pids, proc[p].state \notin {"running", "exited"},
         NEW t \in Services
  PROVE  running[t] # p
BY DEF SupervisorInv, KnownAreServices, Live

LEMMA StartStep ==
  ASSUME SupervisorInv, RunOneshot \/ StartDaemon \/ EnterSupervise
  PROVE  SupervisorInv'
<1>t. /\ proc \in [Pids -> Records] /\ running \in [Services -> Pids \cup {NoPid}]
      /\ next \in 1 .. (Len(Order) + 1) /\ pc = "start"
      /\ Len(Order) \in Nat /\ DOMAIN Order = 1 .. Len(Order)
  BY OrderFacts
  DEF SupervisorInv, SupervisorTypeOK, RunOneshot, StartDaemon, EnterSupervise
<1>p. proc \in [Pids -> Records]
  BY <1>t
<1>1. CASE EnterSupervise
  BY <1>1, <1>t, InitFrame DEF EnterSupervise, Progress
<1> SUFFICES ASSUME RunOneshot \/ StartDaemon PROVE SupervisorInv'
  BY <1>1
<1>2. PICK s : s = Order[next] /\ s \in Services /\ next \in DOMAIN Order
  BY <1>t, OrderFacts DEF RunOneshot, StartDaemon
<1>3. PICK r \in Spawned(proc, Init1, s) :
        /\ proc' = r.table
        /\ StartDaemon => running' = [running EXCEPT ![s] = r.pid]
        /\ RunOneshot => IF r.pid = NoPid
                         THEN next' = next + 1 /\ UNCHANGED <<pc, waited>>
                         ELSE pc' = "wait" /\ waited' = r.pid /\ UNCHANGED next
  BY <1>2 DEF RunOneshot, StartDaemon
<1>4. running[s] = NoPid /\ \A p \in Pids : ~ (Live(p) /\ proc[p].service = s)
  <2>1. running[s] = NoPid
    BY <1>2, <1>t DEF SupervisorInv, Progress
  <2> QED BY <1>2, <1>t, <2>1, UnknownIsDead
<1>5. /\ proc' \in [Pids -> Records] /\ r.pid \in Pids \cup {NoPid}
      /\ \A p \in Pids :
           \/ proc'[p] = proc[p] /\ r.pid # p
           \/ /\ proc[p].state = "free" /\ r.pid = p
              /\ proc'[p].state = "running" /\ proc'[p].service = s /\ proc'[p].parent = Init1
           \/ /\ proc[p].state = "free" /\ r.pid = NoPid
              /\ proc'[p].state = "stuck" /\ proc'[p].service = s /\ proc'[p].parent = Init1
  BY <1>2, <1>3, <1>p, SpawnedByInit
<1>6. ASSUME NEW p \in Pids, proc[p].state = "free", NEW t \in Services PROVE running[t] # p
  BY <1>6, FreeIsUnknown
<1>7. CASE StartDaemon
  <2>1. /\ kind[s] = "Daemon" /\ next' = next + 1 /\ UNCHANGED <<pc, waited>>
        /\ running'[s] = r.pid /\ \A t \in Services : t # s => running'[t] = running[t]
        /\ running' \in [Services -> Pids \cup {NoPid}]
    BY <1>2, <1>3, <1>5, <1>7, <1>t DEF StartDaemon
  <2>2. SupervisorTypeOK'
    BY <1>2, <1>5, <1>t, <2>1 DEF SupervisorTypeOK
  <2>3. Progress'
    <3> SUFFICES ASSUME NEW i \in DOMAIN Order, running'[Order[i]] # NoPid PROVE i < next + 1
      BY <1>t, <2>1 DEF Progress
    <3>1. CASE Order[i] = s
      BY <1>2, <1>t, <3>1, OrderFacts
    <3>2. CASE Order[i] # s
      BY <1>t, <2>1, <3>2, OrderFacts DEF SupervisorInv, Progress
    <3> QED BY <3>1, <3>2
  <2>4. \A p \in Pids :
           \/ proc'[p] = proc[p] /\ ~ (Live(p) /\ proc[p].service = s) /\ running'[s] # p
           \/ /\ ~ Live(p)' /\ running'[s] # p /\ \A t \in Services : t # s => running[t] # p
              /\ proc'[p].service # NoService => proc'[p].state = "stuck" /\ proc'[p].parent = Init1
           \/ /\ Live(p)' /\ running'[s] = p /\ \A t \in Services : t # s => running[t] # p
              /\ proc'[p].service = s /\ proc'[p].parent = Init1
    BY <1>4, <1>5, <1>6, <2>1, OrderFacts DEF Live
  <2>5. pc # "wait" /\ pc' \notin {"wait"} /\ waited' = waited
    BY <1>t, <2>1
  <2> QED BY <1>2, <2>1, <2>2, <2>3, <2>4, <2>5, ServiceKeepsInv
<1>8. CASE RunOneshot /\ r.pid = NoPid
  <2>1. next' = next + 1 /\ UNCHANGED <<pc, waited, running>>
    BY <1>3, <1>8 DEF RunOneshot
  <2>2. SupervisorTypeOK'
    BY <1>2, <1>5, <1>t, <2>1 DEF SupervisorTypeOK, SupervisorInv
  <2>3. Progress'
    BY <1>2, <1>t, <2>1 DEF SupervisorInv, Progress
  <2>4. \A p \in Pids :
           \/ proc'[p] = proc[p] /\ ~ (Live(p) /\ proc[p].service = s) /\ running'[s] # p
           \/ /\ ~ Live(p)' /\ running'[s] # p /\ \A t \in Services : t # s => running[t] # p
              /\ proc'[p].service # NoService => proc'[p].state = "stuck" /\ proc'[p].parent = Init1
    <3> SUFFICES ASSUME NEW p \in Pids
                 PROVE  \/ proc'[p] = proc[p] /\ ~ (Live(p) /\ proc[p].service = s) /\ running'[s] # p
                        \/ /\ ~ Live(p)' /\ running'[s] # p
                           /\ \A t \in Services : t # s => running[t] # p
                           /\ proc'[p].service # NoService =>
                                proc'[p].state = "stuck" /\ proc'[p].parent = Init1
      OBVIOUS
    <3>1. running'[s] # p /\ r.pid # p
      BY <1>4, <1>8, <2>1, OrderFacts
    <3>2. CASE proc'[p] = proc[p]
      BY <1>4, <3>1, <3>2
    <3>3. CASE proc[p].state = "free" /\ proc'[p].state = "stuck" /\ proc'[p].parent = Init1
      BY <1>6, <3>1, <3>3 DEF Live
    <3> QED BY <1>5, <3>1, <3>2, <3>3
  <2>5. pc # "wait" /\ pc' \notin {"wait"} /\ waited' = waited
    BY <1>t, <2>1
  <2> QED BY <1>2, <1>4, <2>1, <2>2, <2>3, <2>4, <2>5, OrderFacts, ServiceKeepsInv
<1>9. CASE RunOneshot /\ r.pid # NoPid
  <2>1. /\ pc' = "wait" /\ waited' = r.pid /\ UNCHANGED <<next, running>> /\ r.pid \in Pids
        /\ kind[s] = "Oneshot"
    BY <1>2, <1>3, <1>5, <1>9 DEF RunOneshot
  <2>2. SupervisorTypeOK'
    BY <1>5, <1>t, <2>1 DEF SupervisorTypeOK, SupervisorInv
  <2>3. Progress'
    BY <1>t, <2>1 DEF SupervisorInv, Progress
  <2>4. ServiceRecords'
    BY <1>2, <1>5, OrderFacts DEF SupervisorInv, ServiceRecords
  <2>5. KnownAreServices'
    BY <1>5, <1>6, <2>1 DEF SupervisorInv, KnownAreServices, Live
  <2>6. WaitedIsOneshot'
    <3>1. PICK w : w = r.pid
      OBVIOUS
    <3>2. Live(w)' /\ proc'[w].service = s /\ w \in Pids
      BY <1>5, <2>1, <3>1, OrderFacts DEF Live
    <3> QED BY <1>2, <1>t, <2>1, <3>1, <3>2 DEF WaitedIsOneshot, Live
  <2>7. ServicesAreKnown'
    <3> SUFFICES ASSUME NEW t \in Services, NEW p \in Pids, Live(p)', proc'[p].service = t
                 PROVE  running[t] = p \/ r.pid = p
      BY <2>1 DEF ServicesAreKnown
    <3>1. waited # p
      BY <1>t, OrderFacts DEF SupervisorInv, WaitedIsOneshot
    <3> QED BY <1>5, <3>1 DEF SupervisorInv, ServicesAreKnown, Live
  <2> QED BY <2>2, <2>3, <2>4, <2>5, <2>6, <2>7 DEF SupervisorInv
<1> QED BY <1>7, <1>8, <1>9

\* The oneshot that init waited for is reaped.
LEMMA FinishedStep ==
  ASSUME SupervisorInv, OneshotFinished
  PROVE  SupervisorInv'
<1>1. PICK w, s : w = waited /\ s = Order[next]
  OBVIOUS
<1>2. /\ pc = "wait" /\ pc' = "start" /\ waited' = NoPid /\ UNCHANGED running
      /\ next' \in {next, next + 1} /\ proc' = [proc EXCEPT ![w] = FREE]
  BY <1>1 DEF OneshotFinished
<1>3. /\ w \in Pids /\ next <= Len(Order) /\ kind[s] = "Oneshot" /\ proc[w].service = s
      /\ next \in 1 .. (Len(Order) + 1) /\ proc \in [Pids -> Records] /\ Live(w)
  BY <1>1, <1>2 DEF SupervisorInv, WaitedIsOneshot, SupervisorTypeOK
<1>4. FREE \in Records /\ FREE.service = NoService /\ FREE.state = "free"
  BY DEF FREE, Records, Exits
<1>5. /\ proc' \in [Pids -> Records] /\ proc'[w] = FREE
      /\ \A p \in Pids : p # w => proc'[p] = proc[p]
  BY <1>2, <1>3, <1>4
<1>6. SupervisorTypeOK'
  BY <1>2, <1>3, <1>5, OrderFacts DEF SupervisorInv, SupervisorTypeOK
<1>7. ServiceRecords'
  BY <1>4, <1>5 DEF SupervisorInv, ServiceRecords
<1>8. KnownAreServices'
  <2> SUFFICES ASSUME NEW t \in Services, NEW p \in Pids, running[t] = p
               PROVE  kind[t] = "Daemon" /\ Live(p)' /\ proc'[p].service = t
    BY <1>2 DEF KnownAreServices
  <2>1. kind[t] = "Daemon" /\ Live(p) /\ proc[p].service = t
    BY DEF SupervisorInv, KnownAreServices
  <2>2. p # w
    BY <1>3, <2>1
  <2> QED BY <1>5, <2>1, <2>2 DEF Live
<1>9. WaitedIsOneshot'
  BY <1>2 DEF WaitedIsOneshot
<1>10. ServicesAreKnown'
  BY <1>1, <1>2, <1>4, <1>5 DEF SupervisorInv, ServicesAreKnown, Live
<1>11. Progress'
  BY <1>2, <1>3, OrderFacts DEF SupervisorInv, Progress
<1> QED BY <1>6, <1>7, <1>8, <1>9, <1>10, <1>11 DEF SupervisorInv

\* reap(): the process is forgotten, or replaced by a new one of its service.
LEMMA ReapStep ==
  ASSUME SupervisorInv, Reap
  PROVE  SupervisorInv'
<1>1. PICK p, table : p = Min(ExitedChildren(Init1)) /\ table = [proc EXCEPT ![p] = FREE]
  OBVIOUS
<1>t. /\ proc \in [Pids -> Records] /\ running \in [Services -> Pids \cup {NoPid}]
      /\ pc = "reap" /\ UNCHANGED <<pc, next, waited>>
  BY DEF SupervisorInv, SupervisorTypeOK, Reap
<1>2. p \in Pids /\ proc[p].state = "exited"
  <2>1. ExitedChildren(Init1) \subseteq Nat /\ ExitedChildren(Init1) # {}
    BY OrderFacts DEF Reap, ExitedChildren, Children
  <2> QED BY <1>1, <2>1, MinIsLeast DEF ExitedChildren, Children
<1>3. FREE \in Records /\ FREE.service = NoService /\ FREE.state = "free"
  BY DEF FREE, Records, Exits
<1>4. /\ table \in [Pids -> Records] /\ table[p] = FREE
      /\ \A q \in Pids : q # p => table[q] = proc[q]
  BY <1>1, <1>2, <1>3, <1>t
<1>5. Progress'
  BY <1>t DEF Progress
<1>6. CASE \A s \in Services : running[s] # p
  <2>1. proc' = table /\ running' = running
    BY <1>1, <1>6 DEF Reap
  <2>2. proc[p].service \in Services \cup {NoService}
    BY <1>2, <1>t DEF Records
  <2>3. proc[p].service = NoService
    <3>1. waited # p
      BY <1>2, <1>t, OrderFacts DEF SupervisorInv, WaitedIsOneshot
    <3>2. Live(p)
      BY <1>2 DEF Live
    <3> QED BY <1>2, <1>6, <2>2, <3>1, <3>2 DEF SupervisorInv, ServicesAreKnown
  <2> QED BY <1>2, <1>3, <1>4, <1>t, <2>1, <2>3, OthersKeepInv DEF Live
<1>7. CASE \E s \in Services : running[s] = p
  <2>1. PICK s, r : /\ s \in Services /\ running[s] = p /\ r \in Reaped(table, s, proc[p].status)
                    /\ proc' = r.table /\ running' = r.running
    BY <1>1, <1>7 DEF Reap
  <2>2. \A t \in Services : t # s => running[t] # p
    BY <1>2, <2>1 DEF SupervisorInv, KnownAreServices
  <2>k. kind[s] = "Daemon" /\ \A q \in Pids : Live(q) /\ proc[q].service = s => q = p
    <3>1. \A q \in Pids : waited # q
      BY <1>t, OrderFacts DEF SupervisorInv, WaitedIsOneshot
    <3> QED BY <1>2, <2>1, <3>1 DEF SupervisorInv, KnownAreServices, ServicesAreKnown
  <2>3. PICK n : /\ n \in Pids \cup {NoPid} /\ running' = [running EXCEPT ![s] = n]
                 /\ proc' \in [Pids -> Records]
                 /\ \A q \in Pids :
                      \/ proc'[q] = table[q] /\ n # q
                      \/ /\ table[q].state = "free" /\ n = q
                         /\ proc'[q].state = "running" /\ proc'[q].service = s
                         /\ proc'[q].parent = Init1
                      \/ /\ table[q].state = "free" /\ n = NoPid
                         /\ proc'[q].state = "stuck" /\ proc'[q].service = s
                         /\ proc'[q].parent = Init1
    <3>1. CASE Restarts(s, proc[p].status)
      <4>1. PICK made \in Spawned(table, Init1, s) :
              r = [table |-> made.table, running |-> [running EXCEPT ![s] = made.pid]]
        BY <2>1, <3>1 DEF Reaped
      <4>2. PICK n : n = made.pid
        OBVIOUS
      <4>3. proc' = made.table /\ running' = [running EXCEPT ![s] = n]
        BY <2>1, <4>1, <4>2
      <4>4. /\ made.table \in [Pids -> Records] /\ made.pid \in Pids \cup {NoPid}
            /\ \A q \in Pids :
                 \/ made.table[q] = table[q] /\ made.pid # q
                 \/ /\ table[q].state = "free" /\ made.pid = q
                    /\ made.table[q].state = "running" /\ made.table[q].service = s
                    /\ made.table[q].parent = Init1
                 \/ /\ table[q].state = "free" /\ made.pid = NoPid
                    /\ made.table[q].state = "stuck" /\ made.table[q].service = s
                    /\ made.table[q].parent = Init1
        BY <1>4, <2>1, SpawnedByInit
      <4> HIDE DEF Init1, NoPid
      <4> QED BY <4>2, <4>3, <4>4
    <3>2. CASE ~ Restarts(s, proc[p].status)
      <4>1. r = [table |-> table, running |-> [running EXCEPT ![s] = NoPid]]
        BY <2>1, <3>2 DEF Reaped
      <4>2. proc' = table /\ running' = [running EXCEPT ![s] = NoPid]
        BY <2>1, <4>1
      <4>3. \A q \in Pids : proc'[q] = table[q] /\ NoPid # q
        BY <4>2, OrderFacts
      <4>4. PICK n : n = NoPid
        OBVIOUS
      <4>5. n \in Pids \cup {NoPid} /\ running' = [running EXCEPT ![s] = n] /\ \A q \in Pids : n # q
        BY <4>2, <4>3, <4>4
      <4> QED BY <1>4, <4>2, <4>3, <4>5
    <3> QED BY <3>1, <3>2
  <2>4. /\ running'[s] = n /\ \A t \in Services : t # s => running'[t] = running[t]
        /\ running' \in [Services -> Pids \cup {NoPid}]
    BY <1>t, <2>1, <2>3
  <2>5. SupervisorTypeOK'
    BY <1>t, <2>3, <2>4 DEF SupervisorInv, SupervisorTypeOK
  <2>6. ASSUME NEW q \in Pids
        PROVE  \/ proc'[q] = proc[q] /\ ~ (Live(q) /\ proc[q].service = s) /\ running'[s] # q
               \/ /\ ~ Live(q)' /\ running'[s] # q /\ \A t \in Services : t # s => running[t] # q
                  /\ proc'[q].service # NoService =>
                       proc'[q].state = "stuck" /\ proc'[q].parent = Init1
               \/ /\ Live(q)' /\ running'[s] = q /\ \A t \in Services : t # s => running[t] # q
                  /\ proc'[q].service = s /\ proc'[q].parent = Init1
    <3>1. CASE proc'[q] = table[q] /\ n # q
      <4>1. CASE q = p
        BY <1>3, <1>4, <2>2, <2>4, <3>1, <4>1 DEF Live
      <4>2. CASE q # p
        BY <1>4, <2>k, <2>4, <3>1, <4>2
      <4> QED BY <4>1, <4>2
    <3>2. CASE table[q].state = "free"
      <4>1. \A t \in Services : t # s => running[t] # q
        <5>1. CASE q = p
          BY <2>2, <5>1
        <5>2. CASE q # p
          BY <1>4, <3>2, <5>2, FreeIsUnknown
        <5> QED BY <5>1, <5>2
      <4>2. CASE n = q
        BY <2>3, <2>4, <4>1, <4>2, OrderFacts DEF Live
      <4>3. CASE n = NoPid /\ proc'[q].state = "stuck" /\ proc'[q].parent = Init1
        BY <2>4, <4>1, <4>3, OrderFacts DEF Live
      <4> QED BY <2>3, <3>1, <4>2, <4>3
    <3> QED BY <2>3, <3>1, <3>2
  <2>7. pc # "wait" /\ pc' \notin {"wait"} /\ waited' = waited
    BY <1>t
  <2> QED BY <1>5, <2>k, <2>1, <2>4, <2>5, <2>6, <2>7, ServiceKeepsInv
<1> QED BY <1>6, <1>7

\* What a step of the shutdown does: position `next' from the end of the order.
LEMMA StopPosition ==
  ASSUME SupervisorInv, Stop
  PROVE  \E s \in Services, i \in DOMAIN Order :
           /\ s = Order[i] /\ i + next = Len(Order) + 1 /\ next' = next + 1
           /\ next' \in 1 .. (Len(Order) + 1)
           /\ running' = [running EXCEPT ![s] = NoPid]
           /\ proc' = IF running[s] \in Children(Init1)
                      THEN [proc EXCEPT ![running[s]] = FREE] ELSE proc
<1>1. PICK s : s = StopOrder[next]
  OBVIOUS
<1>2. PICK i : i = (Len(Order) - next) + 1
  OBVIOUS
<1>3. next \in 1 .. Len(Order) /\ next' = next + 1
  BY OrderFacts DEF SupervisorInv, SupervisorTypeOK, Stop
<1>4. i \in DOMAIN Order /\ i + next = Len(Order) + 1 /\ next' \in 1 .. (Len(Order) + 1)
  BY <1>2, <1>3, OrderFacts
<1>5. s = Order[i]
  BY <1>1, <1>2, <1>3 DEF StopOrder, Reverse
<1>6. s \in Services
  BY <1>4, <1>5, OrderFacts
<1>7. /\ running' = [running EXCEPT ![s] = NoPid]
      /\ proc' = IF running[s] \in Children(Init1)
                 THEN [proc EXCEPT ![running[s]] = FREE] ELSE proc
  BY <1>1 DEF Stop
<1> QED BY <1>3, <1>4, <1>5, <1>6, <1>7

LEMMA StopStep ==
  ASSUME SupervisorInv, Stop
  PROVE  SupervisorInv'
<1>1. PICK s, i : /\ s \in Services /\ i \in DOMAIN Order
                  /\ s = Order[i] /\ i + next = Len(Order) + 1 /\ next' = next + 1
                  /\ next' \in 1 .. (Len(Order) + 1)
                  /\ running' = [running EXCEPT ![s] = NoPid]
                  /\ proc' = IF running[s] \in Children(Init1)
                             THEN [proc EXCEPT ![running[s]] = FREE] ELSE proc
  BY StopPosition
<1>2. /\ pc = "stop" /\ UNCHANGED <<pc, waited>> /\ next \in 1 .. (Len(Order) + 1)
      /\ proc \in [Pids -> Records] /\ running \in [Services -> Pids \cup {NoPid}]
  BY DEF SupervisorInv, SupervisorTypeOK, Stop
<1>3. PICK p : p = running[s]
  OBVIOUS
<1>4. FREE \in Records /\ FREE.service = NoService /\ FREE.state = "free"
  BY DEF FREE, Records, Exits
<1>5. /\ running'[s] = NoPid /\ \A t \in Services : t # s => running'[t] = running[t]
      /\ running' \in [Services -> Pids \cup {NoPid}]
  BY <1>1, <1>2
<1>6. /\ \A q \in Pids : q # p => proc'[q] = proc[q]
      /\ p \in Pids => proc'[p] = FREE
      /\ proc' \in [Pids -> Records]
  <2>1. CASE p = NoPid
    <3>1. proc' = proc
      BY <1>1, <1>3, <2>1, OrderFacts DEF Children
    <3> QED BY <1>2, <2>1, <3>1, OrderFacts
  <2>2. CASE p \in Pids
    <3>1. Live(p) /\ proc[p].service = s /\ s # NoService
      BY <1>1, <1>3, <2>2, OrderFacts DEF SupervisorInv, KnownAreServices
    <3>2. p \in Children(Init1)
      BY <2>2, <3>1 DEF SupervisorInv, ServiceRecords, Children, Live
    <3>3. proc' = [proc EXCEPT ![p] = FREE]
      BY <1>1, <1>3, <3>2
    <3> QED BY <1>2, <1>4, <2>2, <3>3
  <2> QED BY <1>1, <1>2, <1>3, <2>1, <2>2
<1>7. SupervisorTypeOK'
  BY <1>1, <1>2, <1>5, <1>6 DEF SupervisorInv, SupervisorTypeOK
<1>8. Progress'
  <2> SUFFICES ASSUME NEW k \in DOMAIN Order, k + next' > Len(Order) + 1
               PROVE  running'[Order[k]] = NoPid
    BY <1>2 DEF Progress
  <2>1. CASE k = i
    BY <1>1, <1>5, <2>1
  <2>2. CASE k # i
    <3>1. k + next > Len(Order) + 1
      BY <1>1, <1>2, <2>2, OrderFacts
    <3>2. running[Order[k]] = NoPid
      BY <1>2, <3>1 DEF SupervisorInv, Progress
    <3> QED BY <1>5, <3>2, OrderFacts
  <2> QED BY <2>1, <2>2
<1>9. ASSUME NEW q \in Pids
      PROVE  \/ proc'[q] = proc[q] /\ ~ (Live(q) /\ proc[q].service = s) /\ running'[s] # q
             \/ /\ ~ Live(q)' /\ running'[s] # q /\ \A t \in Services : t # s => running[t] # q
                /\ proc'[q].service # NoService =>
                     proc'[q].state = "stuck" /\ proc'[q].parent = Init1
  <2>1. CASE q # p
    <3>1. waited # q
      BY <1>2, OrderFacts DEF SupervisorInv, WaitedIsOneshot
    <3>2. ~ (Live(q) /\ proc[q].service = s)
      BY <1>1, <1>3, <2>1, <3>1 DEF SupervisorInv, ServicesAreKnown
    <3> QED BY <1>5, <1>6, <2>1, <3>2, OrderFacts
  <2>2. CASE q = p
    <3>1. \A t \in Services : t # s => running[t] # q
      BY <1>1, <1>3, <2>2 DEF SupervisorInv, KnownAreServices
    <3> QED BY <1>4, <1>5, <1>6, <2>2, <3>1, OrderFacts DEF Live
  <2> QED BY <2>1, <2>2
<1>10. running'[s] \notin Pids
  BY <1>5, OrderFacts
<1>11. pc # "wait" /\ pc' \notin {"wait"} /\ waited' = waited
  BY <1>2
<1> QED BY <1>1, <1>5, <1>7, <1>8, <1>9, <1>10, <1>11, ServiceKeepsInv

LEMMA SupervisorInit == Init => SupervisorInv
<1> SUFFICES ASSUME Init PROVE SupervisorInv
  OBVIOUS
<1>1. FREE \in Records /\ FREE.service = NoService /\ FREE.state = "free"
  BY DEF FREE, Records, Exits
<1>2. /\ proc \in [Pids -> Records] /\ \A p \in Pids : proc[p] = FREE
      /\ \A s \in Services : running[s] = NoPid
      /\ running \in [Services -> Pids \cup {NoPid}]
      /\ pc = "start" /\ next = 1 /\ waited = NoPid
  BY <1>1 DEF Init
<1>3. SupervisorTypeOK
  BY <1>2, OrderFacts DEF SupervisorTypeOK
<1>4. ServiceRecords /\ ServicesAreKnown
  BY <1>1, <1>2 DEF ServiceRecords, ServicesAreKnown, Live
<1>5. KnownAreServices /\ WaitedIsOneshot /\ Progress
  BY <1>2, OrderFacts DEF KnownAreServices, WaitedIsOneshot, Progress
<1> QED BY <1>3, <1>4, <1>5 DEF SupervisorInv

LEMMA SupervisorStep == SupervisorInv /\ [Next]_vars => SupervisorInv'
<1> SUFFICES ASSUME SupervisorInv, [Next]_vars PROVE SupervisorInv'
  OBVIOUS
<1>t. next \in 1 .. (Len(Order) + 1) /\ pc \in {"start", "wait", "poll", "reap", "sleep", "stop", "off"}
  BY DEF SupervisorInv, SupervisorTypeOK
<1>1. CASE RunOneshot \/ StartDaemon
  BY <1>1, StartStep
<1>2. CASE OneshotFinished
  BY <1>2, FinishedStep
<1>3. CASE EnterSupervise \/ Sleep \/ Wake
  <2>1. /\ UNCHANGED <<proc, running, waited>> /\ pc # "wait" /\ pc' \in {"poll", "sleep"}
        /\ next' = next
    BY <1>3 DEF EnterSupervise, Sleep, Wake
  <2> QED BY <1>t, <2>1, InitFrame DEF Progress
<1>4. CASE Poll
  <2>1. /\ UNCHANGED <<proc, running, waited>> /\ pc = "poll"
        /\ \/ pc' = "reap" /\ next' = next
           \/ pc' = "stop" /\ next' = 1
    BY <1>4 DEF Poll
  <2>2. next' \in 1 .. (Len(Order) + 1)
    BY <1>t, <2>1, OrderFacts
  <2>3. Progress'
    BY <2>1, OrderFacts DEF Progress
  <2> QED BY <2>1, <2>2, <2>3, InitFrame
<1>5. CASE Reap
  BY <1>5, ReapStep
<1>6. CASE Stop
  BY <1>6, StopStep
<1>7. CASE PowerOff
  <2>1. /\ UNCHANGED <<proc, running, waited>> /\ pc = "stop" /\ pc' = "off"
        /\ next' = next /\ next = Len(Order) + 1
    BY <1>7 DEF PowerOff
  <2>2. Progress'
    BY <2>1 DEF SupervisorInv, Progress
  <2> QED BY <1>t, <2>1, <2>2, InitFrame
<1>8. CASE \E p \in Pids :
             \/ ProcessSpawns(p) \/ ProcessReaps(p) \/ ProcessTerminates(p)
             \/ \E status \in Exits : ProcessExits(p, status)
             \/ \E e \in Events : RequestPowerEvent(p, e)
  BY <1>8, OthersStep
<1>9. CASE UNCHANGED vars
  BY <1>9 DEF vars, SupervisorInv, SupervisorTypeOK, ServiceRecords, KnownAreServices,
              WaitedIsOneshot, ServicesAreKnown, Progress, Live
<1> QED BY <1>1, <1>2, <1>3, <1>4, <1>5, <1>6, <1>7, <1>8, <1>9 DEF Next, InitStep

LEMMA SupervisorAlways == Spec => []SupervisorInv
BY SupervisorInit, SupervisorStep, PTL DEF Spec

-----------------------------------------------------------------------------
\* The pid init keeps for a service is that of the service's unreaped process,
\* and every such process is kept: no pid is stale, no service runs unknown to
\* init or twice, whatever the other processes spawn, reap and terminate.
THEOREM ServicesAreTracked == Spec => []TrackedExactly
<1>1. SupervisorInv => TrackedExactly
  <2> SUFFICES ASSUME SupervisorInv, NEW s \in Services, NEW p \in Pids
               PROVE  (running[s] = p \/ (waited = p /\ s = Order[next]))
                        <=> (proc[p].service = s /\ proc[p].state \in {"running", "exited"})
    BY DEF TrackedExactly
  <2>1. running[s] = p => proc[p].service = s /\ Live(p)
    BY DEF SupervisorInv, KnownAreServices
  <2>2. waited = p => proc[p].service = Order[next] /\ Live(p)
    BY OrderFacts DEF SupervisorInv, WaitedIsOneshot
  <2>3. Live(p) /\ proc[p].service = s => running[s] = p \/ waited = p
    BY DEF SupervisorInv, ServicesAreKnown
  <2> QED BY <2>1, <2>2, <2>3 DEF Live
<1> QED BY <1>1, SupervisorAlways, PTL

\* While a oneshot runs, nothing that depends on it runs: run_oneshot() is
\* waited for at its place in the order, and what depends on it comes later.
THEOREM DependentsWaitForOneshots == Spec => []DependentsWait
<1>1. SupervisorInv => DependentsWait
  <2> SUFFICES ASSUME SupervisorInv, NEW p \in Pids, NEW q \in Pids,
                      proc[p].state = "running", proc[q].state = "running",
                      proc[p].service # NoService, proc[q].service # NoService,
                      kind[proc[p].service] = "Oneshot",
                      proc[p].service \in depends_on[proc[q].service]
               PROVE  FALSE
    BY DEF DependentsWait
  <2>1. PICK s, t : s = proc[p].service /\ t = proc[q].service
    OBVIOUS
  <2>2. s \in Services /\ t \in Services
    <3>1. proc[p] \in Records /\ proc[q] \in Records
      BY DEF SupervisorInv, SupervisorTypeOK
    <3> QED BY <2>1, <3>1 DEF Records
  <2>3. Live(p) /\ Live(q)
    BY DEF Live
  <2>4. waited = p
    BY <2>1, <2>2, <2>3 DEF SupervisorInv, ServicesAreKnown, KnownAreServices
  <2>5. pc = "wait" /\ next \in DOMAIN Order /\ s = Order[next]
    BY <2>1, <2>4, OrderFacts DEF SupervisorInv, SupervisorTypeOK, WaitedIsOneshot
  <2>6. PICK i \in DOMAIN Order : Order[i] = t
    BY <2>2, OrderFacts
  <2>7. next < i
    BY <2>1, <2>5, <2>6, OrderFacts
  <2>8. q # p
    <3>1. i # next
      BY <2>5, <2>6, <2>7, OrderFacts
    <3> QED BY <2>1, <2>5, <2>6, <3>1, OrderFacts
  <2>9. running[t] = q
    BY <2>1, <2>2, <2>3, <2>4, <2>8 DEF SupervisorInv, ServicesAreKnown
  <2>10. i < next
    BY <2>5, <2>6, <2>9, OrderFacts DEF SupervisorInv, Progress
  <2> QED BY <2>5, <2>7, <2>10, OrderFacts
<1> QED BY <1>1, SupervisorAlways, PTL

\* When shutdown_sequence() cuts the power, no process of a service is alive,
\* nor exited and unreaped: what is left of a service is at most a record of a
\* spawn that failed.
THEOREM NoServiceOutlivesShutdown == Spec => []AllStopped
<1>1. SupervisorInv => AllStopped
  <2> SUFFICES ASSUME SupervisorInv, pc = "off", NEW p \in Pids, proc[p].service # NoService
               PROVE  proc[p].state = "stuck"
    BY DEF AllStopped
  <2>1. PICK s : s = proc[p].service
    OBVIOUS
  <2>2. proc[p] \in Records
    BY DEF SupervisorInv, SupervisorTypeOK
  <2>3. s \in Services
    BY <2>1, <2>2 DEF Records
  <2>4. PICK i \in DOMAIN Order : Order[i] = s
    BY <2>3, OrderFacts
  <2>5. i + next > Len(Order) + 1
    BY OrderFacts DEF SupervisorInv, Progress
  <2>6. running[s] = NoPid
    BY <2>4, <2>5 DEF SupervisorInv, Progress
  <2>7. ~ Live(p)
    BY <2>1, <2>3, <2>6, UnknownIsDead
  <2>8. proc[p].state # "free"
    BY DEF SupervisorInv, ServiceRecords
  <2> QED BY <2>2, <2>7, <2>8 DEF Live, Records
<1> QED BY <1>1, SupervisorAlways, PTL

\* shutdown_sequence() stops a service only after every service that depends
\* on it.
THEOREM DependentsStopFirst == Spec => StopsDependentsFirst
<1>1. ASSUME SupervisorInv, [Next]_vars, NEW s \in Services, NEW t \in Services,
             pc = "stop", running[s] # NoPid, running'[s] = NoPid, s \in depends_on[t]
      PROVE  running'[t] = NoPid
  <2>1. Stop
    <3>1. ~ UNCHANGED running
      BY <1>1
    <3> QED BY <1>1, <3>1 DEF Next, InitStep, RunOneshot, OneshotFinished, StartDaemon,
              EnterSupervise, Poll, Reap, Sleep, Wake, PowerOff, ProcessSpawns, ProcessReaps,
              ProcessTerminates, ProcessExits, RequestPowerEvent, Runs, vars
  <2>2. PICK stopped, i :
          /\ stopped \in Services /\ i \in DOMAIN Order
          /\ stopped = Order[i] /\ i + next = Len(Order) + 1
          /\ running' = [running EXCEPT ![stopped] = NoPid]
    BY <1>1, <2>1, StopPosition
  <2>3. running \in [Services -> Pids \cup {NoPid}] /\ next \in 1 .. (Len(Order) + 1)
    BY <1>1 DEF SupervisorInv, SupervisorTypeOK
  <2>4. s = stopped
    BY <1>1, <2>2, <2>3
  <2>5. PICK j \in DOMAIN Order : Order[j] = t
    BY OrderFacts
  <2>6. i < j
    BY <1>1, <2>2, <2>4, <2>5, OrderFacts
  <2>7. j + next > Len(Order) + 1
    BY <2>2, <2>3, <2>6, OrderFacts
  <2>8. running[t] = NoPid
    BY <1>1, <2>5, <2>7 DEF SupervisorInv, Progress
  <2> QED BY <2>2, <2>3, <2>8
<1> DEFINE InOrder ==
      \A s, t \in Services :
        /\ pc = "stop" /\ running[s] # NoPid /\ running'[s] = NoPid
        /\ s \in depends_on[t]
        => running'[t] = NoPid
<1>2. SupervisorInv /\ [Next]_vars => [InOrder]_vars
  BY <1>1
<1> QED BY <1>2, SupervisorAlways, PTL DEF Spec, StopsDependentsFirst
=============================================================================
