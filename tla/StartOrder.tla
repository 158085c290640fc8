----------------------------- MODULE StartOrder -----------------------------
(***************************************************************************)
(* start_order() of init/src/main.rs: repeated passes over the service     *)
(* table append every service whose dependencies have all been appended;   *)
(* a pass without progress appends the rest as declared.                   *)
(***************************************************************************)
EXTENDS Integers, Sequences, FiniteSets, SequencesExt

CONSTANTS
  N,         \* length of SERVICES; service i is the i-th that is declared
  Missing    \* a dependency that names no declared service

Services == 1 .. N

ASSUME StartOrderAssumption == N \in Nat /\ Missing \notin Services

VARIABLES
  depends_on,    \* Service.depends_on, fixed
  started,       \* the services appended with their dependencies resolved
  order,         \* the result so far
  index,         \* position of the for loop over SERVICES
  progressed,
  done           \* the function has returned

vars == <<depends_on, started, order, index, progressed, done>>

Init ==
  /\ depends_on \in [Services -> SUBSET (Services \cup {Missing})]
  /\ started = {}
  /\ order = <<>>
  /\ index = 1
  /\ progressed = FALSE
  /\ done = (N = 0)

\* Mutation: one resolved dependency is enough.
Resolved_Any(s) == depends_on[s] = {} \/ depends_on[s] \cap started # {}

Resolved(s) == depends_on[s] \subseteq started

\* One iteration of the for loop.
Visit ==
  /\ ~ done /\ index <= N
  /\ IF index \notin started /\ Resolved(index)
     THEN /\ started' = started \cup {index}
          /\ order' = Append(order, index)
          /\ progressed' = TRUE
     ELSE UNCHANGED <<started, order, progressed>>
  /\ index' = index + 1
  /\ UNCHANGED <<depends_on, done>>

\* Mutation: a pass without progress does not end the loop.
EndOfPass_Retries ==
  /\ ~ done /\ index = N + 1
  /\ order' = order
  /\ done' = (Len(order) >= N)
  /\ index' = 1
  /\ progressed' = FALSE
  /\ UNCHANGED <<depends_on, started>>

\* One iteration of the fallback loop, which does not add to `started'.
AppendRest(rest, s) == IF s \in started THEN rest ELSE Append(rest, s)

\* After the for loop: the fallback, the end of the while loop, or one more
\* pass.
EndOfPass ==
  /\ ~ done /\ index = N + 1
  /\ order' = IF progressed THEN order
              ELSE FoldLeft(AppendRest, order, [i \in 1 .. N |-> i])
  /\ done' = (~ progressed \/ Len(order) >= N)
  /\ index' = 1
  /\ progressed' = FALSE
  /\ UNCHANGED <<depends_on, started>>

Next == Visit \/ EndOfPass
Spec == Init /\ [][Next]_vars /\ WF_vars(Next)

-----------------------------------------------------------------------------
\* Positions before the one of the i-th service.
Before(i) == {order[j] : j \in 1 .. (i - 1)}

\* The services whose dependencies, and theirs in turn, are all declared and
\* free of cycles: no set of other services contains a dependency of each of
\* its members that could be blamed for not starting.
Resolvable ==
  UNION {S \in SUBSET Services :
           /\ \A s \in S : depends_on[s] \subseteq S
           /\ \A C \in SUBSET S : C # {} => \E s \in C : depends_on[s] \cap C = {}}

\* Every declared service is started exactly once, mistakes in the table
\* included, and after everything it depends on whenever that is possible at
\* all: a missing or cyclic dependency elsewhere in the table does not disturb
\* it, and delays the services it concerns behind all others.
DependenciesFirst ==
  done => /\ Len(order) = N /\ {order[i] : i \in 1 .. Len(order)} = Services
          /\ \A i \in 1 .. Len(order) :
               IF order[i] \in Resolvable THEN depends_on[order[i]] \subseteq Before(i)
               ELSE Resolvable \subseteq Before(i)

\* A mistake in the table delays a service but never hangs boot.
Terminates == <>done
=============================================================================
