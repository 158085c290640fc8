-------------------------- MODULE StartOrderProofs --------------------------
(***************************************************************************)
(* start_order() orders the services of every table, mistakes included.    *)
(***************************************************************************)
EXTENDS StartOrder, LoopLemmas, SequenceTheorems

\* The fallback loop over SERVICES.
Fallen(o, services) == FoldLeft(AppendRest, o, services)

\* F[i] is what holds after i iterations.
LEMMA FallbackRuns ==
  ASSUME NEW M, NEW m \in M, NEW n \in Nat, NEW pages, DOMAIN pages = 1 .. n,
         \A w \in M, i \in 1 .. n : AppendRest(w, pages[i]) \in M,
         NEW F, m \in F[0],
         \A w \in M, i \in 1 .. n : w \in F[i - 1] => AppendRest(w, pages[i]) \in F[i]
  PROVE  Fallen(m, pages) \in F[n]
<1>1. PICK op : op = [x \in M \X (1 .. n) |-> AppendRest(x[1], pages[x[2]])]
  OBVIOUS
<1>2. op \in [M \X (1 .. n) -> M] /\ n \in Nat /\ DOMAIN pages = 1 .. n
  BY <1>1
<1> DEFINE Equation(it) ==
      it = [s \in SUBSET (DOMAIN pages) |->
              IF s = {} THEN m ELSE AppendRest(it[s \ {Max(s)}], pages[Max(s)])]
<1>3. \E it : Equation(it)
  <2>1. PICK it \in [SUBSET (1 .. n) -> M] : Iterates(it, n, op, m)
    BY <1>2, FoldExists
  <2>2. ASSUME NEW s \in SUBSET (1 .. n), s # {}
        PROVE  op[<<it[s \ {Max(s)}], Max(s)>>] = AppendRest(it[s \ {Max(s)}], pages[Max(s)])
    <3>1. Max(s) \in 1 .. n
      BY <2>2, <1>2, MaxInInterval
    <3>2. it[s \ {Max(s)}] \in M
      BY <2>1
    <3>3. PICK x : x = <<it[s \ {Max(s)}], Max(s)>>
      OBVIOUS
    <3>4. x \in M \X (1 .. n) /\ x[1] = it[s \ {Max(s)}] /\ x[2] = Max(s)
      BY <3>1, <3>2, <3>3
    <3>5. op[x] = AppendRest(x[1], pages[x[2]])
      BY <1>1, <3>4
    <3> QED BY <3>3, <3>4, <3>5
  <2>3. \A s \in SUBSET (1 .. n) :
          it[s] = IF s = {} THEN m ELSE AppendRest(it[s \ {Max(s)}], pages[Max(s)])
    BY <2>1, <2>2 DEF Iterates
  <2>4. it = [s \in SUBSET (DOMAIN pages) |->
               IF s = {} THEN m ELSE AppendRest(it[s \ {Max(s)}], pages[Max(s)])]
    BY <1>2, <2>1, <2>3
  <2> QED BY <2>4
<1>4. Equation(CHOOSE it : Equation(it))
  BY <1>3
<1>5. Fallen(m, pages) = (CHOOSE it : Equation(it))[DOMAIN pages]
  BY DEF Fallen, FoldLeft, MapThenFoldSet
<1>6. PICK it : it = CHOOSE x : Equation(x)
  OBVIOUS
<1>7. Equation(it)
  BY <1>4, <1>6
<1>8. PICK w : w = [i \in 0 .. n |-> it[1 .. i]]
  OBVIOUS
<1>9. w[0] = m
  <2>1. 1 .. 0 = {} /\ {} \in SUBSET (1 .. n)
    OBVIOUS
  <2> QED BY <1>2, <1>7, <1>8, <2>1
<1>10. ASSUME NEW i \in 1 .. n PROVE w[i] = AppendRest(w[i - 1], pages[i])
  <2>1. Max(1 .. i) = i
    <3>1. i \in Nat /\ i \in 1 .. i
      BY <1>2
    <3> QED BY <3>1, MaxOfTop
  <2>2. (1 .. i) \ {i} = 1 .. (i - 1) /\ 1 .. i # {} /\ 1 .. i \in SUBSET (1 .. n)
    <3>1. n \in Nat /\ i \in Nat /\ 1 <= i /\ i <= n
      BY <1>2
    <3>2. (1 .. i) \ {i} = 1 .. (i - 1)
      BY <3>1
    <3>3. 1 \in 1 .. i
      BY <3>1
    <3>4. 1 .. i \in SUBSET (1 .. n)
      BY <3>1
    <3> QED BY <3>2, <3>3, <3>4
  <2>3. w[i] = it[1 .. i] /\ w[i - 1] = it[1 .. (i - 1)]
    BY <1>2, <1>8
  <2>4. it[1 .. i] = AppendRest(it[(1 .. i) \ {Max(1 .. i)}], pages[Max(1 .. i)])
    BY <1>2, <1>7, <2>2
  <2> QED BY <2>1, <2>2, <2>3, <2>4
<1>11. \A i \in 0 .. n : w[i] \in M
  <2> DEFINE S == {i \in 0 .. n : w[i] \in M}
  <2>1. 0 \in S /\ \A i \in 1 .. n : i - 1 \in S => i \in S
    BY <1>2, <1>9, <1>10
  <2>2. \A i \in 0 .. n : i \in S
    <3> HIDE DEF S
    <3> QED BY <1>2, <2>1, LoopInduction
  <2> QED BY <2>2
<1>12. w[n] = Fallen(m, pages)
  <2>1. w[n] = it[1 .. n]
    BY <1>2, <1>8
  <2> QED BY <1>2, <1>5, <1>6, <2>1
<1>13. \A i \in 0 .. n : w[i] \in F[i]
  <2> DEFINE S == {i \in 0 .. n : w[i] \in F[i]}
  <2>1. 0 \in S
    BY <1>9
  <2>2. ASSUME NEW i \in 1 .. n, i - 1 \in S PROVE i \in S
    <3>1. i - 1 \in 0 .. n /\ w[i - 1] \in F[i - 1]
      BY <2>2
    <3>2. w[i - 1] \in M
      BY <1>11, <3>1
    <3> QED BY <1>10, <3>1, <3>2
  <2>3. \A i \in 0 .. n : i \in S
    <3> HIDE DEF S
    <3> QED BY <2>1, <2>2, LoopInduction
  <2> QED BY <2>3
<1>14. w[n] \in F[n]
  BY <1>13
<1> QED BY <1>12, <1>14

-----------------------------------------------------------------------------
(***************************************************************************)
(* The inductive invariant.  Until the function returns, `order' holds the *)
(* services of `started', each once and after what it depends on; and as   *)
(* long as a pass has made no progress, no service it has passed could     *)
(* have been started.  The latter says at the end of such a pass that what *)
(* is left cannot be resolved.                                             *)
(***************************************************************************)
OrderTypeOK ==
  /\ depends_on \in [Services -> SUBSET (Services \cup {Missing})]
  /\ started \in SUBSET Services /\ order \in Seq(Services)
  /\ index \in 1 .. (N + 1)

Distinct(o) == \A i, j \in 1 .. Len(o) : o[i] = o[j] => i = j

Appended ==
  /\ Distinct(order)
  /\ \A s : s \in started <=> \E i \in 1 .. Len(order) : order[i] = s
  /\ \A i \in 1 .. Len(order) : depends_on[order[i]] \subseteq Before(i)

NoneLeft == ~ progressed => \A i \in 1 .. (index - 1) : i \in started \/ ~ Resolved(i)

OrderInv == OrderTypeOK /\ (~ done => Appended /\ NoneLeft) /\ DependenciesFirst

-----------------------------------------------------------------------------
LEMMA IntervalSize ==
  ASSUME NEW n \in Nat
  PROVE  IsFiniteSet(1 .. n) /\ Cardinality(1 .. n) = n
<1>1. Cardinality(1 .. n) = IF 1 > n THEN 0 ELSE n - 1 + 1
  BY FS_Interval
<1>2. IsFiniteSet(1 .. n)
  BY FS_Interval
<1> QED BY <1>1, <1>2

\* An order of distinct services that has them all has length N.
LEMMA OrderLength ==
  ASSUME NEW o \in Seq(Services), Distinct(o), \A s \in Services : \E i \in 1 .. Len(o) : o[i] = s
  PROVE  Len(o) = N /\ {o[i] : i \in 1 .. Len(o)} = Services
<1>1. Len(o) \in Nat /\ N \in Nat /\ o \in [1 .. Len(o) -> Services]
  BY StartOrderAssumption
<1>2. PICK k, g : k = Len(o) /\ g = o
  OBVIOUS
<1>3. IsFiniteSet(1 .. k) /\ Cardinality(1 .. k) = k /\ Cardinality(1 .. N) = N
  BY <1>1, <1>2, IntervalSize
<1>4. /\ g \in [1 .. k -> Services] /\ \A x, y \in 1 .. k : g[x] = g[y] => x = y
      /\ \A y \in Services : \E x \in 1 .. k : g[x] = y
  BY <1>1, <1>2 DEF Distinct
<1>5. Cardinality(Services) = Cardinality(1 .. k)
  BY <1>3, <1>4, ImageSize
<1>6. Len(o) = N
  BY <1>2, <1>3, <1>5 DEF Services
<1> QED BY <1>1, <1>6

\* N distinct services are all of them.
LEMMA LongOrder ==
  ASSUME NEW o \in Seq(Services), Distinct(o), Len(o) >= N
  PROVE  \A s \in Services : \E i \in 1 .. Len(o) : o[i] = s
<1>1. Len(o) \in Nat /\ N \in Nat /\ o \in [1 .. Len(o) -> Services]
  BY StartOrderAssumption
<1>2. PICK k, g, R : k = Len(o) /\ g = o /\ R = {o[i] : i \in 1 .. Len(o)}
  OBVIOUS
<1>3. /\ IsFiniteSet(1 .. k) /\ Cardinality(1 .. k) = k
      /\ IsFiniteSet(Services) /\ Cardinality(Services) = N
  BY <1>1, <1>2, IntervalSize DEF Services
<1>4. /\ g \in [1 .. k -> R] /\ \A x, y \in 1 .. k : g[x] = g[y] => x = y
      /\ \A y \in R : \E x \in 1 .. k : g[x] = y
  BY <1>1, <1>2 DEF Distinct
<1>5. Cardinality(R) = k
  BY <1>3, <1>4, ImageSize
<1>6. R \in SUBSET Services
  BY <1>1, <1>2
<1>7. Cardinality(R) <= N /\ (N = Cardinality(R) => Services = R)
  BY <1>3, <1>6, FS_Subset
<1>8. Services = R
  <2>1. k \in Nat /\ k >= N /\ k <= N
    BY <1>1, <1>2, <1>5, <1>7
  <2>2. k = N
    BY <1>1, <2>1
  <2> QED BY <1>5, <1>7, <2>2
<1> QED BY <1>2, <1>8

\* What has been started can be resolved.
LEMMA StartedResolvable ==
  ASSUME OrderTypeOK, Appended
  PROVE  started \subseteq Resolvable
<1>1. \A s \in started : depends_on[s] \subseteq started
  BY DEF Appended, Before, OrderTypeOK
<1>2. ASSUME NEW C \in SUBSET started, C # {} PROVE \E s \in C : depends_on[s] \cap C = {}
  <2>1. PICK at : at = {i \in 1 .. Len(order) : order[i] \in C}
    OBVIOUS
  <2>2. at \subseteq Nat /\ at # {}
    <3>1. PICK c : c \in C /\ c \in started
      BY <1>2
    <3>2. PICK i \in 1 .. Len(order) : order[i] = c
      BY <3>1 DEF Appended
    <3> QED BY <2>1, <3>1, <3>2
  <2>3. PICK i : i = Min(at)
    OBVIOUS
  <2>4. i \in at /\ \A j \in at : i <= j
    BY <2>2, <2>3, MinIsLeast
  <2>5. i \in 1 .. Len(order) /\ order[i] \in C /\ Len(order) \in Nat
    BY <2>1, <2>4 DEF OrderTypeOK
  <2>6. ASSUME NEW d \in Before(i) PROVE d \notin C
    <3>1. PICK j \in 1 .. (i - 1) : d = order[j]
      BY DEF Before
    <3>2. j \in 1 .. Len(order) /\ ~ (i <= j)
      BY <2>5
    <3> QED BY <2>1, <2>4, <3>1, <3>2
  <2> QED BY <2>5, <2>6 DEF Appended
<1>3. started \in SUBSET Services
  BY DEF OrderTypeOK
<1> QED BY <1>1, <1>2, <1>3 DEF Resolvable

\* When no service is left that could be started, nothing else can be resolved.
LEMMA RestUnresolvable ==
  ASSUME OrderTypeOK, \A s \in Services : s \in started \/ ~ Resolved(s)
  PROVE  Resolvable \subseteq started
<1> SUFFICES ASSUME NEW S \in SUBSET Services, \A s \in S : depends_on[s] \subseteq S,
                    \A C \in SUBSET S : C # {} => \E s \in C : depends_on[s] \cap C = {}
             PROVE  S \subseteq started
  BY DEF Resolvable
<1>1. PICK C : C = S \ started
  OBVIOUS
<1>2. ASSUME C # {} PROVE FALSE
  <2>1. PICK s \in C : depends_on[s] \cap C = {}
    BY <1>1, <1>2
  <2>2. s \in S /\ s \in Services /\ s \notin started /\ depends_on[s] \subseteq S
    BY <1>1, <2>1
  <2>3. Resolved(s)
    BY <1>1, <2>1, <2>2 DEF Resolved
  <2> QED BY <2>2, <2>3
<1> QED BY <1>1, <1>2

-----------------------------------------------------------------------------
\* The order after i iterations of the fallback: what was there comes first.
Rest(o, i) ==
  /\ o \in Seq(Services) /\ Distinct(o) /\ Len(order) <= Len(o)
  /\ \A j \in 1 .. Len(order) : o[j] = order[j]
  /\ \A j \in (Len(order) + 1) .. Len(o) : o[j] \notin started /\ o[j] <= i
  /\ \A s \in 1 .. i : s \in started \/ \E j \in 1 .. Len(o) : o[j] = s

LEMMA RestStep ==
  ASSUME OrderTypeOK, Appended, NEW i \in 1 .. N, NEW w, Rest(w, i - 1)
  PROVE  Rest(AppendRest(w, i), i)
<1>n. N \in Nat /\ i \in Nat /\ i \in Services
  BY StartOrderAssumption DEF Services
<1>w. /\ w \in Seq(Services) /\ Len(w) \in Nat /\ Len(order) \in Nat /\ Len(order) <= Len(w)
      /\ \A j \in 1 .. Len(w) : w[j] \in Nat /\ w[j] \in Services
  BY <1>n DEF Rest, OrderTypeOK, Services
<1>1. CASE i \in started
  <2>1. AppendRest(w, i) = w
    BY <1>1 DEF AppendRest
  <2>2. \A j \in (Len(order) + 1) .. Len(w) : w[j] \notin started /\ w[j] <= i
    <3>1. ASSUME NEW j \in (Len(order) + 1) .. Len(w) PROVE w[j] \notin started /\ w[j] <= i
      <4>1. w[j] \notin started /\ w[j] <= i - 1 /\ w[j] \in Nat
        BY <1>w DEF Rest
      <4> QED BY <1>n, <4>1
    <3> QED BY <3>1
  <2>3. ASSUME NEW s \in 1 .. i PROVE s \in started \/ \E j \in 1 .. Len(w) : w[j] = s
    <3>1. s = i \/ s \in 1 .. (i - 1)
      BY <1>n
    <3> QED BY <1>1, <3>1 DEF Rest
  <2>4. Rest(w, i)
    BY <2>2, <2>3 DEF Rest
  <2> QED BY <2>1, <2>4
<1>2. CASE i \notin started
  <2>1. PICK x : x = Append(w, i)
    OBVIOUS
  <2>2. AppendRest(w, i) = x
    BY <1>2, <2>1 DEF AppendRest
  <2>3. /\ x \in Seq(Services) /\ Len(x) = Len(w) + 1 /\ x[Len(w) + 1] = i
        /\ \A j \in 1 .. Len(w) : x[j] = w[j]
    BY <1>n, <1>w, <2>1
  <2>4. ASSUME NEW j \in 1 .. Len(w) PROVE w[j] # i
    <3>1. CASE j <= Len(order)
      <4>1. j \in 1 .. Len(order)
        BY <1>w, <3>1
      <4>2. w[j] \in started
        BY <4>1 DEF Rest, Appended
      <4> QED BY <1>2, <4>2
    <3>2. CASE ~ (j <= Len(order))
      <4>1. j \in (Len(order) + 1) .. Len(w)
        BY <1>w, <3>2
      <4>2. w[j] <= i - 1 /\ w[j] \in Nat
        BY <1>w, <4>1 DEF Rest
      <4> QED BY <1>n, <4>2
    <3> QED BY <3>1, <3>2
  <2>5. Distinct(x)
    <3> SUFFICES ASSUME NEW a \in 1 .. Len(x), NEW b \in 1 .. Len(x), x[a] = x[b]
                 PROVE  a = b
      BY DEF Distinct
    <3>1. (a = Len(w) + 1 \/ a \in 1 .. Len(w)) /\ (b = Len(w) + 1 \/ b \in 1 .. Len(w))
      BY <1>w, <2>3
    <3>2. Distinct(w)
      BY DEF Rest
    <3> QED BY <2>3, <2>4, <3>1, <3>2 DEF Distinct
  <2>6. \A j \in 1 .. Len(order) : x[j] = order[j]
    <3>1. \A j \in 1 .. Len(order) : j \in 1 .. Len(w)
      BY <1>w
    <3> QED BY <2>3, <3>1 DEF Rest
  <2>7. ASSUME NEW j \in (Len(order) + 1) .. Len(x) PROVE x[j] \notin started /\ x[j] <= i
    <3>1. CASE j = Len(w) + 1
      BY <1>n, <1>2, <2>3, <3>1
    <3>2. CASE j # Len(w) + 1
      <4>1. j \in (Len(order) + 1) .. Len(w) /\ j \in 1 .. Len(w)
        BY <1>w, <2>3, <3>2
      <4>2. w[j] \notin started /\ w[j] <= i - 1 /\ w[j] \in Nat
        BY <1>w, <4>1 DEF Rest
      <4> QED BY <1>n, <2>3, <4>1, <4>2
    <3> QED BY <3>1, <3>2
  <2>8. ASSUME NEW s \in 1 .. i PROVE s \in started \/ \E j \in 1 .. Len(x) : x[j] = s
    <3>1. CASE s = i
      <4>1. Len(w) + 1 \in 1 .. Len(x)
        BY <1>w, <2>3
      <4> QED BY <2>3, <3>1, <4>1
    <3>2. CASE s # i
      <4>1. s \in 1 .. (i - 1)
        BY <1>n, <3>2
      <4>2. \A j \in 1 .. Len(w) : j \in 1 .. Len(x)
        BY <1>w, <2>3
      <4> QED BY <2>3, <4>1, <4>2 DEF Rest
    <3> QED BY <3>1, <3>2
  <2>9. Len(order) <= Len(x)
    BY <1>w, <2>3
  <2>10. Rest(x, i)
    BY <2>3, <2>5, <2>6, <2>7, <2>8, <2>9 DEF Rest
  <2> QED BY <2>2, <2>10
<1> QED BY <1>1, <1>2

LEMMA FallbackOrder ==
  ASSUME OrderTypeOK, Appended
  PROVE  Rest(FoldLeft(AppendRest, order, [i \in 1 .. N |-> i]), N)
<1> DEFINE F == [i \in 0 .. N |-> {o \in Seq(Services) : Rest(o, i)}]
<1>1. PICK M, services : M = Seq(Services) /\ services = [i \in 1 .. N |-> i]
  OBVIOUS
<1>2. N \in Nat /\ DOMAIN services = 1 .. N /\ order \in M /\ \A i \in 1 .. N : services[i] = i
  BY <1>1, StartOrderAssumption DEF OrderTypeOK
<1>3. ASSUME NEW w \in M, NEW i \in 1 .. N PROVE AppendRest(w, services[i]) \in M
  <2>1. i \in Services /\ services[i] = i
    BY <1>2 DEF Services
  <2> QED BY <1>1, <1>3, <2>1 DEF AppendRest
<1>4. order \in F[0]
  <2>1. Rest(order, 0)
    BY DEF OrderTypeOK, Appended, Rest
  <2> QED BY <1>2, <2>1 DEF OrderTypeOK
<1>5. ASSUME NEW w \in M, NEW i \in 1 .. N, w \in F[i - 1]
      PROVE  AppendRest(w, services[i]) \in F[i]
  <2>1. services[i] = i /\ i - 1 \in 0 .. N /\ i \in 0 .. N
    BY <1>2
  <2>2. Rest(w, i - 1)
    BY <1>5, <2>1
  <2>3. Rest(AppendRest(w, i), i)
    BY <2>2, RestStep
  <2> QED BY <1>1, <1>3, <2>1, <2>3
<1>6. Fallen(order, services) \in F[N]
  <2> HIDE DEF F
  <2> QED BY <1>2, <1>3, <1>4, <1>5, FallbackRuns
<1>7. Rest(Fallen(order, services), N)
  BY <1>2, <1>6
<1> QED BY <1>1, <1>7 DEF Fallen

-----------------------------------------------------------------------------
LEMMA VisitStep ==
  ASSUME OrderInv, Visit
  PROVE  OrderInv'
<1>t. /\ OrderTypeOK /\ Appended /\ NoneLeft
      /\ order \in Seq(Services) /\ Len(order) \in Nat /\ N \in Nat
      /\ index \in 1 .. N /\ index \in Services
  BY StartOrderAssumption DEF OrderInv, OrderTypeOK, Visit, Services
<1>d. ~ done' /\ index' = index + 1 /\ depends_on' = depends_on
  BY DEF Visit
<1>f. DependenciesFirst'
  BY <1>d DEF DependenciesFirst
<1>i. index' \in 1 .. (N + 1)
  BY <1>t, <1>d
<1>1. CASE index \notin started /\ Resolved(index)
  <2>1. started' = started \cup {index} /\ order' = Append(order, index) /\ progressed'
    BY <1>1 DEF Visit
  <2>2. /\ order' \in Seq(Services) /\ Len(order') = Len(order) + 1 /\ order'[Len(order) + 1] = index
        /\ \A i \in 1 .. Len(order) : order'[i] = order[i]
    BY <1>t, <2>1
  <2>3. OrderTypeOK'
    BY <1>t, <1>d, <1>i, <2>1, <2>2 DEF OrderTypeOK
  <2>4. \A i : i \in 1 .. Len(order') <=> i = Len(order) + 1 \/ i \in 1 .. Len(order)
    BY <1>t, <2>2
  <2>5. \A s : s \in started <=> \E i \in 1 .. Len(order) : order[i] = s
    BY <1>t DEF Appended
  <2>6. Distinct(order')
    <3> SUFFICES ASSUME NEW a \in 1 .. Len(order'), NEW b \in 1 .. Len(order'), order'[a] = order'[b]
                 PROVE  a = b
      BY DEF Distinct
    <3>1. (a = Len(order) + 1 \/ a \in 1 .. Len(order)) /\ (b = Len(order) + 1 \/ b \in 1 .. Len(order))
      BY <2>4
    <3>2. Distinct(order)
      BY <1>t DEF Appended
    <3> QED BY <1>1, <2>2, <2>5, <3>1, <3>2 DEF Distinct
  <2>7. \A s : s \in started' <=> \E i \in 1 .. Len(order') : order'[i] = s
    BY <2>1, <2>2, <2>4, <2>5
  <2>8. ASSUME NEW i \in 1 .. Len(order') PROVE depends_on'[order'[i]] \subseteq Before(i)'
    <3>1. \A j \in 1 .. (i - 1) : j \in 1 .. Len(order) /\ order'[j] = order[j]
      BY <1>t, <2>2
    <3>2. Before(i)' = Before(i)
      BY <3>1 DEF Before
    <3>3. CASE i \in 1 .. Len(order)
      BY <1>t, <1>d, <2>2, <3>2, <3>3 DEF Appended
    <3>4. CASE i = Len(order) + 1
      <4>1. Before(i) = started
        <5>1. i - 1 = Len(order)
          BY <1>t, <3>4
        <5>2. \A s : s \in Before(i) <=> s \in started
          BY <2>5, <5>1 DEF Before
        <5> QED BY <5>2
      <4> QED BY <1>1, <1>d, <2>2, <3>2, <3>4, <4>1 DEF Resolved
    <3> QED BY <2>4, <3>3, <3>4
  <2>9. Appended'
    BY <2>6, <2>7, <2>8 DEF Appended
  <2>10. NoneLeft'
    BY <2>1 DEF NoneLeft
  <2> QED BY <1>f, <2>3, <2>9, <2>10 DEF OrderInv
<1>2. CASE ~ (index \notin started /\ Resolved(index))
  <2>1. UNCHANGED <<started, order, progressed>>
    BY <1>2 DEF Visit
  <2>2. OrderTypeOK'
    BY <1>t, <1>d, <1>i, <2>1 DEF OrderTypeOK
  <2>3. Appended'
    BY <1>t, <1>d, <2>1 DEF Appended, Before
  <2>4. NoneLeft'
    <3> SUFFICES ASSUME ~ progressed, NEW i \in 1 .. (index' - 1)
                 PROVE  i \in started' \/ ~ Resolved(i)'
      BY <2>1 DEF NoneLeft
    <3>1. i = index \/ i \in 1 .. (index - 1)
      BY <1>t, <1>d
    <3>2. i \in started \/ ~ Resolved(i)
      BY <1>t, <1>2, <3>1 DEF NoneLeft
    <3> QED BY <1>d, <2>1, <3>2 DEF Resolved
  <2> QED BY <1>f, <2>2, <2>3, <2>4 DEF OrderInv
<1> QED BY <1>1, <1>2

LEMMA EndOfPassStep ==
  ASSUME OrderInv, EndOfPass
  PROVE  OrderInv'
<1>t. /\ OrderTypeOK /\ Appended /\ NoneLeft /\ Distinct(order)
      /\ order \in Seq(Services) /\ Len(order) \in Nat /\ N \in Nat /\ index = N + 1
  BY StartOrderAssumption DEF OrderInv, OrderTypeOK, EndOfPass, Appended
<1>u. UNCHANGED <<depends_on, started>> /\ index' = 1 /\ ~ progressed'
  BY DEF EndOfPass
<1>r. Resolvable' = Resolvable
  BY <1>u DEF Resolvable
<1>n. NoneLeft'
  BY <1>u DEF NoneLeft
<1>s. started \subseteq Resolvable
  BY <1>t, StartedResolvable
<1>1. CASE progressed /\ ~ (Len(order) >= N)
  <2>1. order' = order /\ ~ done'
    BY <1>1 DEF EndOfPass
  <2>2. OrderTypeOK'
    BY <1>t, <1>u, <2>1 DEF OrderTypeOK
  <2>3. Appended'
    <3>1. \A i : Before(i)' = Before(i)
      BY <2>1 DEF Before
    <3>2. depends_on' = depends_on /\ started' = started
      BY <1>u
    <3> QED BY <1>t, <2>1, <3>1, <3>2 DEF Appended
  <2>4. DependenciesFirst'
    BY <2>1 DEF DependenciesFirst
  <2> QED BY <1>n, <2>2, <2>3, <2>4 DEF OrderInv
<1>2. CASE progressed /\ Len(order) >= N
  <2>1. order' = order /\ done'
    BY <1>2 DEF EndOfPass
  <2>2. OrderTypeOK'
    BY <1>t, <1>u, <2>1 DEF OrderTypeOK
  <2>3. \A s \in Services : \E i \in 1 .. Len(order) : order[i] = s
    BY <1>t, <1>2, LongOrder
  <2>4. Len(order) = N /\ {order[i] : i \in 1 .. Len(order)} = Services
    BY <1>t, <2>3, OrderLength
  <2>5. ASSUME NEW i \in 1 .. Len(order)
        PROVE  order[i] \in Resolvable /\ depends_on[order[i]] \subseteq Before(i)
    BY <1>t, <1>s DEF Appended
  <2>6. \A i : Before(i)' = Before(i)
    BY <2>1 DEF Before
  <2>7. DependenciesFirst'
    BY <1>u, <1>r, <2>1, <2>4, <2>5, <2>6 DEF DependenciesFirst
  <2> QED BY <2>1, <2>2, <2>7 DEF OrderInv
<1>3. CASE ~ progressed
  <2>1. order' = FoldLeft(AppendRest, order, [i \in 1 .. N |-> i]) /\ done'
    BY <1>3 DEF EndOfPass
  <2>2. PICK o : o = order'
    OBVIOUS
  <2>3. Rest(o, N)
    BY <1>t, <2>1, <2>2, FallbackOrder
  <2>4. /\ o \in Seq(Services) /\ Distinct(o) /\ Len(order) <= Len(o) /\ Len(o) \in Nat
        /\ \A j \in 1 .. Len(order) : o[j] = order[j]
        /\ \A j \in (Len(order) + 1) .. Len(o) : o[j] \notin started
    BY <2>3 DEF Rest
  <2>5. \A s \in Services : \E i \in 1 .. Len(o) : o[i] = s
    <3>1. ASSUME NEW s \in Services PROVE s \in started \/ \E j \in 1 .. Len(o) : o[j] = s
      BY <2>3 DEF Rest, Services
    <3>2. ASSUME NEW s \in started PROVE \E j \in 1 .. Len(o) : o[j] = s
      <4>1. PICK j \in 1 .. Len(order) : order[j] = s
        BY <1>t DEF Appended
      <4>2. j \in 1 .. Len(o) /\ o[j] = s
        BY <1>t, <2>4, <4>1
      <4> QED BY <4>2
    <3> QED BY <3>1, <3>2
  <2>6. Len(o) = N /\ {o[i] : i \in 1 .. Len(o)} = Services
    BY <2>4, <2>5, OrderLength
  <2>7. Resolvable \subseteq started
    <3>1. \A s \in Services : s \in started \/ ~ Resolved(s)
      <4>1. index - 1 = N
        BY <1>t
      <4> QED BY <1>t, <1>3, <4>1 DEF NoneLeft, Services
    <3> QED BY <1>t, <3>1, RestUnresolvable
  <2>8. ASSUME NEW i \in 1 .. Len(o)
        PROVE  IF o[i] \in Resolvable THEN depends_on[o[i]] \subseteq {o[j] : j \in 1 .. (i - 1)}
               ELSE Resolvable \subseteq {o[j] : j \in 1 .. (i - 1)}
    <3>1. CASE i <= Len(order)
      <4>1. i \in 1 .. Len(order) /\ \A j \in 1 .. (i - 1) : j \in 1 .. Len(order)
        BY <1>t, <3>1
      <4>2. o[i] = order[i] /\ order[i] \in started
        BY <1>t, <2>4, <4>1 DEF Appended
      <4>3. Before(i) = {o[j] : j \in 1 .. (i - 1)}
        BY <2>4, <4>1 DEF Before
      <4> QED BY <1>t, <1>s, <4>1, <4>2, <4>3 DEF Appended
    <3>2. CASE ~ (i <= Len(order))
      <4>1. o[i] \notin Resolvable
        BY <1>t, <2>4, <2>7, <3>2
      <4>2. ASSUME NEW s \in Resolvable PROVE \E j \in 1 .. (i - 1) : o[j] = s
        <5>1. PICK j \in 1 .. Len(order) : order[j] = s
          BY <1>t, <2>7 DEF Appended
        <5>2. j \in 1 .. (i - 1) /\ o[j] = s
          BY <1>t, <2>4, <3>2, <5>1
        <5> QED BY <5>2
      <4> QED BY <4>1, <4>2
    <3> QED BY <3>1, <3>2
  <2>9. DependenciesFirst'
    <3>1. \A i : Before(i)' = {o[j] : j \in 1 .. (i - 1)}
      BY <2>2 DEF Before
    <3> QED BY <1>u, <1>r, <2>2, <2>6, <2>8, <3>1 DEF DependenciesFirst
  <2>10. OrderTypeOK'
    BY <1>t, <1>u, <2>2, <2>4 DEF OrderTypeOK
  <2> QED BY <2>1, <2>9, <2>10 DEF OrderInv
<1> QED BY <1>1, <1>2, <1>3

\* Whatever the table of services says, with any number of services: each one
\* is started once, after all it depends on if that can be, and no mistake in
\* the table delays a service it does not concern.
THEOREM OrderRespectsDependencies == Spec => []DependenciesFirst
<1>1. Init => OrderInv
  <2> SUFFICES ASSUME Init PROVE OrderInv
    OBVIOUS
  <2>n. N \in Nat
    BY StartOrderAssumption
  <2>1. OrderTypeOK
    BY <2>n DEF Init, OrderTypeOK
  <2>2. Appended
    BY DEF Init, Appended, Distinct
  <2>3. NoneLeft
    BY DEF Init, NoneLeft
  <2>4. ASSUME done PROVE Services = {}
    <3>1. N = 0
      BY <2>n, <2>4 DEF Init
    <3> QED BY <3>1 DEF Services
  <2>5. DependenciesFirst
    <3> SUFFICES ASSUME done
                 PROVE  /\ Len(order) = N /\ {order[i] : i \in 1 .. Len(order)} = Services
                        /\ \A i \in 1 .. Len(order) :
                             IF order[i] \in Resolvable THEN depends_on[order[i]] \subseteq Before(i)
                             ELSE Resolvable \subseteq Before(i)
      BY DEF DependenciesFirst
    <3>1. N = 0 /\ Len(order) = 0
      BY <2>n DEF Init
    <3> QED BY <2>4, <3>1
  <2> QED BY <2>1, <2>2, <2>3, <2>5 DEF OrderInv
<1>2. OrderInv /\ [Next]_vars => OrderInv'
  <2> SUFFICES ASSUME OrderInv, [Next]_vars PROVE OrderInv'
    OBVIOUS
  <2>1. CASE UNCHANGED vars
    <3>1. /\ OrderTypeOK' <=> OrderTypeOK
          /\ Appended' <=> Appended
          /\ NoneLeft' <=> NoneLeft
          /\ done' <=> done
      BY <2>1 DEF vars, OrderTypeOK, Appended, NoneLeft, Before, Resolved
    <3>2. DependenciesFirst'
      <4>1. Resolvable' = Resolvable
        BY <2>1 DEF vars, Resolvable
      <4>2. \A i : Before(i)' = Before(i)
        BY <2>1 DEF vars, Before
      <4>3. order' = order /\ depends_on' = depends_on /\ (done' <=> done)
        BY <2>1 DEF vars
      <4> QED BY <4>1, <4>2, <4>3 DEF OrderInv, DependenciesFirst
    <3> QED BY <3>1, <3>2 DEF OrderInv
  <2> QED BY <2>1, VisitStep, EndOfPassStep DEF Next
<1>3. OrderInv => DependenciesFirst
  BY DEF OrderInv
<1> QED BY <1>1, <1>2, <1>3, PTL DEF Spec
=============================================================================
