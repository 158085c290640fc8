----------------------------- MODULE LoopLemmas -----------------------------
(***************************************************************************)
(* What the proofs need to know of scans, loops and counting.  A scan of a *)
(* table or bitmap takes the first entry that qualifies, written Min(S) in *)
(* the models; a loop is a FoldLeft.                                       *)
(***************************************************************************)
EXTENDS Integers, FiniteSetsExt, FiniteSetTheorems, WellFoundedInduction, TLAPS

\* A non-empty set of naturals has a least element, and Min names it: the
\* first-fit scans find an entry that qualifies, and no earlier one does.
LEMMA MinIsLeast ==
  ASSUME NEW S, S \subseteq Nat, S # {}
  PROVE  Min(S) \in S /\ \A y \in S : Min(S) <= y
<1>1. PICK x \in S : \A y \in S : ~ (<<y, x>> \in OpToRel(<, Nat))
  BY WFMin, NatLessThanWellFounded
<1>2. ASSUME NEW y \in S PROVE x <= y
  <2>1. x \in Nat /\ y \in Nat
    OBVIOUS
  <2>2. ~ (<<y, x>> \in OpToRel(<, Nat))
    BY <1>1
  <2> QED BY <2>1, <2>2 DEF OpToRel
<1> QED BY <1>2 DEF Min

-----------------------------------------------------------------------------
(***************************************************************************)
(* Loops.                                                                  *)
(***************************************************************************)

\* What holds at first and is kept by every iteration holds throughout.
LEMMA LoopInduction ==
  ASSUME NEW n \in Nat, NEW S, 0 \in S, \A i \in 1 .. n : i - 1 \in S => i \in S
  PROVE  \A i \in 0 .. n : i \in S
<1> DEFINE Bad == {i \in 0 .. n : i \notin S}
<1> SUFFICES ASSUME Bad # {} PROVE FALSE
  OBVIOUS
<1>1. Min(Bad) \in Bad /\ \A i \in Bad : Min(Bad) <= i
  BY MinIsLeast
<1>2. PICK k : k = Min(Bad)
  OBVIOUS
<1>3. k \in 1 .. n /\ k \notin S
  BY <1>1, <1>2
<1>4. k - 1 \in S
  BY <1>1, <1>2, <1>3
<1> QED BY <1>3, <1>4

LEMMA MaxOfTop ==
  ASSUME NEW k \in Nat, NEW s, s \subseteq 1 .. k, k \in s
  PROVE  Max(s) = k
<1>1. \A y \in s : k >= y
  OBVIOUS
<1>2. \A x \in s : (\A y \in s : x >= y) => x = k
  OBVIOUS
<1> QED BY <1>1, <1>2, Zenon DEF Max

\* A loop of n iterations over the set M of states, whose i-th iteration leads
\* from state m to op[<<m, i>>]: what FoldLeft computes exists, and is the end
\* of a run through M.
Iterates(it, k, op, base) ==
  it = [s \in SUBSET (1 .. k) |->
          IF s = {} THEN base ELSE op[<<it[s \ {Max(s)}], Max(s)>>]]

LEMMA FoldExists ==
  ASSUME NEW M, NEW n \in Nat, NEW base \in M, NEW op \in [M \X (1 .. n) -> M]
  PROVE  \E it \in [SUBSET (1 .. n) -> M] : Iterates(it, n, op, base)
<1> DEFINE S == {k \in 0 .. n : \E it \in [SUBSET (1 .. k) -> M] : Iterates(it, k, op, base)}
<1>1. 0 \in S
  <2>1. 1 .. 0 = {} /\ SUBSET (1 .. 0) = {{}}
    OBVIOUS
  <2>2. PICK it : it = [s \in SUBSET (1 .. 0) |-> base]
    OBVIOUS
  <2>3. it \in [SUBSET (1 .. 0) -> M] /\ Iterates(it, 0, op, base)
    BY <2>1, <2>2 DEF Iterates
  <2>4. 0 \in 0 .. n
    OBVIOUS
  <2> QED BY <2>3, <2>4
<1>2. ASSUME NEW k \in 1 .. n, k - 1 \in S PROVE k \in S
  <2>1. PICK it \in [SUBSET (1 .. (k - 1)) -> M] : Iterates(it, k - 1, op, base)
    BY <1>2
  <2>2. PICK next : next = [s \in SUBSET (1 .. k) |->
                              IF k \in s THEN op[<<it[s \ {k}], k>>] ELSE it[s]]
    OBVIOUS
  <2>3. ASSUME NEW s \in SUBSET (1 .. k)
        PROVE  /\ next[s] \in M
               /\ next[s] = IF s = {} THEN base ELSE op[<<next[s \ {Max(s)}], Max(s)>>]
    <3>1. CASE k \in s
      <4>1. Max(s) = k
        <5>1. k \in Nat /\ s \subseteq 1 .. k
          OBVIOUS
        <5> QED BY <3>1, <5>1, MaxOfTop
      <4>2. s \ {k} \in SUBSET (1 .. (k - 1)) /\ s \ {k} \in SUBSET (1 .. k) /\ k \notin s \ {k}
        OBVIOUS
      <4>3. next[s \ {k}] = it[s \ {k}] /\ it[s \ {k}] \in M
        BY <2>1, <2>2, <4>2
      <4>4. next[s] = op[<<it[s \ {k}], k>>]
        BY <2>2, <3>1
      <4> QED BY <3>1, <4>1, <4>3, <4>4
    <3>2. CASE k \notin s
      <4>1. s \in SUBSET (1 .. (k - 1))
        BY <3>2
      <4>2. next[s] = it[s]
        BY <2>2, <3>2
      <4>3. it[s] = IF s = {} THEN base ELSE op[<<it[s \ {Max(s)}], Max(s)>>]
        BY <2>1, <4>1 DEF Iterates
      <4>4. s \ {Max(s)} \in SUBSET (1 .. k) /\ k \notin s \ {Max(s)}
        BY <3>2
      <4>5. next[s \ {Max(s)}] = it[s \ {Max(s)}]
        BY <2>2, <4>4
      <4> QED BY <2>1, <4>1, <4>2, <4>3, <4>5
    <3> QED BY <3>1, <3>2
  <2>4. next \in [SUBSET (1 .. k) -> M]
    BY <2>2, <2>3
  <2>5. Iterates(next, k, op, base)
    BY <2>2, <2>3 DEF Iterates
  <2> QED BY <2>4, <2>5
<1>3. n \in S
  <2> HIDE DEF S
  <2>1. \A i \in 0 .. n : i \in S
    BY <1>1, <1>2, LoopInduction
  <2> QED BY <2>1
<1> QED BY <1>3

LEMMA MaxInInterval ==
  ASSUME NEW n \in Nat, NEW s \in SUBSET (1 .. n), s # {}
  PROVE  Max(s) \in 1 .. n
<1> DEFINE Above == {k \in Nat : \A y \in s : k >= y}
<1>1. n \in Above
  OBVIOUS
<1>2. PICK k : k = Min(Above)
  OBVIOUS
<1>3. k \in Above /\ \A y \in Above : k <= y
  BY <1>1, <1>2, MinIsLeast
<1>4. k \in s
  <2> SUFFICES ASSUME k \notin s PROVE FALSE
    OBVIOUS
  <2>0. k >= 1 /\ k \in Nat
    <3>1. PICK y \in s : TRUE
      OBVIOUS
    <3>2. y \in 1 .. n /\ k >= y /\ k \in Nat
      BY <1>3
    <3> QED BY <3>2
  <2>1. k - 1 \in Above
    BY <1>3, <2>0
  <2> QED BY <1>3, <2>1
<1>5. s \subseteq 1 .. k /\ k \in Nat
  BY <1>3
<1>6. Max(s) = k
  BY <1>4, <1>5, MaxOfTop
<1> QED BY <1>4, <1>6

-----------------------------------------------------------------------------
\* A set that is enumerated without repetition has as many elements.
LEMMA ImageSize ==
  ASSUME NEW S, IsFiniteSet(S), NEW T, NEW g \in [S -> T],
         \A x, y \in S : g[x] = g[y] => x = y,
         \A y \in T : \E x \in S : g[x] = y
  PROVE  IsFiniteSet(T) /\ Cardinality(T) = Cardinality(S)
<1>1. g \in Bijection(S, T)
  BY DEF Bijection, Injection, Surjection, IsInjective
<1>2. ExistsBijection(S, T)
  BY <1>1 DEF ExistsBijection
<1> QED BY <1>2, FS_Bijection
=============================================================================
