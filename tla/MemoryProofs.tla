---------------------------- MODULE MemoryProofs ----------------------------
(***************************************************************************)
(* Theorems about memory: the frame allocator, for every page size, memory *)
(* size and memory map; address spaces, for every number of frames,        *)
(* processes and table levels and every image; the ELF loader, for every   *)
(* layout of the user space and sequence of headers; and the arguments of  *)
(* a new process, for every number and length of them.                     *)
(***************************************************************************)
EXTENDS FrameAllocator, AddressSpace, ElfLoader, Startup, LoopLemmas, SequenceTheorems

-----------------------------------------------------------------------------
(***************************************************************************)
(* The frame allocator.                                                    *)
(***************************************************************************)

\* The scan of allocate() runs over finitely many frames.
LEMMA FramesFinite == Frames \subseteq Nat /\ IsFiniteSet(Frames)
  BY FrameAllocatorAssumption, PagingAssumption, FS_Interval DEF Frames

\* What allocate() picks is a frame whose bit is clear.
LEMMA FirstClear ==
  ASSUME NEW S \in SUBSET Frames, S # {}
  PROVE  Min(S) \in S
  BY MinIsLeast, FramesFinite

MemoryInv == MemoryTypeOK /\ FreeFramesExact

\* The state initialize() leaves satisfies the invariant.
LEMMA MemoryInitInv == MemoryInit => MemoryInv
<1> SUFFICES ASSUME MemoryInit PROVE MemoryInv
  OBVIOUS
<1>1. FreeAfterInitialize(bootMap) \subseteq Frames
  BY DEF FreeAfterInitialize, UsableFrames
<1>2. Frames \ frame_bitmap = FreeAfterInitialize(bootMap)
  BY <1>1 DEF MemoryInit
<1>3. Cardinality(FreeAfterInitialize(bootMap)) \in Nat
  BY <1>1, FramesFinite, FS_Subset, FS_CardinalityType
<1> QED BY <1>2, <1>3 DEF MemoryInit, MemoryInv, MemoryTypeOK, FreeFramesExact

\* allocate() and free() preserve it.
LEMMA MemoryStep == MemoryInv /\ [MemoryNext]_memoryVars => MemoryInv'
<1> SUFFICES ASSUME MemoryInv, [MemoryNext]_memoryVars PROVE MemoryInv'
  OBVIOUS
<1> USE DEF MemoryInv, MemoryTypeOK, FreeFramesExact
<1>f. IsFiniteSet(Frames \ frame_bitmap) /\ Cardinality(Frames \ frame_bitmap) \in Nat
  BY FramesFinite, FS_Subset, FS_CardinalityType
<1>1. CASE Allocate
  <2> DEFINE f == Min(Frames \ frame_bitmap)
  <2>1. f \in Frames \ frame_bitmap
    BY <1>1, FirstClear DEF Allocate
  <2>2. Frames \ frame_bitmap' = (Frames \ frame_bitmap) \ {f}
    BY <1>1 DEF Allocate
  <2>3. Cardinality(Frames \ frame_bitmap') = Cardinality(Frames \ frame_bitmap) - 1
    BY <2>1, <2>2, <1>f, FS_RemoveElement
  <2>4. /\ frame_bitmap' = frame_bitmap \cup {f}
        /\ allocated_bitmap' = allocated_bitmap \cup {f}
        /\ free_frames' = free_frames - 1 /\ UNCHANGED bootMap
    BY <1>1 DEF Allocate
  <2> HIDE DEF f
  <2> QED BY <1>f, <2>1, <2>3, <2>4
<1>2. ASSUME NEW a \in 0 .. U64_MAX, Free(a) PROVE MemoryInv'
  <2> DEFINE f == a \div PAGE_SIZE
  <2>1. f \in frame_bitmap /\ f \in Frames
    BY <1>2 DEF Free
  <2>2. Frames \ frame_bitmap' = (Frames \ frame_bitmap) \cup {f}
    BY <1>2, <2>1 DEF Free
  <2>3. Cardinality(Frames \ frame_bitmap') = Cardinality(Frames \ frame_bitmap) + 1
    BY <2>1, <2>2, <1>f, FS_AddElement
  <2> QED BY <1>2, <1>f, <2>1, <2>3 DEF Free
<1>3. CASE UNCHANGED memoryVars
  BY <1>3 DEF memoryVars
<1> QED BY <1>1, <1>2, <1>3 DEF MemoryNext

\* The free-frame counter is exact, whatever callers free.
THEOREM FreeCountCorrect == MemorySpec => []FreeFramesExact
<1>1. MemoryInv => FreeFramesExact
  BY DEF MemoryInv
<1> QED BY <1>1, MemoryInitInv, MemoryStep, PTL DEF MemorySpec

\* The bitmap allocator implements the abstract pool of frames.
THEOREM AllocatorImplementsPool == MemorySpec => ImplementsPool
<1>1. MemoryInit => Pool!Init
  BY DEF MemoryInit, Pool!Init
<1>2. ASSUME MemoryInv, [MemoryNext]_memoryVars
      PROVE  [Pool!Take \/ Pool!Give]_<<Frames \ frame_bitmap, allocated_bitmap>>
  <2> USE <1>2 DEF MemoryInv, MemoryTypeOK
  <2>1. CASE Allocate
    <3>1. Min(Frames \ frame_bitmap) \in Frames \ frame_bitmap
      BY <2>1, FirstClear DEF Allocate
    <3>2. Pool!Take
      BY <2>1, <3>1 DEF Allocate, Pool!Take
    <3> QED BY <3>2
  <2>2. ASSUME NEW a \in 0 .. U64_MAX, Free(a) PROVE Pool!Give
    BY <2>2 DEF Free, Pool!Give
  <2>3. CASE UNCHANGED memoryVars
    BY <2>3 DEF memoryVars
  <2> QED BY <2>1, <2>2, <2>3 DEF MemoryNext
<1> QED BY <1>1, <1>2, MemoryInitInv, MemoryStep, PTL
       DEF MemorySpec, ImplementsPool, Pool!Spec

-----------------------------------------------------------------------------
(***************************************************************************)
(* Only safe frames: the frames that are free or handed out are always     *)
(* among those initialize() found free, and those are safe.                *)
(***************************************************************************)

\* Integer division as the rounding of mark_range() uses it.
LEMMA Rounding ==
  ASSUME NEW a \in Nat, NEW f \in Nat, NEW p \in Nat \ {0}
  PROVE  /\ a \div p <= f => a < (f + 1) * p
         /\ f < a \div p => (f + 1) * p <= a
         /\ f < a \div p <=> ~ (a \div p <= f)
<1>1. /\ a = p * (a \div p) + (a % p)
      /\ a % p \in 0 .. (p - 1)
      /\ a \div p \in Nat
  OBVIOUS
<1> QED BY <1>1

\* A page that mark_range() clears lies in its range, saturation included.
LEMMA UsableInside ==
  ASSUME NEW r, r.base \in 0 .. U64_MAX, r.length \in 0 .. U64_MAX,
         NEW f \in UsableFrames(r), NEW byte \in Bytes(f)
  PROVE  In(byte, r)
<1> USE FrameAllocatorAssumption, PagingAssumption
<1>0. f \in Nat /\ f < MAX_PHYSICAL_FRAMES
  BY DEF UsableFrames, Frames
<1>1. SaturatingAdd(r.base, PAGE_SIZE - 1) < (f + 1) * PAGE_SIZE
  <2>1. SaturatingAdd(r.base, PAGE_SIZE - 1) \in Nat
    BY DEF SaturatingAdd
  <2> QED BY <1>0, <2>1, Rounding DEF UsableFrames
<1>2. (f + 1) * PAGE_SIZE <= UpToLimit(SaturatingAdd(r.base, r.length))
  <2>1. UpToLimit(SaturatingAdd(r.base, r.length)) \in Nat
    BY DEF SaturatingAdd, UpToLimit, MAX_PHYSICAL_ADDRESS
  <2> QED BY <1>0, <2>1, Rounding DEF UsableFrames
<1>3. (f + 1) * PAGE_SIZE <= SaturatingAdd(r.base, r.length)
      /\ (f + 1) * PAGE_SIZE <= MAX_PHYSICAL_ADDRESS
  BY <1>2, <1>0 DEF SaturatingAdd, UpToLimit, MAX_PHYSICAL_ADDRESS
<1>4. (f + 1) * PAGE_SIZE = f * PAGE_SIZE + PAGE_SIZE /\ f * PAGE_SIZE \in Nat
  BY <1>0
<1>5. r.base <= f * PAGE_SIZE
  BY <1>1, <1>3, <1>4 DEF SaturatingAdd, MAX_PHYSICAL_ADDRESS
<1>6. f * PAGE_SIZE + PAGE_SIZE <= r.base + r.length
  BY <1>3, <1>4 DEF SaturatingAdd
<1> QED BY <1>4, <1>5, <1>6 DEF Bytes, In

\* A page that mark_reserved_range() does not set is clear of its range.
LEMMA ReservedOutside ==
  ASSUME NEW r, r.base \in 0 .. U64_MAX, r.length \in 0 .. U64_MAX,
         NEW f \in Frames, f \notin ReservedFrames(r), NEW byte \in Bytes(f)
  PROVE  ~ In(byte, r)
<1> USE FrameAllocatorAssumption, PagingAssumption
<1>0. f \in Nat /\ f + 1 <= MAX_PHYSICAL_FRAMES
  BY DEF Frames
<1> DEFINE end == UpToLimit(SaturatingAdd(SaturatingAdd(r.base, r.length), PAGE_SIZE - 1))
<1>1. end \in Nat
  BY DEF SaturatingAdd, UpToLimit, MAX_PHYSICAL_ADDRESS
<1>2. ~ (r.base \div PAGE_SIZE <= f) \/ end \div PAGE_SIZE <= f
  <2>1. ~ (r.base \div PAGE_SIZE <= f) \/ ~ (f < end \div PAGE_SIZE)
    BY DEF ReservedFrames
  <2> HIDE DEF end
  <2> QED BY <1>0, <1>1, <2>1, Rounding
<1>4. (f + 1) * PAGE_SIZE = f * PAGE_SIZE + PAGE_SIZE /\ f * PAGE_SIZE \in Nat
  BY <1>0
<1>5. CASE ~ (r.base \div PAGE_SIZE <= f)
  <2>1. (f + 1) * PAGE_SIZE <= r.base
    BY <1>0, <1>5, Rounding
  <2> QED BY <1>4, <2>1 DEF Bytes, In
<1>6. CASE end \div PAGE_SIZE <= f
  <2>1. end < (f + 1) * PAGE_SIZE
    <3> HIDE DEF end
    <3> QED BY <1>0, <1>1, <1>6, Rounding
  <2>2. (f + 1) * PAGE_SIZE <= MAX_PHYSICAL_ADDRESS
    BY <1>0 DEF MAX_PHYSICAL_ADDRESS
  <2>3. r.base + r.length <= f * PAGE_SIZE
    BY <1>4, <2>1, <2>2 DEF SaturatingAdd, UpToLimit, MAX_PHYSICAL_ADDRESS
  <2> QED BY <1>4, <2>3 DEF Bytes, In
<1> QED BY <1>2, <1>5, <1>6

\* The frames initialize() leaves free are safe.
LEMMA InitiallyFreeIsSafe ==
  ASSUME bootMap \in MemoryMaps, NEW f \in FreeAfterInitialize(bootMap)
  PROVE  Safe(f)
<1> USE FrameAllocatorAssumption, PagingAssumption
<1>1. PICK r \in bootMap.regions : r.usable /\ f \in UsableFrames(r)
  BY DEF FreeAfterInitialize
<1>2. f \in Frames
  BY <1>1 DEF UsableFrames
<1>3. \A byte \in Bytes(f) : In(byte, r)
  BY <1>1, UsableInside
<1>4. ASSUME NEW q \in bootMap.reserved_ranges, NEW byte \in Bytes(f) PROVE ~ In(byte, q)
  <2>1. f \notin UNION {ReservedFrames(x) : x \in bootMap.reserved_ranges}
    BY DEF FreeAfterInitialize
  <2>2. f \notin ReservedFrames(q)
    BY <1>4, <2>1
  <2>3. q.base \in 0 .. U64_MAX /\ q.length \in 0 .. U64_MAX
    BY <1>4
  <2> QED BY <1>2, <1>4, <2>2, <2>3, ReservedOutside
<1>5. ASSUME NEW byte \in Bytes(f) PROVE byte >= LowMemory
  <2> DEFINE low == [base |-> 0, length |-> LowMemory]
  <2>1. low.base = 0 /\ low.length = LowMemory
    OBVIOUS
  <2>2. f \notin ReservedFrames(low)
    BY DEF FreeAfterInitialize
  <2>3. low.base \in 0 .. U64_MAX /\ low.length \in 0 .. U64_MAX
    BY <2>1
  <2>4. ~ In(byte, low)
    <3> HIDE DEF low
    <3> QED BY <1>2, <2>2, <2>3, ReservedOutside
  <2>5. byte \in Nat
    BY <1>2, FramesFinite DEF Bytes
  <2> QED BY <2>1, <2>4, <2>5 DEF In
<1> QED BY <1>1, <1>3, <1>4, <1>5 DEF Safe

PoolInv ==
  /\ bootMap \in MemoryMaps
  /\ (Frames \ frame_bitmap) \cup allocated_bitmap \subseteq FreeAfterInitialize(bootMap)

\* For every memory map, no frame outside a usable region, in a reserved range
\* or in low memory is ever handed out.
THEOREM HandsOutSafeFrames == MemorySpec => []OnlySafeFrames
<1>1. MemoryInit => PoolInv
  BY DEF MemoryInit, PoolInv
<1>2. PoolInv /\ MemoryInv /\ [MemoryNext]_memoryVars => PoolInv'
  <2> SUFFICES ASSUME PoolInv, MemoryInv, [MemoryNext]_memoryVars PROVE PoolInv'
    OBVIOUS
  <2> USE DEF PoolInv, MemoryInv, MemoryTypeOK
  <2>1. CASE Allocate
    <3>1. Min(Frames \ frame_bitmap) \in Frames \ frame_bitmap
      BY <2>1, FirstClear DEF Allocate
    <3> QED BY <2>1, <3>1 DEF Allocate
  <2>2. ASSUME NEW a \in 0 .. U64_MAX, Free(a) PROVE PoolInv'
    BY <2>2 DEF Free
  <2>3. CASE UNCHANGED memoryVars
    BY <2>3 DEF memoryVars
  <2> QED BY <2>1, <2>2, <2>3 DEF MemoryNext
<1>3. PoolInv => OnlySafeFrames
  BY InitiallyFreeIsSafe DEF PoolInv, OnlySafeFrames
<1> QED BY <1>1, <1>2, <1>3, MemoryInitInv, MemoryStep, PTL DEF MemorySpec

-----------------------------------------------------------------------------
(***************************************************************************)
(* Address spaces.                                                         *)
(***************************************************************************)

\* A multiple of n.
LEMMA Multiples ==
  ASSUME NEW k \in Nat, NEW n \in Nat \ {0}
  PROVE  (k * n) % n = 0 /\ (k * n) \div n = k
<1>1. PICK q, r : q = (k * n) \div n /\ r = (k * n) % n
  OBVIOUS
<1>2. q \in Nat /\ r \in 0 .. (n - 1) /\ k * n = n * q + r
  BY <1>1
<1>3. n * (k - q) = r
  BY <1>2
<1>4. k = q
  <2>1. CASE k > q
    <3>1. n * (k - q) >= n
      BY <1>2, <2>1
    <3> QED BY <1>2, <1>3, <3>1
  <2>2. CASE k < q
    <3>1. n * (q - k) >= n /\ n * (k - q) = 0 - n * (q - k)
      BY <1>2, <2>2
    <3> QED BY <1>2, <1>3, <3>1
  <2> QED BY <1>2, <2>1, <2>2
<1> QED BY <1>1, <1>2, <1>3, <1>4

-----------------------------------------------------------------------------
(***************************************************************************)
(* The loops of the mapping functions.                                     *)
(***************************************************************************)

\* The walk of map_page_in() down the levels.
Walked(m, page) == FoldLeft(AddTable, m, Walk(page))

\* It stays in any set of spaces that adding a table stays in.
LEMMA WalkRuns ==
  ASSUME NEW M, NEW m \in M, NEW page,
         \A w \in M, i \in 1 .. Levels : AddTable(w, Walk(page)[i]) \in M
  PROVE  Walked(m, page) \in M
<1>1. PICK op : op = [x \in M \X (1 .. Levels) |-> AddTable(x[1], Walk(page)[x[2]])]
  OBVIOUS
<1>2. op \in [M \X (1 .. Levels) -> M] /\ Levels \in Nat /\ DOMAIN Walk(page) = 1 .. Levels
  BY <1>1, AddressSpaceAssumption DEF Walk
<1> DEFINE Equation(it) ==
      it = [s \in SUBSET (DOMAIN Walk(page)) |->
              IF s = {} THEN m ELSE AddTable(it[s \ {Max(s)}], Walk(page)[Max(s)])]
<1>3. \E it : Equation(it)
  <2>1. PICK it \in [SUBSET (1 .. Levels) -> M] : Iterates(it, Levels, op, m)
    BY <1>2, FoldExists
  <2>2. ASSUME NEW s \in SUBSET (1 .. Levels), s # {}
        PROVE  op[<<it[s \ {Max(s)}], Max(s)>>] = AddTable(it[s \ {Max(s)}], Walk(page)[Max(s)])
    <3>1. Max(s) \in 1 .. Levels
      BY <2>2, <1>2, MaxInInterval
    <3>2. it[s \ {Max(s)}] \in M
      BY <2>1
    <3>3. PICK x : x = <<it[s \ {Max(s)}], Max(s)>>
      OBVIOUS
    <3>4. x \in M \X (1 .. Levels) /\ x[1] = it[s \ {Max(s)}] /\ x[2] = Max(s)
      BY <3>1, <3>2, <3>3
    <3>5. op[x] = AddTable(x[1], Walk(page)[x[2]])
      BY <1>1, <3>4
    <3> QED BY <3>3, <3>4, <3>5
  <2>3. \A s \in SUBSET (1 .. Levels) :
          it[s] = IF s = {} THEN m ELSE AddTable(it[s \ {Max(s)}], Walk(page)[Max(s)])
    BY <2>1, <2>2 DEF Iterates
  <2>4. it = [s \in SUBSET (DOMAIN Walk(page)) |->
               IF s = {} THEN m ELSE AddTable(it[s \ {Max(s)}], Walk(page)[Max(s)])]
    BY <1>2, <2>1, <2>3
  <2> QED BY <2>4
<1>4. Equation(CHOOSE it : Equation(it))
  BY <1>3
<1>5. Walked(m, page) = (CHOOSE it : Equation(it))[DOMAIN Walk(page)]
  BY DEF Walked, FoldLeft, MapThenFoldSet
<1>6. PICK it : it = CHOOSE x : Equation(x)
  OBVIOUS
<1>7. Equation(it)
  BY <1>4, <1>6
<1>8. PICK w : w = [i \in 0 .. Levels |-> it[1 .. i]]
  OBVIOUS
<1>9. w[0] = m
  <2>1. 1 .. 0 = {} /\ {} \in SUBSET (1 .. Levels)
    OBVIOUS
  <2> QED BY <1>2, <1>7, <1>8, <2>1
<1>10. ASSUME NEW i \in 1 .. Levels PROVE w[i] = AddTable(w[i - 1], Walk(page)[i])
  <2>1. Max(1 .. i) = i
    <3>1. i \in Nat /\ i \in 1 .. i
      BY <1>2
    <3> QED BY <3>1, MaxOfTop
  <2>2. (1 .. i) \ {i} = 1 .. (i - 1) /\ 1 .. i # {} /\ 1 .. i \in SUBSET (1 .. Levels)
    <3>1. Levels \in Nat
      BY <1>2
    <3> QED BY <3>1
  <2>3. w[i] = it[1 .. i] /\ w[i - 1] = it[1 .. (i - 1)]
    BY <1>2, <1>8
  <2>4. it[1 .. i] = AddTable(it[(1 .. i) \ {Max(1 .. i)}], Walk(page)[Max(1 .. i)])
    BY <1>2, <1>7, <2>2
  <2> QED BY <2>1, <2>2, <2>3, <2>4
<1>11. \A i \in 0 .. Levels : w[i] \in M
  <2> DEFINE S == {i \in 0 .. Levels : w[i] \in M}
  <2>1. 0 \in S /\ \A i \in 1 .. Levels : i - 1 \in S => i \in S
    BY <1>2, <1>9, <1>10
  <2>2. \A i \in 0 .. Levels : i \in S
    <3> HIDE DEF S
    <3> QED BY <1>2, <2>1, LoopInduction
  <2> QED BY <2>2
<1>12. w[Levels] = Walked(m, page)
  <2>1. w[Levels] = it[1 .. Levels]
    BY <1>2, <1>8
  <2> QED BY <1>2, <1>5, <1>6, <2>1
<1> QED BY <1>2, <1>11, <1>12

\* The loop over the pages of an image or of a growing heap: F[i] is what holds
\* after i iterations.
LEMMA MappingRuns ==
  ASSUME NEW M, NEW m \in M, NEW n \in Nat, NEW pages, DOMAIN pages = 1 .. n,
         \A w \in M, i \in 1 .. n : MapNewPage(w, pages[i]) \in M,
         NEW F, m \in F[0],
         \A w \in M, i \in 1 .. n : w \in F[i - 1] => MapNewPage(w, pages[i]) \in F[i]
  PROVE  Mapped(m, pages) \in F[n]
<1>1. PICK op : op = [x \in M \X (1 .. n) |-> MapNewPage(x[1], pages[x[2]])]
  OBVIOUS
<1>2. op \in [M \X (1 .. n) -> M] /\ n \in Nat /\ DOMAIN pages = 1 .. n
  BY <1>1
<1> DEFINE Equation(it) ==
      it = [s \in SUBSET (DOMAIN pages) |->
              IF s = {} THEN m ELSE MapNewPage(it[s \ {Max(s)}], pages[Max(s)])]
<1>3. \E it : Equation(it)
  <2>1. PICK it \in [SUBSET (1 .. n) -> M] : Iterates(it, n, op, m)
    BY <1>2, FoldExists
  <2>2. ASSUME NEW s \in SUBSET (1 .. n), s # {}
        PROVE  op[<<it[s \ {Max(s)}], Max(s)>>] = MapNewPage(it[s \ {Max(s)}], pages[Max(s)])
    <3>1. Max(s) \in 1 .. n
      BY <2>2, <1>2, MaxInInterval
    <3>2. it[s \ {Max(s)}] \in M
      BY <2>1
    <3>3. PICK x : x = <<it[s \ {Max(s)}], Max(s)>>
      OBVIOUS
    <3>4. x \in M \X (1 .. n) /\ x[1] = it[s \ {Max(s)}] /\ x[2] = Max(s)
      BY <3>1, <3>2, <3>3
    <3>5. op[x] = MapNewPage(x[1], pages[x[2]])
      BY <1>1, <3>4
    <3> QED BY <3>3, <3>4, <3>5
  <2>3. \A s \in SUBSET (1 .. n) :
          it[s] = IF s = {} THEN m ELSE MapNewPage(it[s \ {Max(s)}], pages[Max(s)])
    BY <2>1, <2>2 DEF Iterates
  <2>4. it = [s \in SUBSET (DOMAIN pages) |->
               IF s = {} THEN m ELSE MapNewPage(it[s \ {Max(s)}], pages[Max(s)])]
    BY <1>2, <2>1, <2>3
  <2> QED BY <2>4
<1>4. Equation(CHOOSE it : Equation(it))
  BY <1>3
<1>5. Mapped(m, pages) = (CHOOSE it : Equation(it))[DOMAIN pages]
  BY DEF Mapped, FoldLeft, MapThenFoldSet
<1>6. PICK it : it = CHOOSE x : Equation(x)
  OBVIOUS
<1>7. Equation(it)
  BY <1>4, <1>6
<1>8. PICK w : w = [i \in 0 .. n |-> it[1 .. i]]
  OBVIOUS
<1>9. w[0] = m
  <2>1. 1 .. 0 = {} /\ {} \in SUBSET (1 .. n)
    OBVIOUS
  <2> QED BY <1>2, <1>7, <1>8, <2>1
<1>10. ASSUME NEW i \in 1 .. n PROVE w[i] = MapNewPage(w[i - 1], pages[i])
  <2>1. Max(1 .. i) = i
    <3>1. i \in Nat /\ i \in 1 .. i
      BY <1>2
    <3> QED BY <3>1, MaxOfTop
  <2>2. (1 .. i) \ {i} = 1 .. (i - 1) /\ 1 .. i # {} /\ 1 .. i \in SUBSET (1 .. n)
    <3>1. n \in Nat /\ i \in Nat /\ 1 <= i /\ i <= n
      BY <1>2
    <3>2. (1 .. i) \ {i} = 1 .. (i - 1)
      BY <3>1
    <3>3. 1 \in 1 .. i
      BY <3>1
    <3>4. 1 .. i \in SUBSET (1 .. n)
      BY <3>1
    <3> QED BY <3>2, <3>3, <3>4
  <2>3. w[i] = it[1 .. i] /\ w[i - 1] = it[1 .. (i - 1)]
    BY <1>2, <1>8
  <2>4. it[1 .. i] = MapNewPage(it[(1 .. i) \ {Max(1 .. i)}], pages[Max(1 .. i)])
    BY <1>2, <1>7, <2>2
  <2> QED BY <2>1, <2>2, <2>3, <2>4
<1>11. \A i \in 0 .. n : w[i] \in M
  <2> DEFINE S == {i \in 0 .. n : w[i] \in M}
  <2>1. 0 \in S /\ \A i \in 1 .. n : i - 1 \in S => i \in S
    BY <1>2, <1>9, <1>10
  <2>2. \A i \in 0 .. n : i \in S
    <3> HIDE DEF S
    <3> QED BY <1>2, <2>1, LoopInduction
  <2> QED BY <2>2
<1>12. w[n] = Mapped(m, pages)
  <2>1. w[n] = it[1 .. n]
    BY <1>2, <1>8
  <2> QED BY <1>2, <1>5, <1>6, <2>1
<1>13. \A i \in 0 .. n : w[i] \in F[i]
  <2> DEFINE S == {i \in 0 .. n : w[i] \in F[i]}
  <2>1. 0 \in S
    BY <1>9
  <2>2. ASSUME NEW i \in 1 .. n, i - 1 \in S PROVE i \in S
    <3>1. i - 1 \in 0 .. n /\ w[i - 1] \in F[i - 1]
      BY <2>2
    <3>2. w[i - 1] \in M
      BY <1>11, <3>1
    <3> QED BY <1>10, <3>1, <3>2
  <2>3. \A i \in 0 .. n : i \in S
    <3> HIDE DEF S
    <3> QED BY <2>1, <2>2, LoopInduction
  <2> QED BY <2>3
<1>14. w[n] \in F[n]
  BY <1>13
<1> QED BY <1>12, <1>14

-----------------------------------------------------------------------------
(***************************************************************************)
(* Mapping pages.                                                          *)
(***************************************************************************)
Spaces ==
  [available : SUBSET Frame, tables : [Tables -> Frame \cup {NONE}],
   leaf : [Pages -> Frame \cup {NONE}], contents : [Frame -> Pids \cup {Zero}],
   result : {"Ok", "Err"}]

\* Tables and pages have frames of their own: none is available, and none is
\* among those that are taken for something else.
Apart(pool, table, page, taken) ==
  /\ \A t \in Tables : table[t] # NONE => table[t] \notin pool \cup taken
  /\ \A x \in Pages : page[x] # NONE => page[x] \notin pool \cup taken
  /\ \A t, u \in Tables : table[t] # NONE /\ table[t] = table[u] => t = u
  /\ \A x, y \in Pages : page[x] # NONE /\ page[x] = page[y] => x = y
  /\ \A t \in Tables, x \in Pages : table[t] # NONE => table[t] # page[x]
  /\ taken \cap pool = {}

\* What mapping pages for process p keeps true of a space: taken frames are not
\* written to, no page shows what another process has written, no page loses
\* its frame, and unless something has failed no frame is lost.
Sound(m, p, taken, whole, leaves, before) ==
  /\ Apart(m.available, m.tables, m.leaf, taken)
  /\ \A page \in Pages : m.leaf[page] # NONE => m.contents[m.leaf[page]] \in {Zero, p}
  /\ \A f \in taken : m.contents[f] = before[f]
  /\ \A page \in Pages : leaves[page] # NONE => m.leaf[page] # NONE
  /\ m.result = "Ok" => \A f \in whole : \/ f \in m.available \cup taken
                                         \/ \E t \in Tables : m.tables[t] = f
                                         \/ \E page \in Pages : m.leaf[page] = f

LEMMA LowestFrame ==
  ASSUME NEW pool \in SUBSET Frame, pool # {}
  PROVE  Lowest(pool) \in pool /\ Lowest(pool) \in Frame /\ Lowest(pool) # NONE
<1>1. pool \subseteq Nat
  BY AddressSpaceAssumption
<1>2. Lowest(pool) \in pool
  BY <1>1, MinIsLeast DEF Lowest
<1> QED BY <1>2, AddressSpaceAssumption DEF NONE

LEMMA AddTableSound ==
  ASSUME NEW m \in Spaces, NEW t \in Tables, NEW p \in Pids, NEW taken \in SUBSET Frame,
         NEW whole \in SUBSET Frame, NEW leaves, NEW before, Sound(m, p, taken, whole, leaves, before)
  PROVE  AddTable(m, t) \in Spaces /\ Sound(AddTable(m, t), p, taken, whole, leaves, before)
<1>m. /\ m.available \in SUBSET Frame /\ m.tables \in [Tables -> Frame \cup {NONE}]
      /\ m.leaf \in [Pages -> Frame \cup {NONE}] /\ m.contents \in [Frame -> Pids \cup {Zero}]
      /\ m.result \in {"Ok", "Err"}
  BY DEF Spaces
<1>1. CASE m.result = "Err" \/ m.tables[t] # NONE
  <2>1. AddTable(m, t) = m
    BY <1>1 DEF AddTable
  <2> QED BY <2>1
<1>2. CASE ~ (m.result = "Err" \/ m.tables[t] # NONE) /\ m.available = {}
  <2>1. PICK w : w = [m EXCEPT !.result = "Err"]
    OBVIOUS
  <2>2. AddTable(m, t) = w
    BY <1>2, <2>1 DEF AddTable
  <2>3. /\ w \in Spaces /\ w.available = m.available /\ w.tables = m.tables /\ w.leaf = m.leaf
        /\ w.contents = m.contents /\ w.result = "Err"
    BY <2>1 DEF Spaces
  <2>4. Sound(w, p, taken, whole, leaves, before)
    BY <2>3 DEF Sound, Apart
  <2> QED BY <2>2, <2>3, <2>4
<1>3. CASE ~ (m.result = "Err" \/ m.tables[t] # NONE) /\ m.available # {}
  <2>1. PICK f : f = Lowest(m.available)
    OBVIOUS
  <2>2. f \in m.available /\ f \in Frame /\ f # NONE
    BY <1>m, <1>3, <2>1, LowestFrame
  <2>3. PICK w : w = [m EXCEPT !.tables[t] = f, !.available = @ \ {f}, !.contents[f] = Zero]
    OBVIOUS
  <2>4. AddTable(m, t) = w
    BY <1>3, <2>1, <2>3 DEF AddTable
  <2>5. /\ w.available = m.available \ {f} /\ w.tables = [m.tables EXCEPT ![t] = f]
        /\ w.leaf = m.leaf /\ w.contents = [m.contents EXCEPT ![f] = Zero]
        /\ w.result = m.result
    BY <2>3 DEF Spaces
  <2>6. /\ w.tables \in [Tables -> Frame \cup {NONE}]
        /\ w.contents \in [Frame -> Pids \cup {Zero}]
        /\ w.tables[t] = f /\ \A u \in Tables : u # t => w.tables[u] = m.tables[u]
        /\ w.contents[f] = Zero /\ \A g \in Frame : g # f => w.contents[g] = m.contents[g]
    BY <1>m, <2>2, <2>5
  <2>7. w \in Spaces
    BY <1>m, <2>3, <2>5, <2>6 DEF Spaces
  <2>8. Apart(w.available, w.tables, w.leaf, taken)
    BY <1>m, <1>3, <2>2, <2>5, <2>6 DEF Sound, Apart
  <2>9. Sound(w, p, taken, whole, leaves, before)
    <3>1. \A page \in Pages : w.leaf[page] # NONE => w.contents[w.leaf[page]] \in {Zero, p}
      BY <1>m, <2>5, <2>6 DEF Sound
    <3>2. \A g \in taken : w.contents[g] = before[g]
      BY <2>2, <2>6 DEF Sound, Apart
    <3>3. \A page \in Pages : leaves[page] # NONE => w.leaf[page] # NONE
      BY <2>5 DEF Sound
    <3>4. ASSUME NEW g \in whole
          PROVE  \/ g \in w.available \cup taken
                 \/ \E u \in Tables : w.tables[u] = g
                 \/ \E page \in Pages : w.leaf[page] = g
      <4>1. CASE g \in m.available \cup taken
        BY <2>5, <2>6, <4>1
      <4>2. ASSUME NEW u \in Tables, m.tables[u] = g PROVE \E x \in Tables : w.tables[x] = g
        <5>1. CASE u = t
          BY <1>3, <4>2, <5>1, AddressSpaceAssumption DEF NONE
        <5>2. CASE u # t
          BY <2>6, <4>2, <5>2
        <5> QED BY <5>1, <5>2
      <4>3. ASSUME NEW page \in Pages, m.leaf[page] = g PROVE w.leaf[page] = g
        BY <2>5, <4>3
      <4>4. m.result = "Ok"
        BY <1>m, <1>3
      <4> QED BY <4>1, <4>2, <4>3, <4>4 DEF Sound
    <3> QED BY <2>8, <3>1, <3>2, <3>3, <3>4 DEF Sound
  <2> QED BY <2>4, <2>7, <2>9
<1> QED BY <1>1, <1>2, <1>3

\* The tables on the way to a page.
LEMMA WalkInTables ==
  ASSUME NEW page \in Pages, NEW i \in 1 .. Levels
  PROVE  Walk(page)[i] \in Tables
BY DEF Walk, Tables

LEMMA WalkSound ==
  ASSUME NEW m \in Spaces, NEW page \in Pages, NEW p \in Pids, NEW taken \in SUBSET Frame,
         NEW whole \in SUBSET Frame, NEW leaves, NEW before,
         Sound(m, p, taken, whole, leaves, before), NEW w, w = Walked(m, page)
  PROVE  w \in Spaces /\ Sound(w, p, taken, whole, leaves, before)
<1> DEFINE M == {x \in Spaces : Sound(x, p, taken, whole, leaves, before)}
<1>1. m \in M
  OBVIOUS
<1>2. \A x \in M, i \in 1 .. Levels : AddTable(x, Walk(page)[i]) \in M
  BY AddTableSound, WalkInTables
<1>3. Walked(m, page) \in M
  <2> HIDE DEF M
  <2> QED BY <1>1, <1>2, WalkRuns
<1> QED BY <1>3

LEMMA MapNewPageSound ==
  ASSUME NEW m \in Spaces, NEW page \in Pages, NEW p \in Pids, NEW taken \in SUBSET Frame,
         NEW whole \in SUBSET Frame, NEW leaves, NEW before,
         Sound(m, p, taken, whole, leaves, before), NEW r, r = MapNewPage(m, page)
  PROVE  /\ r \in Spaces /\ Sound(r, p, taken, whole, leaves, before)
         /\ \A x \in Pages : m.leaf[x] # NONE => r.leaf[x] # NONE
         /\ r.result = "Ok" => m.result = "Ok" /\ r.leaf[page] # NONE
<1>m. /\ m.available \in SUBSET Frame /\ m.tables \in [Tables -> Frame \cup {NONE}]
      /\ m.leaf \in [Pages -> Frame \cup {NONE}] /\ m.contents \in [Frame -> Pids \cup {Zero}]
      /\ m.result \in {"Ok", "Err"}
  BY DEF Spaces
<1>1. CASE m.result = "Err"
  <2>1. r = m
    BY <1>1 DEF MapNewPage
  <2> QED BY <1>1, <2>1
<1>2. CASE m.result # "Err" /\ m.available = {}
  <2>1. r = [m EXCEPT !.result = "Err"]
    BY <1>2 DEF MapNewPage
  <2>2. /\ r \in Spaces /\ r.available = m.available /\ r.tables = m.tables /\ r.leaf = m.leaf
        /\ r.contents = m.contents /\ r.result = "Err"
    BY <2>1 DEF Spaces
  <2>3. Sound(r, p, taken, whole, leaves, before)
    BY <2>2 DEF Sound, Apart
  <2> QED BY <2>2, <2>3
<1>3. CASE m.result # "Err" /\ m.available # {}
  <2>1. PICK f : f = Lowest(m.available)
    OBVIOUS
  <2>2. f \in m.available /\ f \in Frame /\ f # NONE
    BY <1>m, <1>3, <2>1, LowestFrame
  <2>3. PICK z : z = [m EXCEPT !.available = @ \ {f}, !.contents[f] = Zero]
    OBVIOUS
  <2>4. /\ z.available = m.available \ {f} /\ z.tables = m.tables /\ z.leaf = m.leaf
        /\ z.contents = [m.contents EXCEPT ![f] = Zero] /\ z.result = m.result
    BY <2>3 DEF Spaces
  <2>5. /\ z.contents \in [Frame -> Pids \cup {Zero}] /\ z.contents[f] = Zero
        /\ \A g \in Frame : g # f => z.contents[g] = m.contents[g]
    BY <1>m, <2>2, <2>4
  <2>6. z \in Spaces
    BY <1>m, <2>3, <2>4, <2>5 DEF Spaces
  <2>7. Sound(z, p, taken \cup {f}, whole, m.leaf, z.contents)
    <3>1. Apart(z.available, z.tables, z.leaf, taken \cup {f})
      BY <2>2, <2>4 DEF Sound, Apart
    <3>2. \A x \in Pages : z.leaf[x] # NONE => z.contents[z.leaf[x]] \in {Zero, p}
      BY <1>m, <2>4, <2>5 DEF Sound
    <3>3. \A x \in Pages : m.leaf[x] # NONE => z.leaf[x] # NONE
      BY <2>4
    <3>4. z.result = "Ok" => \A g \in whole : \/ g \in z.available \cup (taken \cup {f})
                                              \/ \E t \in Tables : z.tables[t] = g
                                              \/ \E x \in Pages : z.leaf[x] = g
      <4> SUFFICES ASSUME z.result = "Ok", NEW g \in whole
                   PROVE  \/ g \in z.available \cup (taken \cup {f})
                          \/ \E t \in Tables : z.tables[t] = g
                          \/ \E x \in Pages : z.leaf[x] = g
        OBVIOUS
      <4>1. \/ g \in m.available \cup taken
            \/ \E t \in Tables : m.tables[t] = g
            \/ \E x \in Pages : m.leaf[x] = g
        BY <2>4 DEF Sound
      <4> QED BY <2>4, <4>1
    <3> QED BY <3>1, <3>2, <3>3, <3>4 DEF Sound
  <2>8. PICK w : w = Walked(z, page)
    OBVIOUS
  <2>9. w \in Spaces /\ Sound(w, p, taken \cup {f}, whole, m.leaf, z.contents)
    BY <2>2, <2>6, <2>7, <2>8, WalkSound
  <2>w. /\ w.available \in SUBSET Frame /\ w.tables \in [Tables -> Frame \cup {NONE}]
        /\ w.leaf \in [Pages -> Frame \cup {NONE}] /\ w.contents \in [Frame -> Pids \cup {Zero}]
        /\ w.result \in {"Ok", "Err"}
    BY <2>9 DEF Spaces
  <2>10. r = IF w.result = "Ok" /\ w.leaf[page] = NONE
             THEN [w EXCEPT !.leaf[page] = f] ELSE [w EXCEPT !.result = "Err"]
    BY <1>3, <2>1, <2>3, <2>8 DEF MapNewPage, Walked
  <2>11. CASE w.result = "Ok" /\ w.leaf[page] = NONE
    <3>1. /\ r.available = w.available /\ r.tables = w.tables /\ r.contents = w.contents
          /\ r.leaf = [w.leaf EXCEPT ![page] = f] /\ r.result = w.result
      BY <2>9, <2>10, <2>11 DEF Spaces
    <3>2. /\ r.leaf \in [Pages -> Frame \cup {NONE}] /\ r.leaf[page] = f
          /\ \A x \in Pages : x # page => r.leaf[x] = w.leaf[x]
      BY <2>2, <2>w, <3>1
    <3>3. r \in Spaces
      BY <2>9, <2>10, <2>11, <2>w, <3>1, <3>2 DEF Spaces
    <3>4. Apart(r.available, r.tables, r.leaf, taken)
      BY <2>2, <2>9, <2>w, <3>1, <3>2 DEF Sound, Apart
    <3>5. \A x \in Pages : r.leaf[x] # NONE => r.contents[r.leaf[x]] \in {Zero, p}
      BY <2>5, <2>9, <3>1, <3>2 DEF Sound
    <3>6. \A g \in taken : r.contents[g] = before[g]
      <4>1. ASSUME NEW g \in taken PROVE g # f /\ g \in Frame /\ m.contents[g] = before[g]
        BY <2>2 DEF Sound, Apart
      <4> QED BY <2>5, <2>9, <3>1, <4>1 DEF Sound
    <3>7. \A x \in Pages : m.leaf[x] # NONE => r.leaf[x] # NONE
      BY <2>2, <2>9, <3>2 DEF Sound
    <3>8. ASSUME NEW g \in whole
          PROVE  \/ g \in r.available \cup taken
                 \/ \E t \in Tables : r.tables[t] = g
                 \/ \E x \in Pages : r.leaf[x] = g
      <4>1. CASE g = f
        BY <3>2, <4>1
      <4>2. ASSUME NEW x \in Pages, w.leaf[x] = g PROVE \E y \in Pages : r.leaf[y] = g
        <5>1. x # page
          BY <2>11, <4>2, AddressSpaceAssumption DEF NONE
        <5> QED BY <3>2, <4>2, <5>1
      <4>3. \/ g \in w.available \cup (taken \cup {f})
            \/ \E t \in Tables : w.tables[t] = g
            \/ \E x \in Pages : w.leaf[x] = g
        BY <2>9, <2>11 DEF Sound
      <4> QED BY <3>1, <4>1, <4>2, <4>3
    <3>9. Sound(r, p, taken, whole, leaves, before)
      BY <3>4, <3>5, <3>6, <3>7, <3>8 DEF Sound
    <3> QED BY <1>m, <1>3, <2>2, <3>2, <3>3, <3>7, <3>9
  <2>12. CASE ~ (w.result = "Ok" /\ w.leaf[page] = NONE)
    <3>1. /\ r.available = w.available /\ r.tables = w.tables /\ r.contents = w.contents
          /\ r.leaf = w.leaf /\ r.result = "Err" /\ r \in Spaces
      BY <2>9, <2>10, <2>12 DEF Spaces
    <3>2. Apart(r.available, r.tables, r.leaf, taken)
      BY <2>9, <3>1 DEF Sound, Apart
    <3>3. \A g \in taken : r.contents[g] = before[g]
      <4>1. ASSUME NEW g \in taken PROVE g # f /\ g \in Frame /\ m.contents[g] = before[g]
        BY <2>2 DEF Sound, Apart
      <4> QED BY <2>5, <2>9, <3>1, <4>1 DEF Sound
    <3>4. \A x \in Pages : m.leaf[x] # NONE => r.leaf[x] # NONE
      BY <2>9, <3>1 DEF Sound
    <3>5. Sound(r, p, taken, whole, leaves, before)
      BY <2>9, <3>1, <3>2, <3>3, <3>4 DEF Sound
    <3> QED BY <3>1, <3>4, <3>5
  <2> QED BY <2>11, <2>12
<1> QED BY <1>1, <1>2, <1>3

PageList(pages, n) == DOMAIN pages = 1 .. n /\ \A i \in 1 .. n : pages[i] \in Pages
AllMapped(m, pages) == \A i \in DOMAIN pages : m.leaf[pages[i]] # NONE

\* Mapping a sequence of pages: it either fails or maps all of them.
LEMMA MappedSound ==
  ASSUME NEW m \in Spaces, NEW p \in Pids, NEW taken \in SUBSET Frame,
         NEW whole \in SUBSET Frame, NEW leaves, NEW before,
         Sound(m, p, taken, whole, leaves, before),
         NEW n \in Nat, NEW pages, DOMAIN pages = 1 .. n, \A i \in 1 .. n : pages[i] \in Pages,
         NEW r, r = Mapped(m, pages)
  PROVE  /\ r \in Spaces /\ Sound(r, p, taken, whole, leaves, before)
         /\ r.result = "Ok" => AllMapped(r, pages)
<1> DEFINE M == {x \in Spaces : Sound(x, p, taken, whole, leaves, before)}
           F == [i \in 0 .. n |->
                   {x \in M : x.result = "Ok" => \A j \in 1 .. i : x.leaf[pages[j]] # NONE}]
<1>1. m \in M /\ m \in F[0]
  OBVIOUS
<1>2. ASSUME NEW w \in M, NEW i \in 1 .. n PROVE MapNewPage(w, pages[i]) \in M
  BY MapNewPageSound
<1>3. ASSUME NEW w \in M, NEW i \in 1 .. n, w \in F[i - 1]
      PROVE  MapNewPage(w, pages[i]) \in F[i]
  <2>1. PICK x : x = MapNewPage(w, pages[i])
    OBVIOUS
  <2>2. /\ \A page \in Pages : w.leaf[page] # NONE => x.leaf[page] # NONE
        /\ x.result = "Ok" => w.result = "Ok" /\ x.leaf[pages[i]] # NONE
    BY <2>1, MapNewPageSound
  <2>3. ASSUME x.result = "Ok", NEW j \in 1 .. i PROVE x.leaf[pages[j]] # NONE
    <3>1. CASE j = i
      BY <2>2, <2>3, <3>1
    <3>2. CASE j # i
      <4>1. j \in 1 .. (i - 1) /\ i - 1 \in 0 .. n /\ j \in 1 .. n
        BY <3>2
      <4>2. w.result = "Ok" => w.leaf[pages[j]] # NONE
        BY <1>3, <4>1
      <4> QED BY <2>2, <2>3, <4>1, <4>2
    <3> QED BY <3>1, <3>2
  <2> QED BY <1>2, <2>1, <2>3
<1>4. Mapped(m, pages) \in F[n]
  <2> HIDE DEF M, F
  <2> QED BY <1>1, <1>2, <1>3, MappingRuns
<1> QED BY <1>4 DEF AllMapped

-----------------------------------------------------------------------------
(***************************************************************************)
(* The inductive invariant.                                                *)
(***************************************************************************)
SpaceTypeOK ==
  /\ available \in SUBSET Frame
  /\ root \in [Pids -> Frame \cup {NONE}]
  /\ tables \in [Pids -> [Tables -> Frame \cup {NONE}]]
  /\ leaf \in [Pids -> [Pages -> Frame \cup {NONE}]]
  /\ contents \in [Frame -> Pids \cup {Zero}]

HeapTypeOK ==
  /\ heap_break \in [Pids -> 0 .. HEAP_LIMIT]
  /\ heap_mapped_end \in [Pids -> 0 .. HEAP_LIMIT]
  /\ loaded \subseteq Pids

\* FramesNotShared, frame by frame.
FramesApart ==
  /\ \A p \in Pids : Apart(available, tables[p], leaf[p], {root[p]} \ {NONE})
  /\ \A p \in Pids : root[p] \notin available
  /\ \A p, q \in Pids : p # q => UsedBy(p) \cap UsedBy(q) = {}

\* Every page below heap_mapped_end is mapped, and it is not below the break.
\* The converse does not hold: a growth that fails keeps its pages.
HeapMapped ==
  \A p \in loaded :
    /\ heap_break[p] <= heap_mapped_end[p] /\ heap_mapped_end[p] % PAGE_SIZE = 0
    /\ \A page \in HeapPages : page * PAGE_SIZE < heap_mapped_end[p] => leaf[p][page] # NONE

FramesInv == SpaceTypeOK /\ FramesApart /\ NoForeignData /\ NothingLeaks
HeapInv == HeapTypeOK /\ HeapMapped

OthersUse(p) == UNION {UsedBy(q) : q \in Pids \ {p}}

LEMMA NoFrameIsNone == NONE \notin Frame
BY AddressSpaceAssumption DEF NONE

LEMMA UsedFacts ==
  ASSUME SpaceTypeOK, NEW p \in Pids, NEW f
  PROVE  f \in UsedBy(p) <=>
           /\ f # NONE
           /\ \/ f = root[p]
              \/ \E t \in Tables : tables[p][t] = f
              \/ \E page \in Pages : leaf[p][page] = f
<1>1. DOMAIN tables[p] = Tables /\ DOMAIN leaf[p] = Pages
  BY DEF SpaceTypeOK
<1> QED BY <1>1 DEF UsedBy, Range

LEMMA UsedAreFrames ==
  ASSUME SpaceTypeOK, NEW p \in Pids
  PROVE  UsedBy(p) \subseteq Frame /\ OthersUse(p) \subseteq Frame
<1>1. \A q \in Pids : UsedBy(q) \subseteq Frame
  BY UsedFacts DEF SpaceTypeOK
<1> QED BY <1>1 DEF OthersUse

\* A call that has worked on the space of process p keeps the invariant when
\* what it leaves is apart from what the other processes use.
LEMMA KeepsFrames ==
  ASSUME FramesInv, NEW p \in Pids, NEW top \in Frame \cup {NONE}, NEW m \in Spaces,
         Apart(m.available, m.tables, m.leaf, OthersUse(p) \cup ({top} \ {NONE})),
         top \notin OthersUse(p),
         \A page \in Pages : m.leaf[page] # NONE => m.contents[m.leaf[page]] \in {Zero, p},
         \A f \in OthersUse(p) : m.contents[f] = contents[f],
         ~ failed' => \A f \in Frame :
                         \/ f \in m.available \cup (OthersUse(p) \cup ({top} \ {NONE}))
                         \/ \E t \in Tables : m.tables[t] = f
                         \/ \E page \in Pages : m.leaf[page] = f,
         available' = m.available, contents' = m.contents,
         root' = [root EXCEPT ![p] = top], tables' = [tables EXCEPT ![p] = m.tables],
         leaf' = [leaf EXCEPT ![p] = m.leaf]
  PROVE  FramesInv'
<1>t. SpaceTypeOK
  BY DEF FramesInv
<1>m. /\ m.available \in SUBSET Frame /\ m.tables \in [Tables -> Frame \cup {NONE}]
      /\ m.leaf \in [Pages -> Frame \cup {NONE}] /\ m.contents \in [Frame -> Pids \cup {Zero}]
  BY DEF Spaces
<1>1. /\ root'[p] = top /\ tables'[p] = m.tables /\ leaf'[p] = m.leaf
      /\ \A q \in Pids : q # p => /\ root'[q] = root[q] /\ tables'[q] = tables[q]
                                  /\ leaf'[q] = leaf[q]
  BY <1>t DEF SpaceTypeOK
<1>2. SpaceTypeOK'
  BY <1>t, <1>m DEF SpaceTypeOK
<1>3. \A q \in Pids : q # p => UsedBy(q)' = UsedBy(q) /\ UsedBy(q) \subseteq OthersUse(p)
  BY <1>1 DEF UsedBy, OthersUse
<1>4. \A f : f \in UsedBy(p)' <=> /\ f # NONE
                                 /\ \/ f = top
                                    \/ \E t \in Tables : m.tables[t] = f
                                    \/ \E page \in Pages : m.leaf[page] = f
  <2>1. UsedBy(p)' = ({top} \cup Range(m.tables) \cup Range(m.leaf)) \ {NONE}
    BY <1>1 DEF UsedBy
  <2>2. DOMAIN m.tables = Tables /\ DOMAIN m.leaf = Pages
    BY <1>m
  <2> QED BY <2>1, <2>2 DEF Range
<1>5. UsedBy(p)' \cap OthersUse(p) = {}
  <2> SUFFICES ASSUME NEW f, f \in UsedBy(p)', f \in OthersUse(p) PROVE FALSE
    OBVIOUS
  <2> QED BY <1>4 DEF Apart
<1>6. ASSUME NEW q \in Pids
      PROVE  Apart(available', tables'[q], leaf'[q], {root'[q]} \ {NONE}) /\ root'[q] \notin available'
  <2>1. CASE q = p
    <3>1. top \notin m.available
      BY <1>m, NoFrameIsNone DEF Apart
    <3>2. Apart(m.available, m.tables, m.leaf, {top} \ {NONE})
      BY DEF Apart
    <3> QED BY <1>1, <2>1, <3>1, <3>2
  <2>2. CASE q # p
    <3>1. \A f \in UsedBy(q) : f \notin m.available
      BY <1>3, <2>2 DEF Apart
    <3>2. /\ Apart(available, tables[q], leaf[q], {root[q]} \ {NONE})
      BY DEF FramesInv, FramesApart
    <3>3. /\ \A t \in Tables : tables[q][t] # NONE => tables[q][t] \notin m.available
          /\ \A x \in Pages : leaf[q][x] # NONE => leaf[q][x] \notin m.available
          /\ root[q] # NONE => root[q] \notin m.available
      BY <1>t, <3>1, UsedFacts
    <3>4. Apart(m.available, tables[q], leaf[q], {root[q]} \ {NONE})
      BY <3>2, <3>3 DEF Apart
    <3>5. root[q] \notin m.available
      BY <1>m, <3>3, NoFrameIsNone
    <3> QED BY <1>1, <2>2, <3>4, <3>5
  <2> QED BY <2>1, <2>2
<1>7. ASSUME NEW q \in Pids, NEW o \in Pids, q # o PROVE UsedBy(q)' \cap UsedBy(o)' = {}
  <2>1. CASE q = p
    BY <1>3, <1>5, <1>7, <2>1
  <2>2. CASE o = p
    BY <1>3, <1>5, <1>7, <2>2
  <2>3. CASE q # p /\ o # p
    BY <1>3, <1>7, <2>3 DEF FramesInv, FramesApart
  <2> QED BY <2>1, <2>2, <2>3
<1>8. FramesApart'
  BY <1>6, <1>7 DEF FramesApart
<1>9. NoForeignData'
  <2> SUFFICES ASSUME NEW q \in Pids, NEW page \in Pages, leaf'[q][page] # NONE
               PROVE  m.contents[leaf'[q][page]] \in {Zero, q}
    BY DEF NoForeignData
  <2>1. CASE q = p
    BY <1>1, <2>1
  <2>2. CASE q # p
    <3>1. PICK f : f = leaf[q][page]
      OBVIOUS
    <3>2. leaf'[q][page] = f /\ f # NONE /\ contents[f] \in {Zero, q}
      BY <1>1, <2>2, <3>1 DEF FramesInv, NoForeignData
    <3>3. f \in UsedBy(q)
      BY <1>t, <3>1, <3>2, UsedFacts
    <3>4. m.contents[f] = contents[f]
      BY <1>3, <2>2, <3>3
    <3> QED BY <3>2, <3>4
  <2> QED BY <2>1, <2>2
<1>10. NothingLeaks'
  <2> SUFFICES ASSUME ~ failed', NEW f \in Frame
               PROVE  f \in available' \/ \E q \in Pids : f \in UsedBy(q)'
    BY DEF NothingLeaks
  <2>1. CASE f \in OthersUse(p)
    <3>1. PICK q \in Pids : q # p /\ f \in UsedBy(q)
      BY <2>1 DEF OthersUse
    <3> QED BY <1>3, <3>1
  <2>2. CASE f = top \/ (\E t \in Tables : m.tables[t] = f) \/ \E page \in Pages : m.leaf[page] = f
    <3>1. f \in UsedBy(p)'
      BY <1>4, <2>2, NoFrameIsNone
    <3> QED BY <3>1
  <2> QED BY <2>1, <2>2
<1> QED BY <1>2, <1>8, <1>9, <1>10 DEF FramesInv

\* The space a call begins with: the root `top' of the process is that of its
\* record, or a new frame whose contents are cleared.
Begins(p, top, m) ==
  /\ top \in Frame \cup {NONE} /\ m \in Spaces
  /\ root[p] = top \/ (root[p] = NONE /\ top \in available)
  /\ m.available = available \ {top} /\ m.tables = tables[p] /\ m.leaf = leaf[p]
  /\ m.result = "Ok"
  /\ \A f \in Frame : f # top => m.contents[f] = contents[f]
  /\ root[p] = top => m.contents = contents

\* What it leaves when r is the space it ends with.
MappingEnds(p, top, r) ==
  /\ available' = r.available /\ contents' = r.contents
  /\ root' = [root EXCEPT ![p] = top] /\ tables' = [tables EXCEPT ![p] = r.tables]
  /\ leaf' = [leaf EXCEPT ![p] = r.leaf]
  /\ ~ failed' => ~ failed /\ r.result # "Err"

KeepsLeaves(p, r) == \A page \in Pages : leaf[p][page] # NONE => r.leaf[page] # NONE

\* The frames a call on the space of process p does not touch.
Taken(p, top) == OthersUse(p) \cup ({top} \ {NONE})

LEMMA MappingStaysSound ==
  ASSUME FramesInv, NEW p \in Pids, NEW top, NEW m, Begins(p, top, m),
         NEW n \in Nat, NEW pages, PageList(pages, n),
         NEW r, r = Mapped(m, pages)
  PROVE  /\ r \in Spaces
         /\ top \notin OthersUse(p)
         /\ Sound(r, p, Taken(p, top), IF failed THEN {} ELSE Frame, leaf[p], m.contents)
         /\ r.result = "Ok" => AllMapped(r, pages)
<1>b. /\ top \in Frame \cup {NONE} /\ m \in Spaces
      /\ root[p] = top \/ (root[p] = NONE /\ top \in available)
      /\ m.available = available \ {top} /\ m.tables = tables[p] /\ m.leaf = leaf[p]
      /\ m.result = "Ok"
      /\ \A f \in Frame : f # top => m.contents[f] = contents[f]
      /\ root[p] = top => m.contents = contents
  BY DEF Begins
<1>t. SpaceTypeOK
  BY DEF FramesInv
<1>1. PICK taken : taken = OthersUse(p) \cup ({top} \ {NONE})
  OBVIOUS
<1>2. PICK whole : whole = IF failed THEN {} ELSE Frame
  OBVIOUS
<1>3. taken \in SUBSET Frame /\ whole \in SUBSET Frame
  BY <1>b, <1>t, <1>1, <1>2, UsedAreFrames
<1>4. \A q \in Pids : UsedBy(q) \cap available = {}
  <2>1. ASSUME NEW q \in Pids, NEW f \in UsedBy(q) PROVE f \notin available
    BY <1>b, <1>t, UsedFacts DEF FramesInv, FramesApart, Apart
  <2> QED BY <1>b, <2>1
<1>5. OthersUse(p) \cap available = {} /\ OthersUse(p) \cap UsedBy(p) = {}
  BY <1>b, <1>4 DEF OthersUse, FramesInv, FramesApart
<1>6. top \notin OthersUse(p)
  <2>1. CASE top \in available
    BY <1>b, <1>5, <2>1
  <2>2. CASE top = NONE
    BY <1>b, <1>t, <2>2, UsedAreFrames, NoFrameIsNone
  <2>3. CASE root[p] = top /\ top # NONE
    BY <1>b, <1>t, <1>5, <2>3, UsedFacts
  <2> QED BY <1>b, <2>1, <2>2, <2>3
<1>7. Apart(m.available, m.tables, m.leaf, taken)
  <2>1. /\ \A t \in Tables : tables[p][t] # NONE => tables[p][t] \in UsedBy(p)
        /\ \A x \in Pages : leaf[p][x] # NONE => leaf[p][x] \in UsedBy(p)
    BY <1>b, <1>t, UsedFacts
  <2>2. Apart(available, tables[p], leaf[p], {root[p]} \ {NONE})
    BY DEF FramesInv, FramesApart
  <2>3. \A f \in UsedBy(p) : f \notin OthersUse(p) /\ f \notin available
    BY <1>b, <1>4, <1>5
  <2>4. /\ \A t \in Tables : tables[p][t] # NONE => tables[p][t] # top
        /\ \A x \in Pages : leaf[p][x] # NONE => leaf[p][x] # top
    BY <1>b, <2>1, <2>2, <2>3 DEF Apart
  <2>5. taken \cap m.available = {}
    BY <1>b, <1>1, <1>5
  <2> QED BY <1>b, <1>1, <2>1, <2>2, <2>3, <2>4, <2>5 DEF Apart
<1>8. \A x \in Pages : m.leaf[x] # NONE => m.contents[m.leaf[x]] \in {Zero, p}
  <2> SUFFICES ASSUME NEW x \in Pages, leaf[p][x] # NONE
               PROVE  m.contents[leaf[p][x]] \in {Zero, p}
    BY <1>b
  <2>1. contents[leaf[p][x]] \in {Zero, p}
    BY DEF FramesInv, NoForeignData
  <2>2. leaf[p][x] \in Frame
    BY <1>b, <1>t DEF SpaceTypeOK
  <2>3. leaf[p][x] # top \/ root[p] = top
    BY <1>b DEF FramesInv, FramesApart, Apart
  <2> QED BY <1>b, <2>1, <2>2, <2>3
<1>9. ASSUME NEW f \in whole
      PROVE  \/ f \in m.available \cup taken
             \/ \E t \in Tables : m.tables[t] = f
             \/ \E page \in Pages : m.leaf[page] = f
  <2>1. ~ failed /\ f \in Frame
    BY <1>b, <1>2
  <2>2. f \in available \/ \E q \in Pids : f \in UsedBy(q)
    BY <1>b, <2>1 DEF FramesInv, NothingLeaks
  <2>3. CASE f \in available
    BY <1>b, <1>1, <2>1, <2>3, NoFrameIsNone
  <2>4. ASSUME NEW q \in Pids, q # p, f \in UsedBy(q) PROVE f \in taken
    BY <1>b, <1>1, <2>4 DEF OthersUse
  <2>5. CASE f \in UsedBy(p)
    BY <1>b, <1>t, <1>1, <2>5, UsedFacts
  <2> QED BY <1>b, <2>2, <2>3, <2>4, <2>5
<1>10. Sound(m, p, taken, whole, leaf[p], m.contents)
  BY <1>b, <1>7, <1>8, <1>9 DEF Sound
<1>11. PICK l, c : l = leaf[p] /\ c = m.contents
  OBVIOUS
<1>12. Sound(m, p, taken, whole, l, c)
  BY <1>b, <1>10, <1>11
<1>13. /\ r \in Spaces /\ Sound(r, p, taken, whole, l, c)
       /\ r.result = "Ok" => AllMapped(r, pages)
  <2>1. r \in Spaces /\ Sound(r, p, taken, whole, l, c)
    BY <1>b, <1>3, <1>12, MappedSound DEF PageList
  <2>2. r.result = "Ok" => AllMapped(r, pages)
    BY <1>b, <1>3, <1>12, MappedSound DEF PageList
  <2> QED BY <1>b, <2>1, <2>2
<1>14. Sound(r, p, Taken(p, top), IF failed THEN {} ELSE Frame, leaf[p], m.contents)
  BY <1>1, <1>2, <1>11, <1>13 DEF Taken
<1> QED BY <1>6, <1>13, <1>14

LEMMA MappingKeepsFrames ==
  ASSUME FramesInv, NEW p \in Pids, NEW top, NEW m, Begins(p, top, m),
         NEW n \in Nat, NEW pages, PageList(pages, n),
         NEW r, r = Mapped(m, pages), MappingEnds(p, top, r)
  PROVE  /\ FramesInv'
         /\ KeepsLeaves(p, r)
         /\ r.result = "Ok" => AllMapped(r, pages)
<1>b. /\ top \in Frame \cup {NONE} /\ m \in Spaces
      /\ root[p] = top \/ (root[p] = NONE /\ top \in available)
      /\ m.available = available \ {top} /\ m.tables = tables[p] /\ m.leaf = leaf[p]
      /\ m.result = "Ok"
      /\ \A f \in Frame : f # top => m.contents[f] = contents[f]
      /\ root[p] = top => m.contents = contents
  BY DEF Begins
<1>e. /\ available' = r.available /\ contents' = r.contents
      /\ root' = [root EXCEPT ![p] = top] /\ tables' = [tables EXCEPT ![p] = r.tables]
      /\ leaf' = [leaf EXCEPT ![p] = r.leaf]
      /\ ~ failed' => ~ failed /\ r.result # "Err"
  BY DEF MappingEnds
<1>t. SpaceTypeOK
  BY DEF FramesInv
<1>1. PICK taken, whole, l, c :
        /\ taken = Taken(p, top) /\ whole = IF failed THEN {} ELSE Frame
        /\ l = leaf[p] /\ c = m.contents
  OBVIOUS
<1>2. r \in Spaces /\ top \notin OthersUse(p)
  BY MappingStaysSound
<1>3. Sound(r, p, taken, whole, l, c)
  <2>1. Sound(r, p, Taken(p, top), IF failed THEN {} ELSE Frame, leaf[p], m.contents)
    BY MappingStaysSound
  <2> QED BY <1>1, <2>1
<1>4. r.result = "Ok" => AllMapped(r, pages)
  BY MappingStaysSound
<1>5. KeepsLeaves(p, r)
  BY <1>1, <1>3 DEF Sound, KeepsLeaves
<1>6. \A f \in OthersUse(p) : r.contents[f] = contents[f]
  <2>1. ASSUME NEW f \in OthersUse(p) PROVE f \in Frame /\ f # top /\ f \in taken
    BY <1>t, <1>1, <1>2, UsedAreFrames DEF Taken
  <2> QED BY <1>b, <1>1, <1>3, <2>1 DEF Sound
<1>7. ASSUME ~ failed', NEW f \in Frame
      PROVE  \/ f \in r.available \cup taken
             \/ \E t \in Tables : r.tables[t] = f
             \/ \E page \in Pages : r.leaf[page] = f
  <2>1. r.result = "Ok" /\ f \in whole
    BY <1>e, <1>1, <1>2, <1>7 DEF Spaces
  <2> QED BY <1>3, <2>1 DEF Sound
<1>8. FramesInv'
  <2>1. Apart(r.available, r.tables, r.leaf, OthersUse(p) \cup ({top} \ {NONE}))
    BY <1>1, <1>3 DEF Sound, Taken
  <2>2. \A page \in Pages : r.leaf[page] # NONE => r.contents[r.leaf[page]] \in {Zero, p}
    BY <1>3 DEF Sound
  <2>3. ~ failed' => \A f \in Frame :
                        \/ f \in r.available \cup (OthersUse(p) \cup ({top} \ {NONE}))
                        \/ \E t \in Tables : r.tables[t] = f
                        \/ \E page \in Pages : r.leaf[page] = f
    BY <1>1, <1>7 DEF Taken
  <2> QED BY <1>b, <1>e, <1>2, <1>6, <2>1, <2>2, <2>3, KeepsFrames
<1> QED BY <1>4, <1>5, <1>8

-----------------------------------------------------------------------------
\* Rounding of the break.
LEMMA BreakRounding ==
  ASSUME NEW b \in 0 .. HEAP_LIMIT
  PROVE  \E k \in Nat : /\ PageUp(b) = k * PAGE_SIZE /\ PageUp(b) \div PAGE_SIZE = k
                       /\ b <= PageUp(b) /\ PageUp(b) <= HEAP_LIMIT
                       /\ PageUp(b) \in 0 .. HEAP_LIMIT /\ PageUp(b) % PAGE_SIZE = 0
                       /\ k <= HEAP_LIMIT \div PAGE_SIZE
<1> USE PagingAssumption, AddressSpaceAssumption
<1>1. PICK k, a, h : /\ a = (b + PAGE_SIZE) - 1 /\ k = a \div PAGE_SIZE
                     /\ h = HEAP_LIMIT \div PAGE_SIZE
  OBVIOUS
<1>2. a \in Nat /\ k \in Nat /\ h \in Nat
  BY <1>1
<1>3. a % PAGE_SIZE \in 0 .. (PAGE_SIZE - 1) /\ a = PAGE_SIZE * k + (a % PAGE_SIZE)
  BY <1>1, <1>2
<1>4. PageUp(b) = k * PAGE_SIZE
  BY <1>1 DEF PageUp, PageDown
<1>5. HEAP_LIMIT = PAGE_SIZE * h
  BY <1>1
<1>6. k <= h
  <2> SUFFICES ASSUME k >= h + 1 PROVE FALSE
    BY <1>2
  <2>1. PAGE_SIZE * k >= PAGE_SIZE * h + PAGE_SIZE
    BY <1>2
  <2> QED BY <1>1, <1>2, <1>3, <1>5, <2>1
<1>7. k * PAGE_SIZE <= PAGE_SIZE * h /\ k * PAGE_SIZE \in Nat
  BY <1>2, <1>6
<1>8. b <= k * PAGE_SIZE
  BY <1>1, <1>2, <1>3
<1>9. (k * PAGE_SIZE) % PAGE_SIZE = 0 /\ (k * PAGE_SIZE) \div PAGE_SIZE = k
  BY <1>2, Multiples
<1>10. PageUp(b) <= HEAP_LIMIT /\ PageUp(b) \in 0 .. HEAP_LIMIT
  BY <1>4, <1>5, <1>7
<1>11. k <= HEAP_LIMIT \div PAGE_SIZE
  BY <1>1, <1>6
<1> QED BY <1>2, <1>4, <1>8, <1>9, <1>10, <1>11

LEMMA SpaceFields ==
  ASSUME FramesInv, NEW p \in Pids, NEW pool \in SUBSET Frame, NEW m, m = Space(p, pool)
  PROVE  /\ m \in Spaces /\ m.available = pool /\ m.tables = tables[p] /\ m.leaf = leaf[p]
         /\ m.contents = contents /\ m.result = "Ok"
BY DEF FramesInv, SpaceTypeOK, Space, Spaces

LEMMA GrowStep ==
  ASSUME FramesInv, HeapInv, NEW p \in Pids, NEW requested_break \in 0 .. HEAP_LIMIT,
         BrkGrow(p, requested_break)
  PROVE  FramesInv' /\ HeapInv'
<1>t. /\ root \in [Pids -> Frame \cup {NONE}] /\ leaf \in [Pids -> [Pages -> Frame \cup {NONE}]]
      /\ heap_break \in [Pids -> 0 .. HEAP_LIMIT] /\ heap_mapped_end \in [Pids -> 0 .. HEAP_LIMIT]
      /\ loaded \subseteq Pids /\ available \in SUBSET Frame
  BY DEF FramesInv, SpaceTypeOK, HeapInv, HeapTypeOK
<1>u. UNCHANGED <<root, loaded>> /\ p \in loaded
  BY DEF BrkGrow
<1>1. PICK first, count, m, pages, r :
        /\ first = heap_mapped_end[p] \div PAGE_SIZE
        /\ count = PageUp(requested_break) \div PAGE_SIZE - first
        /\ m = Space(p, available) /\ pages = [i \in 1 .. count |-> first + i - 1]
        /\ r = Mapped(m, pages)
  OBVIOUS
<1>2. /\ Keep(p, r)
      /\ IF r.result = "Ok"
         THEN /\ heap_break' = [heap_break EXCEPT ![p] = requested_break]
              /\ heap_mapped_end' = [heap_mapped_end EXCEPT ![p] = PageUp(requested_break)]
         ELSE UNCHANGED <<heap_break, heap_mapped_end>>
  BY <1>1 DEF BrkGrow
<1>3. PICK k \in Nat : /\ PageUp(requested_break) = k * PAGE_SIZE
                       /\ PageUp(requested_break) \div PAGE_SIZE = k
                       /\ requested_break <= PageUp(requested_break)
                       /\ PageUp(requested_break) \in 0 .. HEAP_LIMIT
                       /\ PageUp(requested_break) % PAGE_SIZE = 0
                       /\ k <= HEAP_LIMIT \div PAGE_SIZE
  BY BreakRounding
<1>4. PICK h : h = heap_mapped_end[p]
  OBVIOUS
<1>5. /\ h \in Nat /\ h % PAGE_SIZE = 0 /\ heap_break[p] <= h
      /\ \A page \in HeapPages : page * PAGE_SIZE < h => leaf[p][page] # NONE
  BY <1>t, <1>u, <1>4 DEF HeapInv, HeapMapped
<1>6. first \in Nat /\ h = PAGE_SIZE * first
  <2>1. h \in Nat /\ h % PAGE_SIZE = 0 /\ PAGE_SIZE \in Nat \ {0}
    BY <1>5, PagingAssumption
  <2>2. first = h \div PAGE_SIZE
    BY <1>1, <1>4
  <2> QED BY <2>1, <2>2
<1>7. PICK n \in Nat : 1 .. count = 1 .. n /\ (count <= 0 \/ n = count)
  <2>1. count = k - first
    BY <1>1, <1>3
  <2>2. CASE count <= 0
    <3>1. 1 .. count = 1 .. 0
      BY <1>3, <1>6, <2>1, <2>2
    <3> QED BY <2>2, <3>1
  <2>3. CASE ~ (count <= 0)
    <3>1. count \in Nat
      BY <1>3, <1>6, <2>1, <2>3
    <3> QED BY <3>1
  <2> QED BY <2>2, <2>3
<1>8. DOMAIN pages = 1 .. n /\ \A i \in 1 .. n : pages[i] = first + i - 1
  BY <1>1, <1>7
<1>9. ASSUME NEW i \in 1 .. n PROVE pages[i] \in Pages
  <2>1. count = k - first /\ n = count
    BY <1>1, <1>3, <1>7
  <2>2. HEAP_LIMIT \div PAGE_SIZE \in Nat
    BY AddressSpaceAssumption, PagingAssumption
  <2>3. first + i - 1 \in HeapPages
    BY <1>3, <1>6, <1>7, <2>1, <2>2 DEF HeapPages
  <2> QED BY <1>8, <2>3 DEF Pages
<1>10. /\ m \in Spaces /\ m.available = available /\ m.tables = tables[p] /\ m.leaf = leaf[p]
       /\ m.contents = contents /\ m.result = "Ok"
  BY <1>t, <1>1, SpaceFields
<1>11. PICK top : top = root[p]
  OBVIOUS
<1>12. top \in Frame \cup {NONE} /\ top \notin available /\ root' = [root EXCEPT ![p] = top]
  BY <1>t, <1>u, <1>11 DEF FramesInv, FramesApart
<1>13. /\ available' = r.available /\ contents' = r.contents
       /\ tables' = [tables EXCEPT ![p] = r.tables] /\ leaf' = [leaf EXCEPT ![p] = r.leaf]
       /\ ~ failed' => ~ failed /\ r.result # "Err"
  BY <1>2 DEF Keep
<1>14. /\ FramesInv'
       /\ KeepsLeaves(p, r)
       /\ r.result = "Ok" => AllMapped(r, pages)
  <2>1. Begins(p, top, m)
    BY <1>10, <1>11, <1>12 DEF Begins
  <2>2. r = Mapped(m, pages)
    BY <1>1
  <2>3. PageList(pages, n)
    BY <1>8, <1>9 DEF PageList
  <2>4. MappingEnds(p, top, r)
    BY <1>12, <1>13 DEF MappingEnds
  <2> QED BY <2>1, <2>2, <2>3, <2>4, MappingKeepsFrames
<1>15. HeapTypeOK'
  BY <1>t, <1>u, <1>2, <1>3 DEF HeapTypeOK
<1>16. /\ leaf'[p] = r.leaf
       /\ \A q \in Pids : q # p => /\ leaf'[q] = leaf[q] /\ heap_break'[q] = heap_break[q]
                                   /\ heap_mapped_end'[q] = heap_mapped_end[q]
  BY <1>t, <1>2, <1>13
<1>17. \A page \in HeapPages : page * PAGE_SIZE < h => r.leaf[page] # NONE
  BY <1>5, <1>14 DEF KeepsLeaves, Pages
<1>18. /\ heap_break'[p] <= heap_mapped_end'[p] /\ heap_mapped_end'[p] % PAGE_SIZE = 0
       /\ \A page \in HeapPages : page * PAGE_SIZE < heap_mapped_end'[p] => r.leaf[page] # NONE
  <2>1. CASE r.result = "Ok"
    <3>1. heap_break'[p] = requested_break /\ heap_mapped_end'[p] = k * PAGE_SIZE
      BY <1>t, <1>2, <1>3, <2>1
    <3>2. ASSUME NEW page \in HeapPages, page * PAGE_SIZE < k * PAGE_SIZE
          PROVE  r.leaf[page] # NONE
      <4>1. page \in Nat
        BY AddressSpaceAssumption, PagingAssumption DEF HeapPages
      <4>2. PAGE_SIZE \in Nat \ {0}
        BY PagingAssumption
      <4>3. page < k
        BY <1>3, <3>2, <4>1, <4>2
      <4>4. CASE page < first
        <5>1. page * PAGE_SIZE < PAGE_SIZE * first
          BY <1>6, <4>1, <4>2, <4>4
        <5> QED BY <1>6, <1>17, <5>1
      <4>5. CASE page >= first
        <5>1. count = k - first
          BY <1>1, <1>3
        <5>2. n = count /\ (page - first) + 1 \in 1 .. n
          BY <1>3, <1>6, <1>7, <4>1, <4>3, <4>5, <5>1
        <5>3. pages[(page - first) + 1] = page
          BY <1>6, <1>8, <4>1, <5>2
        <5>4. AllMapped(r, pages)
          BY <1>14, <2>1
        <5> QED BY <1>8, <5>2, <5>3, <5>4 DEF AllMapped
      <4> QED BY <1>6, <4>1, <4>4, <4>5
    <3> QED BY <1>3, <3>1, <3>2
  <2>2. CASE r.result # "Ok"
    BY <1>2, <1>4, <1>5, <1>17, <2>2
  <2> QED BY <2>1, <2>2
<1>19. HeapMapped'
  <2> SUFFICES ASSUME NEW q \in loaded
               PROVE  /\ heap_break'[q] <= heap_mapped_end'[q] /\ heap_mapped_end'[q] % PAGE_SIZE = 0
                      /\ \A page \in HeapPages :
                           page * PAGE_SIZE < heap_mapped_end'[q] => leaf'[q][page] # NONE
    BY <1>u DEF HeapMapped
  <2>1. CASE q = p
    BY <1>16, <1>18, <2>1
  <2>2. CASE q # p
    BY <1>t, <1>16, <2>2 DEF HeapInv, HeapMapped
  <2> QED BY <2>1, <2>2
<1>20. HeapInv'
  BY <1>15, <1>19 DEF HeapInv
<1> QED BY <1>14, <1>20

LEMMA SpawnStep ==
  ASSUME FramesInv, HeapInv, Spawn
  PROVE  FramesInv' /\ HeapInv'
<1>t. /\ root \in [Pids -> Frame \cup {NONE}] /\ leaf \in [Pids -> [Pages -> Frame \cup {NONE}]]
      /\ tables \in [Pids -> [Tables -> Frame \cup {NONE}]]
      /\ contents \in [Frame -> Pids \cup {Zero}]
      /\ heap_break \in [Pids -> 0 .. HEAP_LIMIT] /\ heap_mapped_end \in [Pids -> 0 .. HEAP_LIMIT]
      /\ loaded \subseteq Pids /\ available \in SUBSET Frame
  BY DEF FramesInv, SpaceTypeOK, HeapInv, HeapTypeOK
<1>1. PICK p, f, m, r :
        /\ p = Min({q \in Pids : root[q] = NONE}) /\ f = Lowest(available)
        /\ m = [Space(p, available \ {f}) EXCEPT !.contents[f] = Zero]
        /\ r = Mapped(m, Image)
  OBVIOUS
<1>2. PICK threadFree \in BOOLEAN :
        LET ok == r.result = "Ok" /\ threadFree
        IN /\ root' = [root EXCEPT ![p] = f]
           /\ Keep(p, [r EXCEPT !.result = IF ok THEN "Ok" ELSE "Err"])
           /\ loaded' = IF ok THEN loaded \cup {p} ELSE loaded
           /\ heap_break' = [heap_break EXCEPT ![p] = 0]
           /\ heap_mapped_end' = [heap_mapped_end EXCEPT ![p] = 0]
  BY <1>1 DEF Spawn
<1>3. p \in Pids /\ root[p] = NONE
  <2>1. PICK free : free = {q \in Pids : root[q] = NONE}
    OBVIOUS
  <2>2. free # {} /\ free \subseteq Nat
    BY <2>1, AddressSpaceAssumption DEF Spawn
  <2>3. Min(free) \in free
    BY <2>2, MinIsLeast
  <2> QED BY <1>1, <2>1, <2>3
<1>4. f \in available /\ f \in Frame /\ f # NONE
  BY <1>t, <1>1, LowestFrame DEF Spawn
<1>5. PICK m0 : m0 = Space(p, available \ {f})
  OBVIOUS
<1>6. /\ m0 \in Spaces /\ m0.available = available \ {f} /\ m0.tables = tables[p]
      /\ m0.leaf = leaf[p] /\ m0.contents = contents /\ m0.result = "Ok"
  <2>1. available \ {f} \in SUBSET Frame
    BY <1>t
  <2> QED BY <1>3, <1>5, <2>1, SpaceFields
<1>7. m = [m0 EXCEPT !.contents[f] = Zero]
  BY <1>1, <1>5
<1>8. /\ m.available = available \ {f} /\ m.tables = tables[p] /\ m.leaf = leaf[p]
      /\ m.contents = [contents EXCEPT ![f] = Zero] /\ m.result = "Ok" /\ m \in Spaces
  BY <1>t, <1>4, <1>6, <1>7 DEF Spaces
<1>9. Begins(p, f, m)
  BY <1>t, <1>3, <1>4, <1>8 DEF Begins
<1>10. PageList(Image, Len(Image)) /\ Len(Image) \in Nat
  BY AddressSpaceAssumption DEF PageList, Pages, Range
<1>11. MappingEnds(p, f, r)
  <2>1. r = Mapped(m, Image)
    BY <1>1
  <2>2. r \in Spaces
    BY <1>3, <1>9, <1>10, <2>1, MappingStaysSound
  <2>3. PICK result, w : /\ result = IF r.result = "Ok" /\ threadFree THEN "Ok" ELSE "Err"
                         /\ w = [r EXCEPT !.result = result]
    OBVIOUS
  <2>4. /\ w.available = r.available /\ w.contents = r.contents /\ w.tables = r.tables
        /\ w.leaf = r.leaf /\ w.result = result
    BY <2>2, <2>3 DEF Spaces
  <2>5. Keep(p, w) /\ root' = [root EXCEPT ![p] = f]
    BY <1>2, <2>3
  <2>6. result # "Err" => r.result # "Err"
    BY <2>3
  <2> QED BY <2>4, <2>5, <2>6 DEF MappingEnds, Keep
<1>12. FramesInv'
  <2>1. r = Mapped(m, Image)
    BY <1>1
  <2> QED BY <1>3, <1>9, <1>10, <1>11, <2>1, MappingKeepsFrames
<1>13. HeapTypeOK'
  BY <1>t, <1>2, <1>3, AddressSpaceAssumption DEF HeapTypeOK
<1>14. /\ heap_break'[p] = 0 /\ heap_mapped_end'[p] = 0
       /\ \A q \in Pids : q # p => /\ leaf'[q] = leaf[q] /\ heap_break'[q] = heap_break[q]
                                   /\ heap_mapped_end'[q] = heap_mapped_end[q]
  BY <1>t, <1>2, <1>3, <1>11 DEF MappingEnds
<1>15. HeapMapped'
  <2> SUFFICES ASSUME NEW q \in loaded'
               PROVE  /\ heap_break'[q] <= heap_mapped_end'[q] /\ heap_mapped_end'[q] % PAGE_SIZE = 0
                      /\ \A page \in HeapPages :
                           page * PAGE_SIZE < heap_mapped_end'[q] => leaf'[q][page] # NONE
    BY DEF HeapMapped
  <2>1. CASE q = p
    <3>1. \A page \in HeapPages : page * PAGE_SIZE \in Nat
      BY AddressSpaceAssumption, PagingAssumption DEF HeapPages
    <3>2. 0 % PAGE_SIZE = 0
      BY PagingAssumption
    <3> QED BY <1>14, <2>1, <3>1, <3>2
  <2>2. CASE q # p
    <3>1. q \in loaded
      BY <1>2, <2>2
    <3> QED BY <1>t, <1>14, <2>2, <3>1 DEF HeapInv, HeapMapped
  <2> QED BY <2>1, <2>2
<1>16. HeapInv'
  BY <1>13, <1>15 DEF HeapInv
<1> QED BY <1>12, <1>16

\* The record table is full: the frame that was to be the root is lost.
LEMMA SpawnTableFullStep ==
  ASSUME FramesInv, HeapInv, SpawnTableFull
  PROVE  FramesInv' /\ HeapInv'
<1>t. SpaceTypeOK
  BY DEF FramesInv
<1>1. PICK f : f = Lowest(available)
  OBVIOUS
<1>2. f \in available /\ f \in Frame
  BY <1>t, <1>1, LowestFrame DEF SpawnTableFull, SpaceTypeOK
<1>3. /\ available' = available \ {f} /\ contents' = [contents EXCEPT ![f] = Zero] /\ failed' = TRUE
      /\ UNCHANGED <<root, tables, leaf, heap_break, heap_mapped_end, loaded>>
  BY <1>1 DEF SpawnTableFull
<1>4. SpaceTypeOK'
  BY <1>t, <1>2, <1>3 DEF SpaceTypeOK
<1>5. FramesApart'
  <2>1. \A q \in Pids : UsedBy(q)' = UsedBy(q)
    BY <1>3 DEF UsedBy
  <2>2. \A q \in Pids : Apart(available', tables[q], leaf[q], {root[q]} \ {NONE}) /\ root[q] \notin available'
    BY <1>3 DEF FramesInv, FramesApart, Apart
  <2> QED BY <1>3, <2>1, <2>2 DEF FramesInv, FramesApart
<1>6. NoForeignData'
  BY <1>t, <1>2, <1>3 DEF FramesInv, NoForeignData, SpaceTypeOK
<1>7. NothingLeaks'
  BY <1>3 DEF NothingLeaks
<1>8. HeapInv'
  BY <1>3 DEF HeapInv, HeapTypeOK, HeapMapped
<1> QED BY <1>4, <1>5, <1>6, <1>7, <1>8 DEF FramesInv

\* The frames and who uses them stay as they are.
LEMMA SameFrames ==
  ASSUME FramesInv, UNCHANGED <<available, root, tables, leaf, contents, failed>>
  PROVE  FramesInv'
<1>1. \A q \in Pids : UsedBy(q)' = UsedBy(q)
  BY DEF UsedBy
<1>2. SpaceTypeOK' /\ NoForeignData'
  BY DEF FramesInv, SpaceTypeOK, NoForeignData
<1>3. FramesApart'
  BY <1>1 DEF FramesInv, FramesApart
<1>4. NothingLeaks'
  <2>1. {UsedBy(p)' : p \in Pids} = {UsedBy(p) : p \in Pids}
    BY <1>1
  <2> QED BY <2>1 DEF FramesInv, NothingLeaks
<1> QED BY <1>2, <1>3, <1>4 DEF FramesInv

LEMMA ShrinkStep ==
  ASSUME FramesInv, HeapInv, NEW p \in Pids, NEW requested_break \in 0 .. HEAP_LIMIT,
         BrkShrink(p, requested_break)
  PROVE  FramesInv' /\ HeapInv'
<1>1. FramesInv'
  BY SameFrames DEF BrkShrink
<1>2. HeapTypeOK'
  BY DEF HeapInv, HeapTypeOK, BrkShrink
<1>3. ASSUME NEW q \in loaded PROVE heap_break'[q] <= heap_mapped_end[q]
  <2>1. /\ q \in Pids /\ heap_break[q] \in Nat /\ heap_mapped_end[q] \in Nat
        /\ heap_break[q] <= heap_mapped_end[q]
    BY DEF HeapInv, HeapTypeOK, HeapMapped
  <2>2. CASE q = p
    <3>1. heap_break'[q] = requested_break /\ requested_break <= heap_break[q]
      BY <2>1, <2>2 DEF HeapInv, HeapTypeOK, BrkShrink
    <3> QED BY <2>1, <3>1
  <2>3. CASE q # p
    BY <2>1, <2>3 DEF HeapInv, HeapTypeOK, BrkShrink
  <2> QED BY <2>2, <2>3
<1>4. HeapMapped'
  BY <1>3 DEF HeapInv, HeapMapped, BrkShrink
<1> QED BY <1>1, <1>2, <1>4 DEF HeapInv

\* A program writes to its own page, which nobody else uses.
LEMMA WriteStep ==
  ASSUME FramesInv, HeapInv, NEW p \in Pids, NEW page \in HeapPages, Write(p, page)
  PROVE  FramesInv' /\ HeapInv'
<1>t. SpaceTypeOK
  BY DEF FramesInv
<1>1. PICK f : f = leaf[p][page]
  OBVIOUS
<1>2. /\ contents' = [contents EXCEPT ![f] = p] /\ f # NONE
      /\ UNCHANGED <<available, root, tables, leaf, heap_break, heap_mapped_end, loaded, failed>>
  BY <1>1 DEF Write
<1>3. page \in Pages /\ f \in Frame
  BY <1>t, <1>1, <1>2 DEF Pages, SpaceTypeOK
<1>4. SpaceTypeOK'
  BY <1>t, <1>2, <1>3 DEF SpaceTypeOK
<1>5. \A q \in Pids : UsedBy(q)' = UsedBy(q)
  BY <1>2 DEF UsedBy
<1>6. FramesApart'
  BY <1>2, <1>5 DEF FramesInv, FramesApart
<1>7. NothingLeaks'
  <2>1. {UsedBy(q)' : q \in Pids} = {UsedBy(q) : q \in Pids}
    BY <1>5
  <2> QED BY <1>2, <2>1 DEF FramesInv, NothingLeaks
<1>8. NoForeignData'
  <2> SUFFICES ASSUME NEW q \in Pids, NEW x \in Pages, leaf[q][x] # NONE
               PROVE  contents'[leaf[q][x]] \in {Zero, q}
    BY <1>2 DEF NoForeignData
  <2>1. contents[leaf[q][x]] \in {Zero, q} /\ leaf[q][x] \in Frame
    BY <1>t DEF FramesInv, NoForeignData, SpaceTypeOK
  <2>2. CASE leaf[q][x] = f
    <3>1. f \in UsedBy(q) /\ f \in UsedBy(p)
      BY <1>t, <1>1, <1>2, <1>3, <2>2, UsedFacts
    <3>2. q = p
      BY <3>1 DEF FramesInv, FramesApart
    <3> QED BY <1>t, <1>2, <1>3, <2>2, <3>2 DEF SpaceTypeOK
  <2>3. CASE leaf[q][x] # f
    BY <1>t, <1>2, <2>1, <2>3 DEF SpaceTypeOK
  <2> QED BY <2>2, <2>3
<1>9. HeapInv'
  BY <1>2 DEF HeapInv, HeapTypeOK, HeapMapped
<1> QED BY <1>4, <1>6, <1>7, <1>8, <1>9 DEF FramesInv

\* Reaping returns what the process has used.
LEMMA ReapStep ==
  ASSUME FramesInv, HeapInv, NEW p \in Pids, Reap(p)
  PROVE  FramesInv' /\ HeapInv'
<1>t. SpaceTypeOK
  BY DEF FramesInv
<1>1. /\ available' = available \cup UsedBy(p) /\ root' = [root EXCEPT ![p] = NONE]
      /\ tables' = [tables EXCEPT ![p] = NoTables] /\ leaf' = [leaf EXCEPT ![p] = NoLeaves]
      /\ loaded' = loaded \ {p} /\ UNCHANGED <<heap_break, heap_mapped_end, contents, failed>>
  BY DEF Reap, Released, UsedBy
<1>2. /\ root'[p] = NONE /\ tables'[p] = NoTables /\ leaf'[p] = NoLeaves
      /\ \A q \in Pids : q # p => /\ root'[q] = root[q] /\ tables'[q] = tables[q]
                                  /\ leaf'[q] = leaf[q]
  BY <1>t, <1>1 DEF SpaceTypeOK
<1>3. SpaceTypeOK'
  <2>1. UsedBy(p) \subseteq Frame
    BY <1>t, UsedAreFrames
  <2> QED BY <1>t, <1>1, <2>1 DEF SpaceTypeOK, NoTables, NoLeaves
<1>4. UsedBy(p)' = {}
  <2>1. ASSUME NEW f PROVE f \notin UsedBy(p)'
    <3>1. f \in UsedBy(p)' => /\ f # NONE
                              /\ \/ f = root'[p]
                                 \/ \E t \in Tables : tables'[p][t] = f
                                 \/ \E page \in Pages : leaf'[p][page] = f
      <4>1. DOMAIN tables'[p] = Tables /\ DOMAIN leaf'[p] = Pages
        BY <1>3 DEF SpaceTypeOK
      <4> QED BY <4>1 DEF UsedBy, Range
    <3> QED BY <1>2, <3>1 DEF NoTables, NoLeaves
  <2> QED BY <2>1
<1>5. \A q \in Pids : q # p => UsedBy(q)' = UsedBy(q)
  BY <1>2 DEF UsedBy
<1>6. ASSUME NEW q \in Pids
      PROVE  Apart(available', tables'[q], leaf'[q], {root'[q]} \ {NONE}) /\ root'[q] \notin available'
  <2>1. CASE q = p
    <3>1. Apart(available', NoTables, NoLeaves, {NONE} \ {NONE})
      BY DEF Apart, NoTables, NoLeaves
    <3>2. NONE \notin available'
      BY <1>3, NoFrameIsNone DEF SpaceTypeOK
    <3> QED BY <1>2, <2>1, <3>1, <3>2
  <2>2. CASE q # p
    <3>1. \A f \in UsedBy(q) : f \notin UsedBy(p)
      BY <2>2 DEF FramesInv, FramesApart
    <3>2. Apart(available, tables[q], leaf[q], {root[q]} \ {NONE}) /\ root[q] \notin available
      BY DEF FramesInv, FramesApart
    <3>3. /\ \A t \in Tables : tables[q][t] # NONE => tables[q][t] \notin UsedBy(p)
          /\ \A x \in Pages : leaf[q][x] # NONE => leaf[q][x] \notin UsedBy(p)
          /\ root[q] # NONE => root[q] \notin UsedBy(p)
      BY <1>t, <3>1, UsedFacts
    <3>4. Apart(available', tables[q], leaf[q], {root[q]} \ {NONE})
      BY <1>1, <3>2, <3>3 DEF Apart
    <3>5. root[q] \notin available'
      BY <1>1, <1>3, <3>2, <3>3, NoFrameIsNone DEF SpaceTypeOK
    <3> QED BY <1>2, <2>2, <3>4, <3>5
  <2> QED BY <2>1, <2>2
<1>7. FramesApart'
  <2>1. ASSUME NEW q \in Pids, NEW o \in Pids, q # o PROVE UsedBy(q)' \cap UsedBy(o)' = {}
    BY <1>4, <1>5, <2>1 DEF FramesInv, FramesApart
  <2> QED BY <1>6, <2>1 DEF FramesApart
<1>8. NoForeignData'
  <2> SUFFICES ASSUME NEW q \in Pids, NEW x \in Pages, leaf'[q][x] # NONE
               PROVE  contents[leaf'[q][x]] \in {Zero, q}
    BY <1>1 DEF NoForeignData
  <2>1. q # p
    BY <1>2 DEF NoLeaves
  <2> QED BY <1>2, <2>1 DEF FramesInv, NoForeignData
<1>9. NothingLeaks'
  <2> SUFFICES ASSUME ~ failed, NEW f \in Frame
               PROVE  f \in available' \/ \E q \in Pids : f \in UsedBy(q)'
    BY <1>1 DEF NothingLeaks
  <2>1. f \in available \/ \E q \in Pids : f \in UsedBy(q)
    BY DEF FramesInv, NothingLeaks
  <2> QED BY <1>1, <1>5, <2>1
<1>10. HeapTypeOK'
  BY <1>1 DEF HeapInv, HeapTypeOK
<1>11. HeapMapped'
  <2> SUFFICES ASSUME NEW q \in loaded, q # p
               PROVE  /\ heap_break[q] <= heap_mapped_end[q] /\ heap_mapped_end[q] % PAGE_SIZE = 0
                      /\ \A page \in HeapPages :
                           page * PAGE_SIZE < heap_mapped_end[q] => leaf'[q][page] # NONE
    BY <1>1 DEF HeapMapped
  <2>1. leaf'[q] = leaf[q]
    BY <1>2 DEF HeapInv, HeapTypeOK
  <2> QED BY <2>1 DEF HeapInv, HeapMapped
<1> QED BY <1>3, <1>7, <1>8, <1>9, <1>10, <1>11 DEF FramesInv, HeapInv
-----------------------------------------------------------------------------
LEMMA InitFrames == Init => FramesInv /\ HeapInv
<1> SUFFICES ASSUME Init PROVE FramesInv /\ HeapInv
  OBVIOUS
<1>1. SpaceTypeOK
  BY DEF Init, SpaceTypeOK, NoTables, NoLeaves
<1>2. \A p \in Pids : root[p] = NONE /\ tables[p] = NoTables /\ leaf[p] = NoLeaves
  BY DEF Init
<1>3. \A p \in Pids : UsedBy(p) = {}
  <2>1. ASSUME NEW p \in Pids, NEW f PROVE f \notin UsedBy(p)
    BY <1>1, <1>2, UsedFacts DEF NoTables, NoLeaves
  <2> QED BY <2>1
<1>4. FramesApart
  <2>1. \A p \in Pids : Apart(available, NoTables, NoLeaves, {NONE} \ {NONE})
    BY DEF Apart, NoTables, NoLeaves
  <2>2. NONE \notin available
    BY NoFrameIsNone DEF Init
  <2> QED BY <1>2, <1>3, <2>1, <2>2 DEF FramesApart
<1>5. NoForeignData
  BY <1>2 DEF NoForeignData, NoLeaves
<1>6. NothingLeaks
  BY DEF NothingLeaks, Init
<1>7. HeapInv
  BY AddressSpaceAssumption DEF HeapInv, HeapTypeOK, HeapMapped, Init
<1> QED BY <1>1, <1>4, <1>5, <1>6, <1>7 DEF FramesInv

LEMMA StepFrames == FramesInv /\ HeapInv /\ [Next]_vars => FramesInv' /\ HeapInv'
<1> SUFFICES ASSUME FramesInv, HeapInv, [Next]_vars PROVE FramesInv' /\ HeapInv'
  OBVIOUS
<1>1. CASE Spawn
  BY <1>1, SpawnStep
<1>2. CASE SpawnTableFull
  BY <1>2, SpawnTableFullStep
<1>3. ASSUME NEW p \in Pids, Reap(p) PROVE FramesInv' /\ HeapInv'
  BY <1>3, ReapStep
<1>4. ASSUME NEW p \in Pids, NEW page \in HeapPages, Write(p, page) PROVE FramesInv' /\ HeapInv'
  BY <1>4, WriteStep
<1>5. ASSUME NEW p \in Pids, NEW requested_break \in 0 .. HEAP_LIMIT, BrkShrink(p, requested_break)
      PROVE  FramesInv' /\ HeapInv'
  BY <1>5, ShrinkStep
<1>6. ASSUME NEW p \in Pids, NEW requested_break \in 0 .. HEAP_LIMIT, BrkGrow(p, requested_break)
      PROVE  FramesInv' /\ HeapInv'
  BY <1>6, GrowStep
<1>7. CASE UNCHANGED vars
  <2>1. FramesInv'
    BY <1>7, SameFrames DEF vars
  <2>2. HeapInv'
    BY <1>7 DEF vars, HeapInv, HeapTypeOK, HeapMapped
  <2> QED BY <2>1, <2>2
<1> QED BY <1>1, <1>2, <1>3, <1>4, <1>5, <1>6, <1>7 DEF Next

LEMMA FramesAlways == Spec => [](FramesInv /\ HeapInv)
<1>1. Init => FramesInv /\ HeapInv
  BY InitFrames
<1>2. (FramesInv /\ HeapInv) /\ [Next]_vars => (FramesInv /\ HeapInv)'
  BY StepFrames
<1> QED BY <1>1, <1>2, PTL DEF Spec

-----------------------------------------------------------------------------
(***************************************************************************)
(* Counting.                                                               *)
(***************************************************************************)
LEMMA TablesAndPagesFinite == IsFiniteSet(Tables) /\ IsFiniteSet(Pages)
<1> USE AddressSpaceAssumption, PagingAssumption
<1>1. IsFiniteSet(HeapPages)
  BY FS_Interval DEF HeapPages
<1>2. IsFiniteSet(Range(Image))
  <2>1. PICK n, R : n = Len(Image) /\ R = Range(Image)
    OBVIOUS
  <2>2. n \in Nat /\ DOMAIN Image = 1 .. n /\ IsFiniteSet(1 .. n)
    BY <2>1, FS_Interval
  <2>3. [i \in 1 .. n |-> Image[i]] \in Surjection(1 .. n, R)
    BY <2>1, <2>2 DEF Surjection, Range
  <2> QED BY <2>1, <2>2, <2>3, FS_Surjection
<1>3. IsFiniteSet(Pages)
  BY <1>1, <1>2, FS_Union DEF Pages
<1>4. IsFiniteSet({Area(page) : page \in Pages})
  <2>1. PICK A, P : A = {Area(page) : page \in Pages} /\ P = Pages
    OBVIOUS
  <2>2. [page \in P |-> Area(page)] \in Surjection(P, A)
    BY <2>1 DEF Surjection
  <2> QED BY <1>3, <2>1, <2>2, FS_Surjection
<1>5. IsFiniteSet(1 .. Levels)
  BY FS_Interval
<1>6. IsFiniteSet({Area(page) : page \in Pages} \X (1 .. Levels))
  BY <1>4, <1>5, FS_Product
<1> QED BY <1>3, <1>6 DEF Tables

\* Every use is a frame of its own.
LEMMA UsesAreFrames ==
  ASSUME FramesInv, NEW p \in Pids
  PROVE  Cardinality(UsedBy(p)) = Uses(p)
<1>t. /\ tables[p] \in [Tables -> Frame \cup {NONE}] /\ leaf[p] \in [Pages -> Frame \cup {NONE}]
      /\ SpaceTypeOK
  BY DEF FramesInv, SpaceTypeOK
<1>1. PICK R, T, P, B, C :
        /\ R = {root[p]} \ {NONE}
        /\ T = {t \in Tables : tables[p][t] # NONE} /\ P = {page \in Pages : leaf[p][page] # NONE}
        /\ B = {tables[p][t] : t \in T} /\ C = {leaf[p][page] : page \in P}
  OBVIOUS
<1>2. IsFiniteSet(T) /\ IsFiniteSet(P) /\ IsFiniteSet(R)
  <2>1. IsFiniteSet(T) /\ IsFiniteSet(P)
    BY <1>1, TablesAndPagesFinite, FS_Subset
  <2>2. IsFiniteSet({root[p]})
    BY FS_Singleton
  <2>3. IsFiniteSet(R)
    BY <1>1, <2>2, FS_Subset
  <2> QED BY <2>1, <2>3
<1>3. Apart(available, tables[p], leaf[p], R)
  BY <1>1 DEF FramesInv, FramesApart
<1>4. IsFiniteSet(B) /\ Cardinality(B) = Cardinality(T)
  <2>1. PICK g : g = [t \in T |-> tables[p][t]]
    OBVIOUS
  <2>2. g \in [T -> B] /\ \A y \in B : \E x \in T : g[x] = y
    BY <1>1, <2>1
  <2>3. \A x, y \in T : g[x] = g[y] => x = y
    BY <1>1, <1>3, <2>1 DEF Apart
  <2> QED BY <1>2, <2>2, <2>3, ImageSize
<1>5. IsFiniteSet(C) /\ Cardinality(C) = Cardinality(P)
  <2>1. PICK g : g = [page \in P |-> leaf[p][page]]
    OBVIOUS
  <2>2. g \in [P -> C] /\ \A y \in C : \E x \in P : g[x] = y
    BY <1>1, <2>1
  <2>3. \A x, y \in P : g[x] = g[y] => x = y
    BY <1>1, <1>3, <2>1 DEF Apart
  <2> QED BY <1>2, <2>2, <2>3, ImageSize
<1>6. R \cap B = {} /\ (R \cup B) \cap C = {}
  BY <1>1, <1>3 DEF Apart
<1>7. UsedBy(p) = (R \cup B) \cup C
  <2>1. \A f : f \in UsedBy(p) <=> f \in (R \cup B) \cup C
    BY <1>t, <1>1, UsedFacts
  <2> QED BY <2>1
<1>8. /\ Cardinality(R) \in Nat /\ Cardinality(B) \in Nat /\ Cardinality(C) \in Nat
      /\ Cardinality({}) = 0
  BY <1>2, <1>4, <1>5, FS_CardinalityType, FS_EmptySet
<1>9. IsFiniteSet(R \cup B) /\ Cardinality(R \cup B) = Cardinality(R) + Cardinality(B)
  BY <1>2, <1>4, <1>6, <1>8, FS_Union
<1>10. Cardinality((R \cup B) \cup C) = Cardinality(R) + Cardinality(B) + Cardinality(C)
  <2>1. PICK D : D = R \cup B
    OBVIOUS
  <2>2. IsFiniteSet(D) /\ D \cap C = {} /\ Cardinality(D) = Cardinality(R) + Cardinality(B)
    BY <1>6, <1>9, <2>1
  <2>3. Cardinality(D \cup C) = Cardinality(D) + Cardinality(C) - Cardinality(D \cap C)
    BY <1>5, <2>2, FS_Union
  <2>4. Cardinality(D \cup C) = Cardinality(R) + Cardinality(B) + Cardinality(C)
    <3>1. Cardinality(D \cap C) = 0
      BY <1>8, <2>2, Zenon
    <3>2. PICK x, y, z : x = Cardinality(R) /\ y = Cardinality(B) /\ z = Cardinality(C)
      OBVIOUS
    <3>3. x \in Nat /\ y \in Nat /\ z \in Nat
      BY <1>8, <3>2
    <3>4. Cardinality(D \cup C) = (x + y) + z - 0
      BY <2>2, <2>3, <3>1, <3>2
    <3> QED BY <3>2, <3>3, <3>4
  <2> QED BY <2>1, <2>4
<1> QED BY <1>1, <1>4, <1>5, <1>7, <1>10 DEF Uses

-----------------------------------------------------------------------------
\* Memory isolation, for any number of processes, frames, table levels and
\* image pages: no frame has two uses, whatever map_page_in(), brk(), spawn()
\* and reaping have done and however often they have failed on the way.
THEOREM NoFrameIsShared == Spec => []FramesNotShared
<1>1. FramesInv => FramesNotShared
  <2> SUFFICES ASSUME FramesInv PROVE FramesNotShared
    OBVIOUS
  <2>1. \A p \in Pids : Cardinality(UsedBy(p)) = Uses(p)
    BY UsesAreFrames
  <2>2. ASSUME NEW p \in Pids, NEW f \in UsedBy(p) PROVE f \notin available
    BY UsedFacts DEF FramesInv, FramesApart, Apart
  <2> QED BY <2>1, <2>2 DEF FramesNotShared, FramesInv, FramesApart
<1> QED BY <1>1, FramesAlways, PTL

\* Every byte below the break brk() has reported is mapped, also after a brk()
\* that mapped some of its pages and then failed.
THEOREM BytesBelowBreakAreMapped == Spec => []BreakIsMapped
<1>1. HeapInv => BreakIsMapped
  <2> SUFFICES ASSUME HeapInv, NEW p \in loaded, NEW page \in HeapPages,
                      page * PAGE_SIZE < heap_break[p]
               PROVE  leaf[p][page] # NONE
    BY DEF BreakIsMapped
  <2>1. heap_break[p] \in Nat /\ heap_mapped_end[p] \in Nat /\ heap_break[p] <= heap_mapped_end[p]
    BY DEF HeapInv, HeapTypeOK, HeapMapped
  <2>2. page * PAGE_SIZE \in Nat
    BY AddressSpaceAssumption, PagingAssumption DEF HeapPages
  <2>3. page * PAGE_SIZE < heap_mapped_end[p]
    BY <2>1, <2>2
  <2> QED BY <2>3 DEF HeapInv, HeapMapped
<1> QED BY <1>1, FramesAlways, PTL

\* A page never shows what another process has left in its frame: every frame
\* is cleared before it is mapped, and nobody keeps a mapping of a released one.
THEOREM NothingForeignIsSeen == Spec => []NoForeignData
<1>1. FramesInv => NoForeignData
  BY DEF FramesInv
<1> QED BY <1>1, FramesAlways, PTL

\* As long as nothing has failed, destroy_user_address_space() has returned
\* every frame of the reaped processes.
THEOREM ReapingReturnsAll == Spec => []NothingLeaks
<1>1. FramesInv => NothingLeaks
  BY DEF FramesInv
<1> QED BY <1>1, FramesAlways, PTL

-----------------------------------------------------------------------------
(***************************************************************************)
(* The ELF loader.                                                         *)
(***************************************************************************)

LEMMA PairBounds ==
  ASSUME NEW x \in Int, NEW y \in Int
  PROVE  /\ Max({x, y}) = IF x >= y THEN x ELSE y
         /\ Min({x, y}) = IF x <= y THEN x ELSE y
<1>1. CASE x >= y
  <2>1. x \in {x, y} /\ \A z \in {x, y} : x >= z
    BY <1>1
  <2>2. \A v \in {x, y} : (\A z \in {x, y} : v >= z) => v = x
    BY <1>1
  <2>3. Max({x, y}) = x
    BY <2>1, <2>2, Zenon DEF Max
  <2>4. y \in {x, y} /\ \A z \in {x, y} : y <= z
    BY <1>1
  <2>5. \A v \in {x, y} : (\A z \in {x, y} : v <= z) => v = y
    BY <1>1
  <2>6. Min({x, y}) = y
    BY <2>4, <2>5, Zenon DEF Min
  <2> QED BY <1>1, <2>3, <2>6
<1>2. CASE x < y
  <2>1. y \in {x, y} /\ \A z \in {x, y} : y >= z
    BY <1>2
  <2>2. \A v \in {x, y} : (\A z \in {x, y} : v >= z) => v = y
    BY <1>2
  <2>3. Max({x, y}) = y
    BY <2>1, <2>2, Zenon DEF Max
  <2>4. x \in {x, y} /\ \A z \in {x, y} : x <= z
    BY <1>2
  <2>5. \A v \in {x, y} : (\A z \in {x, y} : v <= z) => v = x
    BY <1>2
  <2>6. Min({x, y}) = x
    BY <2>4, <2>5, Zenon DEF Min
  <2> QED BY <1>2, <2>3, <2>6
<1> QED BY <1>1, <1>2

\* The page of an address.
LEMMA PageFacts ==
  ASSUME NEW a \in Nat
  PROVE  /\ PageDown(a) \in Nat /\ PageDown(a) <= a /\ a < PageDown(a) + PAGE_SIZE
         /\ PageDown(a) % PAGE_SIZE = 0
         /\ \A b \in Nat : a <= b => PageDown(a) <= PageDown(b)
<1>p. PAGE_SIZE \in Nat \ {0}
  BY PagingAssumption
<1>1. PICK q, r : q = a \div PAGE_SIZE /\ r = a % PAGE_SIZE
  OBVIOUS
<1>2. q \in Nat /\ r \in 0 .. (PAGE_SIZE - 1) /\ a = PAGE_SIZE * q + r /\ PageDown(a) = q * PAGE_SIZE
  BY <1>p, <1>1 DEF PageDown
<1>3. (q * PAGE_SIZE) % PAGE_SIZE = 0 /\ q * PAGE_SIZE \in Nat
  BY <1>p, <1>2, Multiples
<1>4. ASSUME NEW b \in Nat, a <= b PROVE PageDown(a) <= PageDown(b)
  <2>1. PICK k, t : k = b \div PAGE_SIZE /\ t = b % PAGE_SIZE
    OBVIOUS
  <2>2. k \in Nat /\ t \in 0 .. (PAGE_SIZE - 1) /\ b = PAGE_SIZE * k + t /\ PageDown(b) = k * PAGE_SIZE
    BY <1>p, <2>1 DEF PageDown
  <2>3. q <= k
    <3> SUFFICES ASSUME q >= k + 1 PROVE FALSE
      BY <1>2, <2>2
    <3>1. PAGE_SIZE * q >= PAGE_SIZE * k + PAGE_SIZE
      BY <1>p, <1>2, <2>2
    <3> QED BY <1>p, <1>2, <2>2, <1>4, <3>1
  <2> QED BY <1>p, <1>2, <2>2, <2>3
<1>5. PageDown(a) <= a /\ a < PageDown(a) + PAGE_SIZE
  BY <1>p, <1>2
<1> QED BY <1>2, <1>3, <1>4, <1>5

\* Copying page by page is copying byte by byte.
LEMMA CopiedByte ==
  ASSUME NEW a \in Nat, NEW start \in Nat, NEW offset \in Nat, NEW size \in Nat
  PROVE  Copied(a, start, offset, size) =
           IF start <= a /\ a < start + size THEN FileByte(offset + (a - start)) ELSE Zero
<1>1. PICK p : p = PageDown(a)
  OBVIOUS
<1>2. p \in Nat /\ p <= a /\ a < p + PAGE_SIZE /\ PAGE_SIZE \in Nat
  BY <1>1, PageFacts, PagingAssumption
<1>3. CopyStart(p, start) = IF p >= start THEN p ELSE start
  BY <1>2, PairBounds DEF CopyStart
<1>4. PICK e, f : e = p + PAGE_SIZE /\ f = start + size
  OBVIOUS
<1>5. e \in Int /\ f \in Int
  BY <1>2, <1>4
<1>6. CopyEnd(p, start, size) = IF e <= f THEN e ELSE f
  BY <1>4, <1>5, PairBounds DEF CopyEnd
<1>7. PICK c, d : c = CopyStart(p, start) /\ d = CopyEnd(p, start, size)
  OBVIOUS
<1>8. c \in Nat /\ (c <= a <=> start <= a) /\ (a < d <=> a < start + size)
  BY <1>2, <1>3, <1>4, <1>5, <1>6, <1>7
<1>9. offset + (c - start) + (a - c) = offset + (a - start)
  BY <1>8
<1>10. Copied(a, start, offset, size) =
         IF c <= a /\ a < d THEN FileByte(offset + (c - start) + (a - c)) ELSE Zero
  BY <1>1, <1>7 DEF Copied
<1> QED BY <1>8, <1>9, <1>10

-----------------------------------------------------------------------------
(***************************************************************************)
(* The inductive invariant: what LoadedExactly says of the segments holds  *)
(* after every header, because only pages that are not mapped yet are      *)
(* written to; that the headers were checked makes their addresses user    *)
(* addresses.                                                              *)
(***************************************************************************)
Header == LoadHeaders \cup TlsHeaders \cup {OtherHeader}

Loaded(h, flagsOf, memory) ==
  \A a \in UserAddresses :
    Holds(h, a) =>
      /\ flagsOf[PageDown(a)] = h.flags
      /\ memory[a] = IF a - h.address < h.file_size THEN FileByte(h.offset + (a - h.address)) ELSE Zero

SegmentsLoaded == \A i \in HeadersOf("load") : ValidSegment(headers[i]) /\ Loaded(headers[i], mapped, bytes)

TlsFits == \A i \in HeadersOf("tls") : headers[i].memory_size >= headers[i].file_size

NothingElse ==
  \A a \in UserAddresses :
    bytes[a] # Zero =>
      \/ \E i \in HeadersOf("load") : Holds(headers[i], a)
      \/ progress = "loaded" /\ USER_TLS_BASE <= a /\ a <= fs_base

ElfInv ==
  /\ headers \in Seq(Header) /\ entry \in Nat
  /\ progress # "failed" =>
       /\ SegmentsLoaded /\ TlsFits /\ NothingElse
       /\ progress \in {"stack", "tls", "loaded"} => EntryIsExecutable
       /\ progress \in {"tls", "loaded"} => \A p \in StackPages : p \in UserPages /\ mapped[p] = "rw"
       /\ progress = "tls" => HeadersOf("tls") # {}

-----------------------------------------------------------------------------
LEMMA AddressFacts ==
  /\ UserAddresses \subseteq Nat
  /\ \A a \in UserAddresses : PageDown(a) \in UserPages
BY ElfLoaderAssumption DEF UserAddresses, UserPages

LEMMA HeaderTypes ==
  ASSUME headers \in Seq(Header)
  PROVE  /\ \A i \in HeadersOf("load") : headers[i] \in LoadHeaders
         /\ \A i \in HeadersOf("tls") : headers[i] \in TlsHeaders
<1>1. \A i \in DOMAIN headers : headers[i] \in Header
  OBVIOUS
<1>2. \A h \in Header : /\ h.type = "load" => h \in LoadHeaders
                        /\ h.type = "tls" => h \in TlsHeaders
  BY DEF Header, LoadHeaders, TlsHeaders, OtherHeader
<1> QED BY <1>1, <1>2 DEF HeadersOf

LEMMA LoadFields ==
  ASSUME NEW h \in LoadHeaders
  PROVE  /\ h.address \in Nat /\ h.memory_size \in Nat /\ h.file_size \in Nat /\ h.offset \in Nat
         /\ h.flags \in {"r", "rw", "rx", "rwx"} /\ h.flags # NoFlags /\ h.type = "load"
         /\ h \in Header
<1>1. /\ h.address \in Addresses /\ h.memory_size \in Sizes /\ h.file_size \in Sizes
      /\ h.offset \in Offsets /\ h.flags \in Flags /\ h.type = "load"
  BY DEF LoadHeaders
<1> QED BY <1>1, ElfLoaderAssumption DEF Header, NoFlags

LEMMA TlsFields ==
  ASSUME NEW h \in TlsHeaders
  PROVE  /\ h.memory_size \in Nat /\ h.file_size \in Nat /\ h.offset \in Nat /\ h.align \in Nat
         /\ h.type = "tls" /\ h \in Header
<1>1. /\ h.memory_size \in Sizes /\ h.file_size \in Sizes
      /\ h.offset \in Offsets /\ h.align \in Alignments /\ h.type = "tls"
  BY DEF TlsHeaders
<1> QED BY <1>1, ElfLoaderAssumption DEF Header

\* The headers of a type after one more has been read.
LEMMA ReadHeader ==
  ASSUME headers \in Seq(Header), NEW h \in Header, headers' = Append(headers, h)
  PROVE  /\ headers' \in Seq(Header)
         /\ \A type : \A i \in HeadersOf(type) : i \in HeadersOf(type)' /\ headers'[i] = headers[i]
         /\ \A type : \A i \in HeadersOf(type)' :
           (i \in HeadersOf(type) /\ headers'[i] = headers[i]) \/ (headers'[i] = h /\ h.type = type)
         /\ Len(headers) + 1 \in HeadersOf(h.type)' /\ headers'[Len(headers) + 1] = h
<1>1. /\ headers' \in Seq(Header) /\ Len(headers) \in Nat /\ Len(headers') = Len(headers) + 1
      /\ DOMAIN headers = 1 .. Len(headers) /\ DOMAIN headers' = 1 .. (Len(headers) + 1)
      /\ headers'[Len(headers) + 1] = h
      /\ \A i \in 1 .. Len(headers) : headers'[i] = headers[i]
  OBVIOUS
<1>2. \A i : i \in DOMAIN headers' <=> i \in DOMAIN headers \/ i = Len(headers) + 1
  BY <1>1
<1>3. \A i \in DOMAIN headers : headers'[i] = headers[i]
  BY <1>1
<1> QED BY <1>1, <1>2, <1>3 DEF HeadersOf

\* Mapping pages that were not mapped does not disturb a segment.
LEMMA SegmentKept ==
  ASSUME NEW h \in LoadHeaders, Loaded(h, mapped, bytes), NEW reached, \A p \in reached : mapped[p] = NoFlags,
         NEW flags, NEW content,
         mapped' = [p \in UserPages |-> IF p \in reached THEN flags ELSE mapped[p]],
         bytes' = [a \in UserAddresses |-> IF PageDown(a) \in reached THEN content[a] ELSE bytes[a]]
  PROVE  Loaded(h, mapped', bytes')
<1> SUFFICES ASSUME NEW a \in UserAddresses, Holds(h, a)
             PROVE  /\ mapped'[PageDown(a)] = h.flags
                    /\ bytes'[a] = IF a - h.address < h.file_size
                                   THEN FileByte(h.offset + (a - h.address)) ELSE Zero
  BY DEF Loaded, Holds
<1>1. /\ mapped[PageDown(a)] = h.flags
      /\ bytes[a] = IF a - h.address < h.file_size THEN FileByte(h.offset + (a - h.address)) ELSE Zero
  BY DEF Loaded
<1>2. PageDown(a) \notin reached
  BY <1>1, LoadFields
<1>3. PageDown(a) \in UserPages
  BY AddressFacts
<1>4. mapped'[PageDown(a)] = mapped[PageDown(a)] /\ bytes'[a] = bytes[a]
  BY <1>2, <1>3
<1> QED BY <1>1, <1>4

\* A block that is mapped completely.
LEMMA BlockMapped ==
  ASSUME NEW pages, Refused(pages) = {}
  PROVE  Reached(pages) = pages /\ pages \subseteq UserPages /\ \A p \in pages : mapped[p] = NoFlags
BY DEF Refused, Reached

LEMMA LoadSegmentStep ==
  ASSUME ElfInv, NEW h \in LoadHeaders, LoadSegment(h)
  PROVE  ElfInv'
<1>h. /\ h.address \in Nat /\ h.memory_size \in Nat /\ h.file_size \in Nat /\ h.offset \in Nat
      /\ h.flags # NoFlags /\ h.type = "load" /\ h \in Header
  BY LoadFields
<1>t. /\ headers \in Seq(Header) /\ progress = "headers" /\ headers' = Append(headers, h)
      /\ SegmentsLoaded /\ TlsFits /\ NothingElse
  BY DEF ElfInv, LoadSegment
<1>r. /\ headers' \in Seq(Header)
      /\ \A type : \A i \in HeadersOf(type) : i \in HeadersOf(type)' /\ headers'[i] = headers[i]
      /\ \A type : \A i \in HeadersOf(type)' :
           (i \in HeadersOf(type) /\ headers'[i] = headers[i]) \/ (headers'[i] = h /\ h.type = type)
      /\ Len(headers) + 1 \in HeadersOf(h.type)' /\ headers'[Len(headers) + 1] = h
  BY <1>h, <1>t, ReadHeader
<1>e. entry' \in Nat
  BY DEF ElfInv, LoadSegment
<1>1. CASE progress' = "failed"
  BY <1>e, <1>r, <1>1 DEF ElfInv
<1>2. CASE progress' # "failed"
  <2>1. PICK pages, content : /\ pages = PagesOf(h.address, h.address + h.memory_size - 1)
                              /\ content = [a \in UserAddresses |->
                                              Copied(a, h.address, h.offset, h.file_size)]
    OBVIOUS
  <2>2. ValidSegment(h) /\ MapBlock(pages, h.flags, content) /\ Refused(pages) = {} /\ progress' = "headers"
    BY <1>2, <2>1 DEF LoadSegment
  <2>3. Reached(pages) = pages /\ pages \subseteq UserPages /\ \A p \in pages : mapped[p] = NoFlags
    BY <2>2, BlockMapped
  <2>4. /\ mapped' = [p \in UserPages |-> IF p \in pages THEN h.flags ELSE mapped[p]]
        /\ bytes' = [a \in UserAddresses |-> IF PageDown(a) \in pages THEN content[a] ELSE bytes[a]]
    BY <2>2, <2>3 DEF MapBlock
  <2>5. \A a \in UserAddresses :
          content[a] = IF h.address <= a /\ a < h.address + h.file_size
                       THEN FileByte(h.offset + (a - h.address)) ELSE Zero
    BY <1>h, <2>1, CopiedByte, AddressFacts
  <2>6. h.memory_size >= h.file_size
    BY <2>2 DEF ValidSegment
  <2>7. Loaded(h, mapped', bytes')
    <3> SUFFICES ASSUME NEW a \in UserAddresses, Holds(h, a)
                 PROVE  /\ mapped'[PageDown(a)] = h.flags
                        /\ bytes'[a] = IF a - h.address < h.file_size
                                       THEN FileByte(h.offset + (a - h.address)) ELSE Zero
      BY DEF Loaded, Holds
    <3>1. a \in Nat /\ PageDown(a) \in UserPages
      BY AddressFacts
    <3>2. PICK last : last = h.address + h.memory_size - 1
      OBVIOUS
    <3>3. last \in Nat /\ h.address <= a /\ a <= last
      BY <1>h, <3>1, <3>2 DEF Holds
    <3>4. /\ PageDown(h.address) <= PageDown(a) /\ PageDown(a) <= PageDown(last)
          /\ PageDown(a) % PAGE_SIZE = 0 /\ PageDown(a) \in Nat
          /\ PageDown(h.address) \in Nat /\ PageDown(last) \in Nat
      BY <1>h, <3>1, <3>3, PageFacts
    <3>5. PageDown(a) \in pages
      BY <2>1, <3>2, <3>4 DEF PagesOf
    <3>6. (h.address <= a /\ a < h.address + h.file_size) <=> a - h.address < h.file_size
      BY <1>h, <3>1, <3>3
    <3> QED BY <2>4, <2>5, <3>1, <3>5, <3>6
  <2>8. SegmentsLoaded'
    <3> SUFFICES ASSUME NEW i \in HeadersOf("load")'
                 PROVE  ValidSegment(headers'[i]) /\ Loaded(headers'[i], mapped', bytes')
      BY DEF SegmentsLoaded, ValidSegment
    <3>1. CASE headers'[i] = h
      BY <2>2, <2>7, <3>1 DEF Loaded, Holds
    <3>2. CASE i \in HeadersOf("load") /\ headers'[i] = headers[i]
      <4>1. PICK g : g = headers[i]
        OBVIOUS
      <4>2. g \in LoadHeaders /\ ValidSegment(g) /\ Loaded(g, mapped, bytes)
        BY <1>t, <3>2, <4>1, HeaderTypes DEF SegmentsLoaded
      <4>3. Loaded(g, mapped', bytes')
        BY <2>3, <2>4, <4>2, SegmentKept
      <4> QED BY <3>2, <4>1, <4>2, <4>3 DEF Loaded, Holds
    <3> QED BY <1>r, <3>1, <3>2
  <2>9. TlsFits'
    BY <1>h, <1>t, <1>r DEF TlsFits
  <2>10. NothingElse'
    <3> SUFFICES ASSUME NEW a \in UserAddresses, bytes'[a] # Zero
                 PROVE  \E i \in HeadersOf("load")' : Holds(headers'[i], a)
      BY DEF NothingElse, Holds
    <3>1. CASE PageDown(a) \in pages
      <4>1. h.address <= a /\ a < h.address + h.file_size /\ a \in Nat
        BY <2>4, <2>5, <3>1, AddressFacts
      <4>2. Holds(h, a)
        BY <1>h, <2>6, <4>1 DEF Holds
      <4> QED BY <1>h, <1>r, <4>2
    <3>2. CASE PageDown(a) \notin pages
      <4>1. bytes[a] # Zero
        BY <2>4, <3>2
      <4>2. PICK i \in HeadersOf("load") : Holds(headers[i], a)
        BY <1>t, <4>1 DEF NothingElse
      <4> QED BY <1>r, <4>2
    <3> QED BY <3>1, <3>2
  <2> QED BY <1>e, <1>r, <2>2, <2>8, <2>9, <2>10 DEF ElfInv
<1> QED BY <1>1, <1>2

\* A header that maps nothing.
LEMMA OtherHeaderStep ==
  ASSUME ElfInv, progress = "headers", NEW h \in Header, h.type # "load",
         h.type = "tls" => h.memory_size >= h.file_size,
         headers' = Append(headers, h), UNCHANGED <<entry, mapped, bytes>>, progress' = "headers"
  PROVE  ElfInv'
<1>t. headers \in Seq(Header) /\ SegmentsLoaded /\ TlsFits /\ NothingElse
  BY DEF ElfInv
<1>r. /\ headers' \in Seq(Header)
      /\ \A type : \A i \in HeadersOf(type) : i \in HeadersOf(type)' /\ headers'[i] = headers[i]
      /\ \A type : \A i \in HeadersOf(type)' :
           (i \in HeadersOf(type) /\ headers'[i] = headers[i]) \/ (headers'[i] = h /\ h.type = type)
  BY <1>t, ReadHeader
<1>1. SegmentsLoaded'
  <2> SUFFICES ASSUME NEW i \in HeadersOf("load")'
               PROVE  ValidSegment(headers'[i]) /\ Loaded(headers'[i], mapped, bytes)
    BY DEF SegmentsLoaded, ValidSegment
  <2> QED BY <1>t, <1>r DEF SegmentsLoaded
<1>2. TlsFits'
  BY <1>t, <1>r DEF TlsFits
<1>3. NothingElse'
  <2> SUFFICES ASSUME NEW a \in UserAddresses, bytes[a] # Zero
               PROVE  \E i \in HeadersOf("load")' : Holds(headers'[i], a)
    BY DEF NothingElse, Holds
  <2>1. PICK i \in HeadersOf("load") : Holds(headers[i], a)
    BY <1>t DEF NothingElse
  <2> QED BY <1>r, <2>1
<1>4. entry' \in Nat
  BY DEF ElfInv
<1> QED BY <1>r, <1>1, <1>2, <1>3, <1>4 DEF ElfInv

LEMMA ReadTlsStep ==
  ASSUME ElfInv, NEW h \in TlsHeaders, ReadTls(h)
  PROVE  ElfInv'
<1>1. h \in Header /\ h.type = "tls"
  BY TlsFields
<1>2. headers \in Seq(Header) /\ headers' \in Seq(Header) /\ headers' = Append(headers, h) /\ progress = "headers"
  BY <1>1 DEF ElfInv, ReadTls
<1>e. entry' \in Nat
  BY DEF ElfInv, ReadTls
<1>3. CASE progress' = "failed"
  BY <1>e, <1>2, <1>3 DEF ElfInv
<1>4. CASE progress' # "failed"
  <2>1. progress' = "headers" /\ h.memory_size >= h.file_size /\ UNCHANGED <<entry, mapped, bytes>>
    BY <1>4 DEF ReadTls
  <2> QED BY <1>1, <1>2, <2>1, OtherHeaderStep
<1> QED BY <1>3, <1>4

LEMMA SkipHeaderStep ==
  ASSUME ElfInv, SkipHeader
  PROVE  ElfInv'
<1>1. OtherHeader \in Header /\ OtherHeader.type = "other"
  BY DEF Header, OtherHeader
<1>2. /\ progress = "headers" /\ progress' = "headers" /\ UNCHANGED <<entry, mapped, bytes>>
      /\ headers' = Append(headers, OtherHeader)
  BY DEF SkipHeader
<1>3. PICK h : h = OtherHeader
  OBVIOUS
<1>4. h \in Header /\ h.type # "load" /\ h.type # "tls" /\ headers' = Append(headers, h)
  BY <1>1, <1>2, <1>3
<1> QED BY <1>2, <1>4, OtherHeaderStep

LEMMA EndOfHeadersStep ==
  ASSUME ElfInv, EndOfHeaders
  PROVE  ElfInv'
<1>1. /\ progress = "headers" /\ UNCHANGED <<entry, headers, mapped, bytes, fs_base>>
      /\ progress' = IF EntryIsExecutable THEN "stack" ELSE "failed"
  BY DEF EndOfHeaders
<1>2. CASE ~ EntryIsExecutable
  BY <1>1, <1>2 DEF ElfInv
<1>3. CASE EntryIsExecutable
  <2>1. progress' = "stack" /\ HeadersOf("load")' = HeadersOf("load") /\ HeadersOf("tls")' = HeadersOf("tls")
    BY <1>1, <1>3 DEF HeadersOf
  <2>2. SegmentsLoaded'
    BY <1>1, <2>1 DEF ElfInv, SegmentsLoaded
  <2>3. TlsFits'
    BY <1>1, <2>1 DEF ElfInv, TlsFits
  <2>4. NothingElse'
    BY <1>1, <2>1 DEF ElfInv, NothingElse
  <2>5. EntryIsExecutable'
    BY <1>1, <1>3, <2>1 DEF EntryIsExecutable
  <2>6. headers' \in Seq(Header) /\ entry' \in Nat
    BY <1>1 DEF ElfInv
  <2> QED BY <2>1, <2>2, <2>3, <2>4, <2>5, <2>6 DEF ElfInv
<1> QED BY <1>2, <1>3

LEMMA MapStackStep ==
  ASSUME ElfInv, MapStack
  PROVE  ElfInv'
<1>t. /\ headers \in Seq(Header) /\ entry \in Nat /\ SegmentsLoaded /\ TlsFits /\ NothingElse
      /\ EntryIsExecutable /\ progress = "stack"
  BY DEF ElfInv, MapStack
<1>u. entry' = entry /\ headers' = headers /\ fs_base' = fs_base
  BY DEF MapStack
<1>h. HeadersOf("load")' = HeadersOf("load") /\ HeadersOf("tls")' = HeadersOf("tls")
  BY <1>u DEF HeadersOf
<1>1. CASE Refused(StackPages) # {}
  <2>1. progress' = "failed"
    BY <1>1 DEF MapStack
  <2> QED BY <1>t, <1>u, <2>1 DEF ElfInv
<1>2. CASE Refused(StackPages) = {}
  <2>1. StackPages \subseteq UserPages /\ \A p \in StackPages : mapped[p] = NoFlags
    BY <1>2, BlockMapped
  <2>2. {p \in StackPages : \A q \in Refused(StackPages) : p > q} = StackPages
    BY <1>2
  <2>3. PICK flags, content : flags = "rw" /\ content = [a \in UserAddresses |-> Zero]
    OBVIOUS
  <2>4. mapped' = [p \in UserPages |-> IF p \in StackPages THEN flags ELSE mapped[p]]
    BY <2>2, <2>3 DEF MapStack
  <2>5. bytes' = [a \in UserAddresses |-> IF PageDown(a) \in StackPages THEN Zero ELSE bytes[a]]
    BY <2>2 DEF MapStack
  <2>6. bytes' = [a \in UserAddresses |-> IF PageDown(a) \in StackPages THEN content[a] ELSE bytes[a]]
    BY <2>3, <2>5
  <2>7. progress' = IF HeadersOf("tls") = {} THEN "loaded" ELSE "tls"
    BY <1>2 DEF MapStack
  <2>8. SegmentsLoaded'
    <3> SUFFICES ASSUME NEW i \in HeadersOf("load")
                 PROVE  ValidSegment(headers[i]) /\ Loaded(headers[i], mapped', bytes')
      BY <1>u, <1>h DEF SegmentsLoaded, ValidSegment
    <3>1. PICK g : g = headers[i]
      OBVIOUS
    <3>2. g \in LoadHeaders /\ ValidSegment(g) /\ Loaded(g, mapped, bytes)
      BY <1>t, <3>1, HeaderTypes DEF SegmentsLoaded
    <3>3. Loaded(g, mapped', bytes')
      BY <2>1, <2>4, <2>6, <3>2, SegmentKept
    <3> QED BY <3>1, <3>2, <3>3
  <2>9. TlsFits'
    BY <1>t, <1>u, <1>h DEF TlsFits
  <2>10. NothingElse'
    <3> SUFFICES ASSUME NEW a \in UserAddresses, bytes'[a] # Zero
                 PROVE  \E i \in HeadersOf("load") : Holds(headers[i], a)
      BY <1>u, <1>h DEF NothingElse
    <3>1. bytes[a] # Zero
      BY <2>5
    <3> QED BY <1>t, <3>1 DEF NothingElse
  <2>11. EntryIsExecutable'
    BY <1>t, <1>u, <1>h DEF EntryIsExecutable
  <2>12. \A p \in StackPages : p \in UserPages /\ mapped'[p] = "rw"
    BY <2>1, <2>3, <2>4
  <2>13. progress' = "tls" => HeadersOf("tls")' # {}
    BY <1>h, <2>7
  <2> QED BY <1>t, <1>u, <2>7, <2>8, <2>9, <2>10, <2>11, <2>12, <2>13 DEF ElfInv, StackPages, StackTop
<1> QED BY <1>1, <1>2

\* The TLS block is at least as long as its segment, so FS lies behind it.
LEMMA BlockLongEnough ==
  ASSUME NEW h \in TlsHeaders
  PROVE  BlockSize(h) \in Nat /\ BlockSize(h) >= h.memory_size
<1>1. h.memory_size \in Nat /\ h.align \in Nat
  BY TlsFields
<1>2. PICK n, m : n = Max({h.memory_size, 1}) /\ m = Max({h.align, TLS_MIN_ALIGN})
  OBVIOUS
<1>3. n \in Nat /\ n >= h.memory_size
  BY <1>1, <1>2, PairBounds
<1>4. m \in Nat \ {0}
  BY <1>1, <1>2, PairBounds, ElfLoaderAssumption
<1>5. PICK x, q, r : x = n + m - 1 /\ q = x \div m /\ r = x % m
  OBVIOUS
<1>6. x \in Nat /\ q \in Nat /\ r \in 0 .. (m - 1) /\ x = m * q + r
  BY <1>3, <1>4, <1>5
<1>7. q * m \in Nat /\ q * m >= n
  BY <1>3, <1>4, <1>5, <1>6
<1>8. BlockSize(h) = q * m
  BY <1>2, <1>5 DEF BlockSize, RoundUp
<1> QED BY <1>1, <1>3, <1>7, <1>8

LEMMA LoadTlsStep ==
  ASSUME ElfInv, LoadTls
  PROVE  ElfInv'
<1>t. /\ headers \in Seq(Header) /\ entry \in Nat /\ SegmentsLoaded /\ TlsFits /\ NothingElse
      /\ EntryIsExecutable /\ progress = "tls" /\ HeadersOf("tls") # {}
      /\ \A p \in StackPages : p \in UserPages /\ mapped[p] = "rw"
  BY DEF ElfInv, LoadTls
<1>u. entry' = entry /\ headers' = headers
  BY DEF LoadTls
<1>h. HeadersOf("load")' = HeadersOf("load") /\ HeadersOf("tls")' = HeadersOf("tls")
  BY <1>u DEF HeadersOf
<1>1. PICK h, fs, pages, content :
        /\ h = headers[Min(HeadersOf("tls"))] /\ fs = USER_TLS_BASE + BlockSize(h)
        /\ pages = PagesOf(USER_TLS_BASE, fs + TLS_TCB_SIZE - 1)
        /\ content = [a \in UserAddresses |->
                        IF a = fs THEN fs ELSE Copied(a, USER_TLS_BASE, h.offset, h.file_size)]
  OBVIOUS
<1>2. /\ MapBlock(pages, "rw", content)
      /\ IF Refused(pages) = {} THEN progress' = "loaded" /\ fs_base' = fs
         ELSE progress' = "failed" /\ UNCHANGED fs_base
  BY <1>1 DEF LoadTls
<1>3. CASE Refused(pages) # {}
  BY <1>t, <1>u, <1>2, <1>3 DEF ElfInv
<1>4. CASE Refused(pages) = {}
  <2>1. progress' = "loaded" /\ fs_base' = fs
    BY <1>2, <1>4
  <2>2. Reached(pages) = pages /\ pages \subseteq UserPages /\ \A p \in pages : mapped[p] = NoFlags
    BY <1>4, BlockMapped
  <2>3. PICK flags : flags = "rw"
    OBVIOUS
  <2>4. /\ mapped' = [p \in UserPages |-> IF p \in pages THEN flags ELSE mapped[p]]
        /\ bytes' = [a \in UserAddresses |-> IF PageDown(a) \in pages THEN content[a] ELSE bytes[a]]
    BY <1>2, <2>2, <2>3 DEF MapBlock
  <2>5. h \in TlsHeaders /\ h.memory_size >= h.file_size
    <3>1. PICK S : S = HeadersOf("tls")
      OBVIOUS
    <3>2. S \subseteq Nat /\ S # {}
      BY <1>t, <3>1 DEF HeadersOf
    <3>3. Min(S) \in S
      BY <3>2, MinIsLeast
    <3> QED BY <1>t, <1>1, <3>1, <3>3, HeaderTypes DEF TlsFits
  <2>6. /\ h.memory_size \in Nat /\ h.file_size \in Nat /\ h.offset \in Nat
        /\ BlockSize(h) \in Nat /\ BlockSize(h) >= h.memory_size /\ USER_TLS_BASE \in Nat
    BY <2>5, TlsFields, BlockLongEnough, ElfLoaderAssumption
  <2>7. ASSUME NEW a \in UserAddresses, content[a] # Zero
        PROVE  USER_TLS_BASE <= a /\ a <= fs
    <3>1. a \in Nat
      BY AddressFacts
    <3>2. CASE a = fs
      BY <1>1, <2>6, <3>1, <3>2
    <3>3. CASE a # fs
      <4>1. Copied(a, USER_TLS_BASE, h.offset, h.file_size) # Zero
        BY <1>1, <2>7, <3>3
      <4>2. USER_TLS_BASE <= a /\ a < USER_TLS_BASE + h.file_size
        BY <2>6, <3>1, <4>1, CopiedByte
      <4> QED BY <1>1, <2>5, <2>6, <3>1, <4>2
    <3> QED BY <3>2, <3>3
  <2>8. SegmentsLoaded'
    <3> SUFFICES ASSUME NEW i \in HeadersOf("load")
                 PROVE  ValidSegment(headers[i]) /\ Loaded(headers[i], mapped', bytes')
      BY <1>u, <1>h DEF SegmentsLoaded, ValidSegment
    <3>1. PICK g : g = headers[i]
      OBVIOUS
    <3>2. g \in LoadHeaders /\ ValidSegment(g) /\ Loaded(g, mapped, bytes)
      BY <1>t, <3>1, HeaderTypes DEF SegmentsLoaded
    <3>3. Loaded(g, mapped', bytes')
      BY <2>2, <2>4, <3>2, SegmentKept
    <3> QED BY <3>1, <3>2, <3>3
  <2>9. TlsFits'
    BY <1>t, <1>u, <1>h DEF TlsFits
  <2>10. NothingElse'
    <3> SUFFICES ASSUME NEW a \in UserAddresses, bytes'[a] # Zero
                 PROVE  \/ \E i \in HeadersOf("load") : Holds(headers[i], a)
                        \/ USER_TLS_BASE <= a /\ a <= fs
      BY <1>u, <1>h, <2>1 DEF NothingElse
    <3>1. CASE PageDown(a) \in pages
      <4>1. content[a] # Zero
        BY <2>4, <3>1
      <4> QED BY <2>7, <4>1
    <3>2. CASE PageDown(a) \notin pages
      <4>1. bytes[a] # Zero
        BY <2>4, <3>2
      <4> QED BY <1>t, <4>1 DEF NothingElse
    <3> QED BY <3>1, <3>2
  <2>11. EntryIsExecutable'
    BY <1>t, <1>u, <1>h DEF EntryIsExecutable
  <2>12. \A p \in StackPages : p \in UserPages /\ mapped'[p] = "rw"
    <3> SUFFICES ASSUME NEW p \in StackPages PROVE p \in UserPages /\ mapped'[p] = "rw"
      OBVIOUS
    <3>1. p \in UserPages /\ mapped[p] = "rw" /\ p \notin pages
      BY <1>t, <2>2 DEF NoFlags
    <3> QED BY <2>4, <3>1
  <2> QED BY <1>t, <1>u, <2>1, <2>8, <2>9, <2>10, <2>11, <2>12 DEF ElfInv, StackPages, StackTop
<1> QED BY <1>3, <1>4

-----------------------------------------------------------------------------
\* A program starts in the memory its file describes, for every page size,
\* layout of the user space and sequence of program headers: bytes are where
\* they are linked to although segments are copied page by page and may begin
\* and end within pages, and no block overwrites another.
THEOREM ImageIsLoadedExactly == ElfSpec => []LoadedExactly
<1>1. ElfInit => ElfInv
  <2> SUFFICES ASSUME ElfInit PROVE ElfInv
    OBVIOUS
  <2>1. /\ headers \in Seq(Header) /\ HeadersOf("load") = {} /\ HeadersOf("tls") = {}
        /\ entry \in Nat
    BY ElfLoaderAssumption DEF ElfInit, HeadersOf
  <2>2. SegmentsLoaded /\ TlsFits /\ NothingElse
    BY <2>1 DEF ElfInit, SegmentsLoaded, TlsFits, NothingElse
  <2> QED BY <2>1, <2>2 DEF ElfInit, ElfInv
<1>2. ElfInv /\ [ElfNext]_elfVars => ElfInv'
  <2> SUFFICES ASSUME ElfInv, [ElfNext]_elfVars PROVE ElfInv'
    OBVIOUS
  <2>1. CASE InvalidHeader
    BY <2>1 DEF InvalidHeader, ElfInv
  <2>2. CASE UNCHANGED elfVars
    <3>1. /\ entry' = entry /\ headers' = headers /\ mapped' = mapped /\ bytes' = bytes
          /\ fs_base' = fs_base /\ progress' = progress
      BY <2>2 DEF elfVars
    <3>2. HeadersOf("load")' = HeadersOf("load") /\ HeadersOf("tls")' = HeadersOf("tls")
      BY <3>1 DEF HeadersOf
    <3>3. /\ SegmentsLoaded' <=> SegmentsLoaded
          /\ TlsFits' <=> TlsFits
          /\ NothingElse' <=> NothingElse
          /\ EntryIsExecutable' <=> EntryIsExecutable
      BY <3>1, <3>2 DEF SegmentsLoaded, TlsFits, NothingElse, EntryIsExecutable
    <3> QED BY <3>1, <3>2, <3>3 DEF ElfInv
  <2>3. CASE ElfDone
    BY <2>2, <2>3 DEF ElfDone
  <2> QED BY <2>1, <2>2, <2>3, LoadSegmentStep, ReadTlsStep, SkipHeaderStep, EndOfHeadersStep,
             MapStackStep, LoadTlsStep DEF ElfNext
<1>3. ElfInv => LoadedExactly
  <2> SUFFICES ASSUME ElfInv, progress = "loaded" PROVE LoadedExactly
    BY DEF LoadedExactly
  <2>1. /\ headers \in Seq(Header) /\ SegmentsLoaded /\ NothingElse /\ EntryIsExecutable
        /\ \A p \in StackPages : mapped[p] = "rw"
    BY DEF ElfInv
  <2>2. mapped[PageDown(entry)] \in {"rx", "rwx"}
    <3>1. PICK i \in HeadersOf("load") :
            /\ headers[i].flags \in {"rx", "rwx"}
            /\ headers[i].address <= entry /\ entry < headers[i].address + headers[i].memory_size
      BY <2>1 DEF EntryIsExecutable
    <3>2. PICK h : h = headers[i]
      OBVIOUS
    <3>3. h \in LoadHeaders /\ ValidSegment(h) /\ Loaded(h, mapped, bytes)
      BY <2>1, <3>1, <3>2, HeaderTypes DEF SegmentsLoaded
    <3>4. Holds(h, entry)
      BY <3>1, <3>2 DEF Holds
    <3>5. entry \in UserAddresses
      <4>1. entry \in Nat /\ h.address \in Nat /\ h.memory_size \in Nat
        BY <3>3, LoadFields DEF ElfInv
      <4> QED BY <3>3, <3>4, <4>1, ElfLoaderAssumption DEF Holds, ValidSegment, UserAddresses
    <3> QED BY <3>1, <3>2, <3>3, <3>4, <3>5 DEF Loaded
  <2>3. \A i \in HeadersOf("load"), a \in UserAddresses :
          Holds(headers[i], a) =>
            /\ mapped[PageDown(a)] = headers[i].flags
            /\ bytes[a] = IF a - headers[i].address < headers[i].file_size
                          THEN FileByte(headers[i].offset + (a - headers[i].address))
                          ELSE Zero
    BY <2>1 DEF SegmentsLoaded, Loaded
  <2> QED BY <2>1, <2>2, <2>3 DEF LoadedExactly, NothingElse
<1> QED BY <1>1, <1>2, <1>3, PTL DEF ElfSpec

-----------------------------------------------------------------------------
(***************************************************************************)
(* Process arguments.  The inductive invariant says, for each stage of the *)
(* call, how far the arguments have come: in init's buffers with a list of *)
(* pointers that ends, in the kernel's copies, on the stack below one      *)
(* another, and under the vector.                                          *)
(***************************************************************************)
Delivered(texts) == [i \in DOMAIN texts |-> Truncated(texts[i])]

GivenOK ==
  \E length \in NameLengths, n \in 0 .. MAX_ARGUMENTS : \E lengths \in [1 .. n -> Nat] :
    given = [name |-> Name(length), passed |-> [i \in 1 .. n |-> Argument(i, lengths[i])]]

\* The strings are at their places on the stack s.
Placed(s, strings) ==
  \A k \in DOMAIN strings :
    /\ \A i \in 0 .. (strings[k].length - 1) :
         s[Starts(strings)[k] + i] = Char(strings[k].string, i)
    /\ s[Starts(strings)[k] + strings[k].length] = NUL

StartupInv ==
  /\ spawning \in {"idle", "copy", "strings", "vector", "started", "refused"}
  /\ DOMAIN stack = 0 .. (STACK_TOP - 1)
  /\ spawning # "idle" => GivenOK
  /\ spawning = "copy" =>
       /\ buffers = Delivered(given.passed)
       /\ argv = Pointers("init", Len(given.passed), NULL)
  /\ spawning \in {"strings", "vector"} => arguments = Delivered(given.passed)
  /\ spawning = "vector" => stack_pointer = StringStart(1) /\ Placed(stack, Strings)
  /\ ArgumentsDelivered

-----------------------------------------------------------------------------
\* The loop that places the strings.
LEMMA StartsFacts ==
  ASSUME NEW n \in Nat, NEW strings, Len(strings) = n,
         \A k \in 1 .. n : strings[k].length \in Nat
  PROVE  /\ Starts(strings) \in [1 .. (n + 1) -> Int]
         /\ Starts(strings)[n + 1] = STACK_TOP
         /\ \A k \in 1 .. n :
              Starts(strings)[k] = Starts(strings)[k + 1] - (strings[k].length + 1)
<1> DEFINE Rule(c, k) == IF k > n THEN STACK_TOP ELSE c[k + 1] - (strings[k].length + 1)
           Down(j) == (n + 1 - j) .. (n + 1)
           S == {j \in 0 .. n : \E c \in [Down(j) -> Int] : \A k \in Down(j) : c[k] = Rule(c, k)}
<1>1. 0 \in S
  <2>1. PICK c : c = [k \in Down(0) |-> STACK_TOP]
    OBVIOUS
  <2>2. c \in [Down(0) -> Int] /\ \A k \in Down(0) : c[k] = Rule(c, k)
    BY <2>1, StartupAssumption
  <2> QED BY <2>2
<1>2. ASSUME NEW j \in 1 .. n, j - 1 \in S PROVE j \in S
  <2>1. PICK c \in [Down(j - 1) -> Int] : \A k \in Down(j - 1) : c[k] = Rule(c, k)
    BY <1>2
  <2>2. PICK m \in 1 .. n : m = n + 1 - j
    OBVIOUS
  <2>3. PICK d : d = [k \in Down(j) |-> IF k = m THEN c[m + 1] - (strings[m].length + 1) ELSE c[k]]
    OBVIOUS
  <2>4. m + 1 \in Down(j - 1) /\ c[m + 1] \in Int
    BY <2>1, <2>2
  <2>5. ASSUME NEW k \in Down(j) PROVE d[k] \in Int /\ d[k] = Rule(d, k)
    <3>1. CASE k = m
      <4>1. d[m + 1] = c[m + 1] /\ d[k] = c[m + 1] - (strings[m].length + 1)
        BY <2>2, <2>3, <2>4, <3>1
      <4> QED BY <2>2, <2>4, <3>1, <4>1
    <3>2. CASE k # m
      <4>1. k \in Down(j - 1) /\ d[k] = c[k] /\ k \in Int /\ k > m
        BY <2>2, <2>3, <3>2
      <4>2. k <= n => k + 1 \in Down(j) /\ k + 1 # m /\ d[k + 1] = c[k + 1]
        BY <2>2, <2>3, <4>1
      <4> QED BY <2>1, <4>1, <4>2
    <3> QED BY <3>1, <3>2
  <2>6. d \in [Down(j) -> Int]
    BY <2>3, <2>5
  <2>7. j \in 0 .. n /\ \A k \in Down(j) : d[k] = Rule(d, k)
    BY <2>5
  <2> HIDE DEF Rule, Down
  <2> QED BY <2>6, <2>7
<1>3. n \in S
  <2> HIDE DEF S
  <2>1. \A i \in 0 .. n : i \in S
    BY <1>1, <1>2, LoopInduction
  <2> QED BY <2>1
<1>4. PICK c \in [1 .. (n + 1) -> Int] : \A k \in 1 .. (n + 1) : c[k] = Rule(c, k)
  <2>1. Down(n) = 1 .. (n + 1)
    OBVIOUS
  <2> QED BY <1>3, <2>1
<1>5. c = [k \in 1 .. (Len(strings) + 1) |->
             IF k > Len(strings) THEN STACK_TOP ELSE c[k + 1] - (strings[k].length + 1)]
  BY <1>4
<1>6. PICK f : f = Starts(strings)
  OBVIOUS
<1>7. f = [k \in 1 .. (Len(strings) + 1) |->
             IF k > Len(strings) THEN STACK_TOP ELSE f[k + 1] - (strings[k].length + 1)]
  BY <1>5, <1>6, Zenon DEF Starts
<1>8. DOMAIN f = 1 .. (n + 1) /\ \A k \in 1 .. (n + 1) : f[k] = Rule(f, k)
  BY <1>7
<1>9. f[n + 1] = STACK_TOP
  BY <1>8
<1>10. \A k \in 1 .. n : f[k] = f[k + 1] - (strings[k].length + 1)
  BY <1>8
<1>11. \A j \in 0 .. n : f[n + 1 - j] \in Int
  <2> DEFINE T == {j \in 0 .. n : f[n + 1 - j] \in Int}
  <2>1. 0 \in T
    <3>1. 0 \in 0 .. n /\ n + 1 - 0 = n + 1 /\ f[n + 1] \in Int
      BY <1>9, StartupAssumption
    <3> QED BY <3>1
  <2>2. ASSUME NEW j \in 1 .. n, j - 1 \in T PROVE j \in T
    <3>1. PICK m \in 1 .. n : m = n + 1 - j /\ m + 1 = n + 1 - (j - 1)
      OBVIOUS
    <3>2. PICK l \in Nat : l = strings[m].length
      OBVIOUS
    <3>3. f[m + 1] \in Int /\ f[m] = f[m + 1] - (l + 1)
      BY <1>10, <2>2, <3>1, <3>2
    <3>4. f[m] \in Int
      BY <3>3
    <3> QED BY <3>1, <3>4
  <2> HIDE DEF T
  <2>3. \A j \in 0 .. n : j \in T
    BY <2>1, <2>2, LoopInduction
  <2> QED BY <2>3 DEF T
<1>12. \A k \in 1 .. (n + 1) : f[k] \in Int
  <2> TAKE k \in 1 .. (n + 1)
  <2>1. n + 1 - k \in 0 .. n /\ n + 1 - (n + 1 - k) = k
    OBVIOUS
  <2> QED BY <1>11, <2>1
<1>13. f = [k \in 1 .. (n + 1) |-> f[k]]
  BY <1>7
<1> QED BY <1>6, <1>9, <1>10, <1>12, <1>13

\* A string ends below the next ones.
LEMMA StartsApart ==
  ASSUME NEW n \in Nat, NEW strings, Len(strings) = n,
         \A k \in 1 .. n : strings[k].length \in Nat
  PROVE  \A k, m \in 1 .. (n + 1) : k < m =>
           Starts(strings)[k] + strings[k].length + 1 <= Starts(strings)[m]
<1>1. PICK c : c = Starts(strings)
  OBVIOUS
<1>2. /\ c \in [1 .. (n + 1) -> Int]
      /\ \A k \in 1 .. n : c[k] = c[k + 1] - (strings[k].length + 1)
  BY <1>1, StartsFacts
<1> SUFFICES ASSUME NEW k \in 1 .. n, NEW m \in 1 .. (n + 1), k < m
             PROVE  c[k + 1] <= c[m]
  <2>1. ASSUME NEW k \in 1 .. (n + 1), NEW m \in 1 .. (n + 1), k < m,
               k \in 1 .. n => c[k + 1] <= c[m]
        PROVE  c[k] + strings[k].length + 1 <= c[m]
    <3>1. k \in 1 .. n
      BY <2>1
    <3>2. PICK l \in Nat : l = strings[k].length
      BY <3>1
    <3>3. /\ c[k] \in Int /\ c[k + 1] \in Int /\ c[m] \in Int
          /\ c[k] = c[k + 1] - (l + 1) /\ c[k + 1] <= c[m]
      BY <1>2, <2>1, <3>1, <3>2
    <3>4. c[k] + l + 1 <= c[m]
      BY <3>3
    <3> QED BY <3>2, <3>4
  <2> QED BY <1>1, <2>1
<1> DEFINE T == {j \in 0 .. (n - k) : c[k + 1] <= c[k + 1 + j]}
<1>3. 0 \in T
  BY <1>2
<1>4. ASSUME NEW j \in 1 .. (n - k), j - 1 \in T PROVE j \in T
  <2>1. k + j \in 1 .. n /\ k + 1 + (j - 1) = k + j /\ k + 1 + j = (k + j) + 1
    OBVIOUS
  <2>2. PICK l \in Nat : l = strings[k + j].length
    BY <2>1
  <2>3. c[k + 1] <= c[k + j]
    BY <1>4, <2>1
  <2>4. /\ c[k + 1] \in Int /\ c[k + j] \in Int /\ c[(k + j) + 1] \in Int
        /\ c[k + j] = c[(k + j) + 1] - (l + 1)
    BY <1>2, <2>1, <2>2
  <2>5. c[k + 1] <= c[(k + j) + 1]
    BY <2>3, <2>4
  <2> QED BY <2>1, <2>5
<1>5. \A j \in 0 .. (n - k) : j \in T
  <2>1. n - k \in Nat
    OBVIOUS
  <2> HIDE DEF T
  <2> QED BY <1>3, <1>4, <2>1, LoopInduction
<1>6. m - k - 1 \in 0 .. (n - k) /\ k + 1 + (m - k - 1) = m
  OBVIOUS
<1> QED BY <1>5, <1>6

LEMMA Products ==
  ASSUME NEW a \in Nat, NEW b \in Nat, NEW c \in Nat, b <= c
  PROVE  a * b \in Nat /\ a * b <= a * c /\ a * (b + 1) = a * b + a
OBVIOUS

LEMMA TextFacts ==
  /\ PWD.length = 2 /\ PATH.length = 3 /\ \A length : Name(length).length = length
  /\ \A i, length : length \in Nat =>
       Truncated(Argument(i, length)).length \in 0 .. (BUFFER_LENGTH - 1)
<1>1. ASSUME NEW i, NEW length \in Nat
      PROVE  Truncated(Argument(i, length)).length \in 0 .. (BUFFER_LENGTH - 1)
  <2>1. Truncated(Argument(i, length)).length = Min({length, BUFFER_LENGTH - 1})
    BY DEF Truncated, Argument, Text
  <2>2. PICK S : S = {length, BUFFER_LENGTH - 1}
    OBVIOUS
  <2>3. S \subseteq Nat /\ S # {} /\ BUFFER_LENGTH - 1 \in S
    BY <2>2, StartupAssumption
  <2>4. Min(S) \in S /\ Min(S) <= BUFFER_LENGTH - 1
    BY <2>3, MinIsLeast
  <2> QED BY <2>1, <2>2, <2>3, <2>4, StartupAssumption
<1> QED BY <1>1 DEF PWD, PATH, Name, Text

\* What initialize_process_stack() is to write: n arguments for a program whose
\* path has l bytes.
StringsOK(strings, n, l) ==
  /\ n \in 0 .. MAX_ARGUMENTS /\ l \in NameLengths
  /\ DOMAIN strings = 1 .. (n + 3) /\ Len(strings) = n + 3
  /\ strings[1] = PWD /\ strings[2] = PATH /\ strings[3] = given.name /\ given.name.length = l
  /\ \A i \in 1 .. n : /\ strings[i + 3] = Truncated(given.passed[i])
                       /\ strings[i + 3].length \in 0 .. (BUFFER_LENGTH - 1)
  /\ \A k \in 1 .. (n + 3) : strings[k].length \in Nat

LEMMA StringsAre ==
  ASSUME GivenOK, arguments = Delivered(given.passed)
  PROVE  \E n, l : StringsOK(Strings, n, l) /\ Len(given.passed) = n
<1>1. PICK l \in NameLengths, n \in 0 .. MAX_ARGUMENTS : \E lengths \in [1 .. n -> Nat] :
        given = [name |-> Name(l), passed |-> [i \in 1 .. n |-> Argument(i, lengths[i])]]
  BY DEF GivenOK
<1>2. PICK lengths \in [1 .. n -> Nat] :
        given = [name |-> Name(l), passed |-> [i \in 1 .. n |-> Argument(i, lengths[i])]]
  BY <1>1
<1>3. /\ given.name = Name(l) /\ given.passed = [i \in 1 .. n |-> Argument(i, lengths[i])]
      /\ n \in Nat /\ l \in Nat
  BY <1>2, StartupAssumption
<1>4. /\ DOMAIN given.passed = 1 .. n /\ Len(given.passed) = n
      /\ \A i \in 1 .. n : given.passed[i] = Argument(i, lengths[i])
  BY <1>3
<1>5. arguments = [i \in 1 .. n |-> Truncated(given.passed[i])]
  BY <1>4 DEF Delivered
<1>6. \A i \in 1 .. n : Truncated(given.passed[i]).length \in 0 .. (BUFFER_LENGTH - 1)
  BY <1>4, TextFacts
<1>7. PICK front, back, strings :
        front = <<PWD, PATH, given.name>> /\ back = arguments /\ strings = front \o back
  OBVIOUS
<1>8. Strings = strings
  BY <1>7 DEF Strings
<1>a. PICK A : A = {PWD, PATH, given.name} \cup {Truncated(given.passed[i]) : i \in 1 .. n}
  OBVIOUS
<1>9. /\ front \in Seq(A) /\ Len(front) = 3
      /\ front[1] = PWD /\ front[2] = PATH /\ front[3] = given.name
  BY <1>7, <1>a
<1>10. back \in Seq(A) /\ Len(back) = n /\ \A i \in 1 .. n : back[i] = Truncated(given.passed[i])
  <2>1. back = [i \in 1 .. n |-> Truncated(given.passed[i])]
    BY <1>5, <1>7
  <2>2. \A i \in 1 .. n : Truncated(given.passed[i]) \in A
    BY <1>a
  <2>3. back \in [1 .. n -> A]
    BY <2>1, <2>2
  <2>4. back \in Seq(A)
    BY <1>3, <2>3
  <2> QED BY <1>3, <2>1, <2>4
<1>11. /\ Len(strings) = n + 3 /\ DOMAIN strings = 1 .. (n + 3)
       /\ \A k \in 1 .. 3 : strings[k] = front[k]
       /\ \A i \in 1 .. n : strings[i + 3] = back[i]
  <2>1. /\ Len(strings) = 3 + n
        /\ \A k \in 1 .. (3 + n) : strings[k] = IF k <= 3 THEN front[k] ELSE back[k - 3]
    BY <1>3, <1>7, <1>9, <1>10, ConcatProperties
  <2>2. strings \in Seq(A)
    BY <1>7, <1>9, <1>10
  <2>3. \A i \in 1 .. n : i + 3 \in 1 .. (3 + n) /\ ~ (i + 3 <= 3) /\ (i + 3) - 3 = i
    BY <1>3
  <2> QED BY <1>3, <2>1, <2>2, <2>3
<1>12. /\ strings[1] = PWD /\ strings[2] = PATH /\ strings[3] = given.name
       /\ \A i \in 1 .. n : strings[i + 3] = Truncated(given.passed[i])
  BY <1>9, <1>10, <1>11
<1>13. given.name.length = l
  BY <1>3, TextFacts
<1>14. ASSUME NEW k \in 1 .. (n + 3) PROVE strings[k].length \in Nat
  <2>1. CASE k \in {1, 2, 3}
    BY <1>3, <1>12, <1>13, <2>1, TextFacts
  <2>2. CASE k \notin {1, 2, 3}
    <3>1. PICK i \in 1 .. n : k = i + 3
      <4>1. k - 3 \in 1 .. n /\ k = (k - 3) + 3
        BY <1>3, <2>2
      <4> QED BY <4>1
    <3>2. PICK m : m = strings[k].length
      OBVIOUS
    <3>3. m \in 0 .. (BUFFER_LENGTH - 1)
      BY <1>6, <1>12, <3>1, <3>2
    <3> QED BY <3>2, <3>3
  <2> QED BY <2>1, <2>2
<1>15. StringsOK(strings, n, l)
  BY <1>6, <1>11, <1>12, <1>13, <1>14 DEF StringsOK
<1> QED BY <1>4, <1>8, <1>15

\* The strings leave room for the vector.
LEMMA RoomLeft ==
  ASSUME NEW n, NEW l, NEW strings, StringsOK(strings, n, l)
  PROVE  /\ Starts(strings)[1] \in Nat
         /\ 2 * WORD + WORD * (n + 7) <= Starts(strings)[1]
<1>0. /\ n \in Nat /\ l \in Nat /\ n <= MAX_ARGUMENTS /\ l \in NameLengths
      /\ BUFFER_LENGTH \in Nat /\ MAX_ARGUMENTS \in Nat /\ WORD \in Nat /\ STACK_TOP \in Nat
  BY StartupAssumption DEF StringsOK
<1>1. PICK c : c = Starts(strings)
  OBVIOUS
<1>2. /\ c \in [1 .. (n + 4) -> Int] /\ c[n + 4] = STACK_TOP
      /\ \A k \in 1 .. (n + 3) : c[k] = c[k + 1] - (strings[k].length + 1)
  <2>1. n + 3 \in Nat /\ (n + 3) + 1 = n + 4
    BY <1>0
  <2> QED BY <1>1, <2>1, StartsFacts DEF StringsOK
<1> DEFINE T == {j \in 0 .. n : c[n + 4 - j] >= STACK_TOP - BUFFER_LENGTH * j}
<1>3. 0 \in T
  <2>1. n + 4 - 0 = n + 4 /\ 0 \in 0 .. n /\ STACK_TOP - BUFFER_LENGTH * 0 = STACK_TOP
    BY <1>0
  <2>2. c[n + 4] >= STACK_TOP
    BY <1>0, <1>2
  <2> QED BY <2>1, <2>2
<1>4. ASSUME NEW j \in 1 .. n, j - 1 \in T PROVE j \in T
  <2>1. PICK k \in 4 .. (n + 3) : k = n + 4 - j /\ k + 1 = n + 4 - (j - 1)
    BY <1>0
  <2>2. PICK m : m = strings[k].length
    OBVIOUS
  <2>3. m \in 0 .. (BUFFER_LENGTH - 1)
    <3>1. PICK i \in 1 .. n : k = i + 3
      <4>1. k - 3 \in 1 .. n /\ k = (k - 3) + 3
        BY <1>0
      <4> QED BY <4>1
    <3> QED BY <2>2, <3>1 DEF StringsOK
  <2>4. c[k] = c[k + 1] - (m + 1) /\ c[k] \in Int /\ c[k + 1] \in Int
    BY <1>0, <1>2, <2>2
  <2>5. c[k + 1] >= STACK_TOP - BUFFER_LENGTH * (j - 1)
    BY <1>4, <2>1
  <2>6. PICK x \in Nat : x = BUFFER_LENGTH * (j - 1) /\ BUFFER_LENGTH * j = x + BUFFER_LENGTH
    BY <1>0
  <2>7. c[k] >= STACK_TOP - (x + BUFFER_LENGTH)
    BY <1>0, <2>3, <2>4, <2>5, <2>6
  <2>8. j \in 0 .. n /\ c[n + 4 - j] >= STACK_TOP - BUFFER_LENGTH * j
    BY <2>1, <2>6, <2>7
  <2> QED BY <2>8
<1>5. n \in T
  <2> HIDE DEF T
  <2>1. \A j \in 0 .. n : j \in T
    BY <1>0, <1>3, <1>4, LoopInduction
  <2> QED BY <1>0, <2>1
<1>6. n + 4 - n = 4 /\ c[4] \in Int
  BY <1>0, <1>2
<1>7. PICK x \in Nat, y \in Nat :
        /\ x = BUFFER_LENGTH * n /\ y = WORD * (n + 7)
        /\ x <= BUFFER_LENGTH * MAX_ARGUMENTS /\ y <= WORD * (MAX_ARGUMENTS + 7)
  <2>1. n + 7 \in Nat /\ MAX_ARGUMENTS + 7 \in Nat /\ n + 7 <= MAX_ARGUMENTS + 7
    BY <1>0
  <2> QED BY <1>0, <2>1, Products
<1>8. c[4] >= STACK_TOP - x
  BY <1>5, <1>6, <1>7
<1>9. c[3] = c[4] - (l + 1) /\ c[2] = c[3] - 4 /\ c[1] = c[2] - 3
  <2>1. strings[1].length = 2 /\ strings[2].length = 3 /\ strings[3].length = l
    BY TextFacts DEF StringsOK
  <2>2. /\ c[3] = c[4] - (strings[3].length + 1) /\ c[2] = c[3] - (strings[2].length + 1)
        /\ c[1] = c[2] - (strings[1].length + 1)
    BY <1>0, <1>2
  <2>3. c[3] \in Int /\ c[2] \in Int
    BY <1>0, <1>2
  <2> QED BY <1>0, <2>1, <2>2, <2>3
<1>10. PICK u \in Nat, v \in Nat :
         u = BUFFER_LENGTH * MAX_ARGUMENTS /\ v = WORD * (MAX_ARGUMENTS + 7)
  BY <1>0
<1>11. (l + 1) + 4 + 3 + u + 2 * WORD + v <= STACK_TOP
  BY <1>0, <1>10, StartupAssumption, TextFacts DEF Needed
<1>12. c[1] \in Int /\ 2 * WORD + y <= c[1]
  BY <1>0, <1>6, <1>7, <1>8, <1>9, <1>10, <1>11
<1> QED BY <1>0, <1>1, <1>7, <1>12

-----------------------------------------------------------------------------
LEMMA MinOfTwo ==
  ASSUME NEW a \in Nat, NEW b \in Nat
  PROVE  Min({a, b}) \in {a, b} /\ Min({a, b}) <= a /\ Min({a, b}) <= b
<1>1. {a, b} \subseteq Nat /\ {a, b} # {}
  OBVIOUS
<1> QED BY <1>1, MinIsLeast

LEMMA PassStep ==
  ASSUME Callers \subseteq {"init"}, StartupInv,
         NEW caller \in Callers, NEW length \in NameLengths, NEW lengths \in Passed,
         PassArguments(caller, length, lengths)
  PROVE  StartupInv'
<1>1. PICK m \in 0 .. MaxPassed : lengths \in [1 .. m -> PassedLengths]
  BY DEF Passed
<1>2. PICK passed : passed = [i \in DOMAIN lengths |-> Argument(i, lengths[i])]
  OBVIOUS
<1>3. PICK n : n = Min({Len(passed), MAX_ARGUMENTS})
  OBVIOUS
<1>4. PICK taken : taken = SubSeq(passed, 1, n)
  OBVIOUS
<1>5. /\ spawning' = "copy" /\ UNCHANGED <<stack, stack_pointer>>
      /\ given' = [name |-> Name(length), passed |-> taken]
      /\ buffers' = [i \in DOMAIN taken |-> Truncated(taken[i])]
      /\ argv' = Pointers("init", Len(taken), NULL)
  BY <1>2, <1>3, <1>4, Zenon DEF PassArguments
<1>6. m \in Nat /\ MAX_ARGUMENTS \in Nat /\ lengths \in [1 .. m -> Nat]
  <2>1. PassedLengths \subseteq Nat /\ MaxPassed \in Nat /\ MAX_ARGUMENTS \in Nat
    BY StartupAssumption
  <2>2. m \in Nat
    BY <2>1
  <2>3. ASSUME NEW i \in 1 .. m PROVE lengths[i] \in Nat
    BY <1>1, <2>1
  <2> QED BY <1>1, <2>1, <2>2, <2>3
<1>7. passed = [i \in 1 .. m |-> Argument(i, lengths[i])] /\ Len(passed) = m
  BY <1>2, <1>6
<1>8. n \in Nat /\ n <= m /\ n <= MAX_ARGUMENTS
  BY <1>3, <1>6, <1>7, MinOfTwo
<1>9. taken = [i \in 1 .. n |-> Argument(i, lengths[i])] /\ Len(taken) = n
  BY <1>4, <1>6, <1>7, <1>8
<1>10. PICK some \in [1 .. n -> Nat] : taken = [i \in 1 .. n |-> Argument(i, some[i])]
  <2>1. PICK some : some = [i \in 1 .. n |-> lengths[i]]
    OBVIOUS
  <2>2. some \in [1 .. n -> Nat] /\ \A i \in 1 .. n : some[i] = lengths[i]
    BY <1>6, <1>8, <2>1
  <2> QED BY <1>9, <2>2
<1>11. GivenOK'
  <2>1. n \in 0 .. MAX_ARGUMENTS
    BY <1>6, <1>8
  <2>2. given' = [name |-> Name(length), passed |-> [i \in 1 .. n |-> Argument(i, some[i])]]
    BY <1>5, <1>10
  <2> QED BY <2>1, <2>2, Zenon DEF GivenOK
<1>12. given'.passed = taken
  BY <1>5
<1>13. buffers' = Delivered(given'.passed) /\ argv' = Pointers("init", Len(given'.passed), NULL)
  BY <1>5, <1>12 DEF Delivered
<1>14. DOMAIN stack' = 0 .. (STACK_TOP - 1)
  BY <1>5 DEF StartupInv
<1> QED BY <1>5, <1>11, <1>13, <1>14 DEF StartupInv, ArgumentsDelivered

\* The list of pointers ends after the arguments.
LEMMA PointersEnd ==
  ASSUME NEW n \in 0 .. MAX_ARGUMENTS, argv = Pointers("init", n, NULL)
  PROVE  Count = n /\ \A i \in 1 .. n : argv[i] = i
<1>0. n \in Nat /\ MAX_ARGUMENTS \in Nat
  BY StartupAssumption
<1>1. CASE n = 0
  <2>1. argv = <<>>
    BY <1>1 DEF Pointers
  <2>2. Ends = {} /\ Len(argv) = 0
    BY <2>1 DEF Ends
  <2> QED BY <1>1, <2>2 DEF Count
<1>2. CASE n > 0
  <2>1. argv = [i \in 1 .. MAX_ARGUMENTS |-> IF i <= n THEN i ELSE 0]
    BY <1>0, <1>2 DEF Pointers, NULL
  <2>2. Len(argv) = MAX_ARGUMENTS /\ \A i \in 1 .. n : argv[i] = i
    BY <1>0, <2>1
  <2>3. Ends = (n + 1) .. MAX_ARGUMENTS
    BY <1>0, <2>1 DEF Ends, NULL
  <2>4. CASE n = MAX_ARGUMENTS
    <3>1. Ends = {}
      BY <1>0, <2>3, <2>4
    <3> QED BY <2>2, <2>4, <3>1 DEF Count
  <2>5. CASE n < MAX_ARGUMENTS
    <3>1. Ends \subseteq Nat /\ Ends # {} /\ n + 1 \in Ends
      <4>1. n + 1 \in (n + 1) .. MAX_ARGUMENTS /\ (n + 1) .. MAX_ARGUMENTS \subseteq Nat
        BY <1>0, <2>5
      <4> QED BY <2>3, <4>1
    <3>2. PICK e : e = Min(Ends)
      OBVIOUS
    <3>3. e \in Ends /\ e <= n + 1
      BY <3>1, <3>2, MinIsLeast
    <3>4. e = n + 1
      BY <1>0, <2>3, <3>3
    <3>5. Count = n
      BY <1>0, <3>1, <3>2, <3>4 DEF Count
    <3> QED BY <2>2, <3>5
  <2> QED BY <1>0, <2>4, <2>5
<1> QED BY <1>0, <1>1, <1>2

LEMMA CopyStep ==
  ASSUME StartupInv, CopyArguments
  PROVE  StartupInv'
<1>1. /\ GivenOK /\ buffers = Delivered(given.passed)
      /\ argv = Pointers("init", Len(given.passed), NULL)
      /\ UNCHANGED <<given, argv, buffers, stack, stack_pointer>>
  BY DEF CopyArguments, StartupInv
<1>2. PICK n \in 0 .. MAX_ARGUMENTS :
        /\ DOMAIN given.passed = 1 .. n /\ Len(given.passed) = n
        /\ \A i \in 1 .. n : Truncated(given.passed[i]).length \in 0 .. (BUFFER_LENGTH - 1)
  <2>1. PICK l \in NameLengths, n \in 0 .. MAX_ARGUMENTS : \E lengths \in [1 .. n -> Nat] :
          given = [name |-> Name(l), passed |-> [i \in 1 .. n |-> Argument(i, lengths[i])]]
    BY <1>1 DEF GivenOK
  <2>2. PICK lengths \in [1 .. n -> Nat] :
          given = [name |-> Name(l), passed |-> [i \in 1 .. n |-> Argument(i, lengths[i])]]
    BY <2>1
  <2>3. given.passed = [i \in 1 .. n |-> Argument(i, lengths[i])] /\ n \in Nat
    BY <2>2, StartupAssumption
  <2>4. \A i \in 1 .. n : Truncated(given.passed[i]).length \in 0 .. (BUFFER_LENGTH - 1)
    BY <2>3, TextFacts
  <2> QED BY <2>3, <2>4
<1>3. Count = n /\ \A i \in 1 .. n : argv[i] = i
  BY <1>1, <1>2, PointersEnd
<1>4. ASSUME NEW i \in 1 .. n
      PROVE  /\ Target(argv[i]) = Truncated(given.passed[i])
             /\ argv[i] # Wild /\ Target(argv[i]).length < ARGUMENT_LIMIT
  <2>1. argv[i] = i /\ i # Wild /\ i # Elsewhere
    BY <1>3 DEF Wild, Elsewhere
  <2>2. Target(argv[i]) = Truncated(given.passed[i])
    BY <1>1, <1>2, <2>1 DEF Target, Delivered
  <2>3. PICK m : m = Target(argv[i]).length
    OBVIOUS
  <2>4. m \in 0 .. (BUFFER_LENGTH - 1)
    BY <1>2, <2>2, <2>3
  <2>5. m < ARGUMENT_LIMIT
    BY <2>4, StartupAssumption
  <2> QED BY <2>1, <2>2, <2>3, <2>5
<1>5. /\ arguments' = [i \in 1 .. Count |-> Target(argv[i])] /\ spawning' = "strings"
  BY <1>3, <1>4 DEF CopyArguments
<1>6. arguments' = Delivered(given'.passed)
  BY <1>1, <1>2, <1>3, <1>4, <1>5 DEF Delivered
<1>7. GivenOK' /\ DOMAIN stack' = 0 .. (STACK_TOP - 1)
  BY <1>1 DEF GivenOK, StartupInv
<1> QED BY <1>5, <1>6, <1>7 DEF StartupInv, ArgumentsDelivered

\* The strings that cover byte a: at most one.
Covering(strings, a) ==
  {k \in DOMAIN strings :
     Starts(strings)[k] <= a /\ a <= Starts(strings)[k] + strings[k].length}

LEMMA CoveredOnce ==
  ASSUME NEW n, NEW l, NEW strings, StringsOK(strings, n, l),
         NEW k \in 1 .. (n + 3), NEW i \in 0 .. strings[k].length
  PROVE  /\ Starts(strings)[k] \in Nat /\ Starts(strings)[k] >= Starts(strings)[1]
         /\ Starts(strings)[k] + i \in 0 .. (STACK_TOP - 1)
         /\ Covering(strings, Starts(strings)[k] + i) = {k}
<1>1. PICK c : c = Starts(strings)
  OBVIOUS
<1>2. /\ n \in Nat /\ n + 3 \in Nat /\ Len(strings) = n + 3 /\ DOMAIN strings = 1 .. (n + 3)
      /\ \A m \in 1 .. (n + 3) : strings[m].length \in Nat
  BY StartupAssumption DEF StringsOK
<1>3. /\ c \in [1 .. (n + 4) -> Int] /\ c[n + 4] = STACK_TOP
      /\ \A j, m \in 1 .. (n + 4) : j < m => c[j] + strings[j].length + 1 <= c[m]
  <2>1. (n + 3) + 1 = n + 4
    BY <1>2
  <2> QED BY <1>1, <1>2, <2>1, StartsFacts, StartsApart
<1>4. c[1] \in Nat /\ c[k] \in Int
  BY <1>1, <1>2, <1>3, RoomLeft
<1>5. PICK len \in Nat : len = strings[k].length
  BY <1>2
<1>6. i \in Nat /\ i <= len
  BY <1>5
<1>7. c[1] <= c[k]
  <2>1. PICK len1 \in Nat : len1 = strings[1].length
    BY <1>2
  <2>2. 1 \in 1 .. (n + 4) /\ k \in 1 .. (n + 4) /\ (k = 1 \/ 1 < k)
    BY <1>2
  <2>3. 1 < k => c[1] + len1 + 1 <= c[k]
    BY <1>3, <2>1, <2>2
  <2> QED BY <1>4, <2>2, <2>3
<1>8. c[k] + len + 1 <= STACK_TOP
  <2>1. k \in 1 .. (n + 4) /\ n + 4 \in 1 .. (n + 4) /\ k < n + 4
    BY <1>2
  <2> QED BY <1>3, <1>5, <2>1
<1>9. c[k] + i \in 0 .. (STACK_TOP - 1) /\ c[k] \in Nat
  BY <1>4, <1>6, <1>7, <1>8, StartupAssumption
<1>10. ASSUME NEW m \in 1 .. (n + 3), m # k
       PROVE  ~ (c[m] <= c[k] + i /\ c[k] + i <= c[m] + strings[m].length)
  <2>1. PICK len2 \in Nat : len2 = strings[m].length
    BY <1>2
  <2>2. m \in 1 .. (n + 4) /\ k \in 1 .. (n + 4) /\ (m < k \/ k < m) /\ c[m] \in Int
    BY <1>2, <1>3, <1>10
  <2>3. /\ m < k => c[m] + len2 + 1 <= c[k]
        /\ k < m => c[k] + len + 1 <= c[m]
    BY <1>3, <1>5, <2>1, <2>2
  <2> QED BY <1>4, <1>6, <2>1, <2>2, <2>3
<1>11. c[k] <= c[k] + i /\ c[k] + i <= c[k] + strings[k].length
  BY <1>4, <1>5, <1>6
<1>12. Covering(strings, c[k] + i) = {k}
  BY <1>1, <1>2, <1>10, <1>11 DEF Covering
<1> QED BY <1>1, <1>7, <1>9, <1>12

LEMMA StringsStep ==
  ASSUME StartupInv, WriteStrings
  PROVE  StartupInv'
<1>1. /\ GivenOK /\ arguments = Delivered(given.passed) /\ DOMAIN stack = 0 .. (STACK_TOP - 1)
      /\ UNCHANGED <<given, argv, buffers, arguments>> /\ spawning' = "vector"
      /\ stack_pointer' = StringStart(1)
  BY DEF WriteStrings, StartupInv
<1>2. PICK n, l : StringsOK(Strings, n, l)
  BY <1>1, StringsAre
<1>3. Strings' = Strings /\ Starts(Strings)' = Starts(Strings)
  BY <1>1 DEF Strings
<1>4. stack' = [a \in 0 .. (STACK_TOP - 1) |->
                  IF Covering(Strings, a) = {} THEN stack[a]
                  ELSE StringByte(Min(Covering(Strings, a)), a)]
  BY <1>1 DEF WriteStrings, Covering, StringStart
<1>5. ASSUME NEW k \in 1 .. (n + 3), NEW i \in 0 .. Strings[k].length
      PROVE  stack'[Starts(Strings)[k] + i] =
               IF i = Strings[k].length THEN NUL ELSE Char(Strings[k].string, i)
  <2>1. PICK c \in Nat : c = Starts(Strings)[k]
    BY <1>2, CoveredOnce
  <2>2. PICK a : a = c + i
    OBVIOUS
  <2>3. a \in 0 .. (STACK_TOP - 1) /\ Covering(Strings, a) = {k}
    BY <1>2, <2>1, <2>2, CoveredOnce
  <2>4. Min({k}) = k
    <3>1. k \in Nat /\ {k} \subseteq Nat /\ {k} # {}
      BY <1>2 DEF StringsOK
    <3> QED BY <3>1, MinIsLeast
  <2>5. stack'[a] = StringByte(k, a)
    BY <1>4, <2>3, <2>4
  <2>6. PICK len \in Nat : len = Strings[k].length
    BY <1>2 DEF StringsOK
  <2>7. i \in Nat /\ (a = c + len <=> i = len) /\ a - c = i
    BY <2>1, <2>2, <2>6
  <2> QED BY <2>1, <2>2, <2>5, <2>6, <2>7 DEF StringByte, StringStart
<1>6. Placed(stack', Strings)
  <2> SUFFICES ASSUME NEW k \in 1 .. (n + 3)
               PROVE  /\ \A i \in 0 .. (Strings[k].length - 1) :
                           stack'[Starts(Strings)[k] + i] = Char(Strings[k].string, i)
                      /\ stack'[Starts(Strings)[k] + Strings[k].length] = NUL
    BY <1>2 DEF Placed, StringsOK
  <2>1. PICK len \in Nat : len = Strings[k].length
    BY <1>2 DEF StringsOK
  <2>2. \A i \in 0 .. (len - 1) : i \in 0 .. len /\ i # len
    OBVIOUS
  <2>3. len \in 0 .. len
    OBVIOUS
  <2> QED BY <1>5, <2>1, <2>2, <2>3
<1>7. GivenOK' /\ DOMAIN stack' = 0 .. (STACK_TOP - 1) /\ arguments' = Delivered(given'.passed)
  BY <1>1, <1>4 DEF GivenOK
<1>8. stack_pointer' = StringStart(1)' /\ Placed(stack', Strings')
  BY <1>1, <1>3, <1>6 DEF StringStart
<1> QED BY <1>1, <1>7, <1>8 DEF StartupInv, ArgumentsDelivered

LEMMA VectorIs ==
  ASSUME NEW n, NEW l, StringsOK(Strings, n, l), NEW c, c = Starts(Strings)
  PROVE  /\ Len(StartupVector) = n + 7
         /\ StartupVector[1] = n + 1 /\ \A i \in 1 .. (n + 1) : StartupVector[i + 1] = c[i + 2]
         /\ StartupVector[n + 3] = NULL /\ StartupVector[n + 4] = c[2]
         /\ StartupVector[n + 5] = c[1] /\ StartupVector[n + 6] = NULL
<1>1. n \in Nat /\ Len(Strings) - 2 = n + 1
  BY StartupAssumption DEF StringsOK
<1>2. PICK front, middle, back :
        /\ front = <<n + 1>> /\ middle = [i \in 1 .. (n + 1) |-> c[i + 2]]
        /\ back = <<NULL, c[2], c[1], NULL, 0>>
  OBVIOUS
<1>3. PICK v, w : v = front \o middle /\ w = v \o back
  OBVIOUS
<1>4. StartupVector = w
  BY <1>1, <1>2, <1>3 DEF StartupVector, StringStart
<1>5. \A k \in 1 .. (n + 3) : c[k] \in Int
  <2>1. n + 3 \in Nat /\ \A k \in 1 .. (n + 3) : k \in 1 .. ((n + 3) + 1)
    BY <1>1
  <2>2. c \in [1 .. ((n + 3) + 1) -> Int]
    BY <2>1, StartsFacts DEF StringsOK
  <2> QED BY <2>1, <2>2
<1>6. front \in Seq(Int) /\ Len(front) = 1 /\ front[1] = n + 1
  BY <1>1, <1>2
<1>7. /\ middle \in Seq(Int) /\ Len(middle) = n + 1
      /\ \A i \in 1 .. (n + 1) : middle[i] = c[i + 2]
  <2>1. \A i \in 1 .. (n + 1) : i + 2 \in 1 .. (n + 3)
    BY <1>1
  <2>2. middle \in [1 .. (n + 1) -> Int]
    BY <1>2, <1>5, <2>1
  <2> QED BY <1>1, <1>2, <2>2
<1>8. /\ back \in Seq(Int) /\ Len(back) = 5
      /\ back[1] = NULL /\ back[2] = c[2] /\ back[3] = c[1] /\ back[4] = NULL
  <2>1. c[1] \in Int /\ c[2] \in Int /\ NULL \in Int
    BY <1>1, <1>5 DEF NULL
  <2> QED BY <1>2, <2>1
<1>9. /\ v \in Seq(Int) /\ Len(v) = n + 2
      /\ \A k \in 1 .. (n + 2) : v[k] = IF k <= 1 THEN front[k] ELSE middle[k - 1]
  <2>1. PICK m \in Nat : m = n + 1 /\ 1 + m = n + 2
    BY <1>1
  <2>s. PICK S : S = Int
    OBVIOUS
  <2>i. front \in Seq(S) /\ middle \in Seq(S)
    BY <1>6, <1>7, <2>s
  <2>2. /\ v \in Seq(S) /\ Len(v) = Len(front) + Len(middle)
        /\ \A k \in 1 .. (Len(front) + Len(middle)) :
             v[k] = IF k <= Len(front) THEN front[k] ELSE middle[k - Len(front)]
    BY <1>3, <2>i, ConcatProperties
  <2> QED BY <1>6, <1>7, <2>1, <2>2, <2>s
<1>10. /\ Len(w) = n + 7
       /\ \A k \in 1 .. (n + 7) : w[k] = IF k <= n + 2 THEN v[k] ELSE back[k - (n + 2)]
  <2>1. PICK m \in Nat : m = n + 2 /\ m + 5 = n + 7
    BY <1>1
  <2>s. PICK S : S = Int
    OBVIOUS
  <2>i. v \in Seq(S) /\ back \in Seq(S)
    BY <1>8, <1>9, <2>s
  <2>2. /\ Len(w) = Len(v) + Len(back)
        /\ \A k \in 1 .. (Len(v) + Len(back)) :
             w[k] = IF k <= Len(v) THEN v[k] ELSE back[k - Len(v)]
    BY <1>3, <2>i, ConcatProperties
  <2> QED BY <1>8, <1>9, <2>1, <2>2
<1>11. w[1] = n + 1
  BY <1>1, <1>6, <1>9, <1>10
<1>12. ASSUME NEW i \in 1 .. (n + 1) PROVE w[i + 1] = c[i + 2]
  <2>1. /\ i + 1 \in 1 .. (n + 7) /\ i + 1 \in 1 .. (n + 2) /\ i + 1 <= n + 2
        /\ ~ (i + 1 <= 1) /\ (i + 1) - 1 = i
    BY <1>1
  <2> QED BY <1>7, <1>9, <1>10, <2>1
<1>13. w[n + 3] = back[1] /\ w[n + 4] = back[2] /\ w[n + 5] = back[3] /\ w[n + 6] = back[4]
  <2>1. ASSUME NEW j \in 1 .. 5 PROVE w[n + 2 + j] = back[j]
    <3>1. PICK k \in 1 .. (n + 7) : k = n + 2 + j /\ ~ (k <= n + 2) /\ k - (n + 2) = j
      BY <1>1
    <3>2. w[k] = back[k - (n + 2)]
      BY <1>10, <3>1
    <3> QED BY <3>1, <3>2
  <2>2. n + 3 = n + 2 + 1 /\ n + 4 = n + 2 + 2 /\ n + 5 = n + 2 + 3 /\ n + 6 = n + 2 + 4
    BY <1>1
  <2> QED BY <2>1, <2>2
<1> QED BY <1>4, <1>8, <1>10, <1>11, <1>12, <1>13

\* The word a byte is in.
LEMMA WordOfByte ==
  ASSUME NEW w \in Nat \ {0}, NEW i \in Nat, NEW b \in 0 .. (w - 1)
  PROVE  (w * i + b) \div w = i
<1>1. PICK q, r : q = (w * i + b) \div w /\ r = (w * i + b) % w
  OBVIOUS
<1>2. q \in Nat /\ r \in 0 .. (w - 1) /\ w * i + b = w * q + r
  <2>1. w * i + b \in Nat
    OBVIOUS
  <2> QED BY <1>1, <2>1
<1>3. w * (i - q) = r - b
  BY <1>2
<1>4. CASE i > q
  <2>1. w * (i - q) >= w
    BY <1>2, <1>4
  <2> QED BY <1>2, <1>3, <2>1
<1>5. CASE i < q
  <2>1. w * (q - i) >= w /\ w * (i - q) = 0 - w * (q - i)
    BY <1>2, <1>5
  <2> QED BY <1>2, <1>3, <2>1
<1> QED BY <1>1, <1>2, <1>4, <1>5

LEMMA AlignedDown ==
  ASSUME NEW a \in Nat, NEW d \in Nat \ {0}, NEW top, top = (a \div d) * d
  PROVE  top \in Nat /\ top <= a /\ a < top + d
<1>1. PICK q, r : q = a \div d /\ r = a % d
  OBVIOUS
<1>2. q \in Nat /\ r \in 0 .. (d - 1) /\ a = d * q + r
  BY <1>1
<1>3. PICK x \in Nat : x = d * q /\ top = x
  BY <1>1, <1>2
<1> QED BY <1>2, <1>3

LEMMA VectorStep ==
  ASSUME StartupInv, WriteVector
  PROVE  StartupInv'
<1>1. /\ GivenOK /\ arguments = Delivered(given.passed) /\ DOMAIN stack = 0 .. (STACK_TOP - 1)
      /\ UNCHANGED <<given, argv, buffers, arguments>> /\ spawning' = "started"
      /\ stack_pointer = StringStart(1) /\ Placed(stack, Strings)
  BY DEF WriteVector, StartupInv
<1>2. PICK n, l : StringsOK(Strings, n, l) /\ Len(given.passed) = n
  BY <1>1, StringsAre
<1>n. n \in Nat /\ WORD \in Nat \ {0} /\ STACK_TOP \in Nat
  BY <1>2, StartupAssumption DEF StringsOK
<1>3. PICK c : c = Starts(Strings)
  OBVIOUS
<1>4. c[1] \in Nat /\ 2 * WORD + WORD * (n + 7) <= c[1] /\ stack_pointer = c[1]
  BY <1>1, <1>2, <1>3, RoomLeft DEF StringStart
<1>5. PICK top : top = (stack_pointer \div (2 * WORD)) * (2 * WORD)
  OBVIOUS
<1>6. top \in Nat /\ top <= c[1] /\ c[1] < top + 2 * WORD
  <2>1. 2 * WORD \in Nat \ {0}
    BY <1>n
  <2> QED BY <1>4, <1>5, <2>1, AlignedDown
<1>7. PICK bottom : bottom = top - WORD * Len(StartupVector)
  OBVIOUS
<1>8. PICK v : v = StartupVector
  OBVIOUS
<1>9. /\ stack' = [a \in 0 .. (STACK_TOP - 1) |->
                     IF bottom <= a /\ a < top THEN v[(a - bottom) \div WORD + 1] ELSE stack[a]]
      /\ stack_pointer' = bottom
  BY <1>1, <1>5, <1>7, <1>8, Zenon DEF WriteVector
<1>10. PICK size \in Nat : size = WORD * (n + 7) /\ bottom = top - size /\ bottom \in Nat
  <2>1. Len(StartupVector) = n + 7 /\ WORD * (n + 7) \in Nat
    BY <1>2, <1>3, <1>n, VectorIs
  <2>2. PICK size \in Nat : size = WORD * (n + 7)
    BY <2>1
  <2>3. bottom = top - size
    BY <1>7, <2>1, <2>2
  <2>4. bottom \in Nat
    BY <1>4, <1>6, <1>n, <2>2, <2>3
  <2> QED BY <2>2, <2>3, <2>4
<1>11. c[1] < STACK_TOP
  <2>1. /\ 1 \in 1 .. (n + 3) /\ 0 \in 0 .. Strings[1].length
    BY <1>2, <1>n DEF StringsOK
  <2>2. c[1] + 0 \in 0 .. (STACK_TOP - 1)
    BY <1>2, <1>3, <2>1, CoveredOnce
  <2> QED BY <1>4, <1>n, <2>2
\* Every byte of word i is the vector's entry.
<1>12. ASSUME NEW i \in 0 .. (n + 6), NEW b \in 0 .. (WORD - 1)
       PROVE  stack'[stack_pointer' + WORD * i + b] = v[i + 1]
  <2>1. PICK x \in Nat : x = WORD * i /\ x + WORD <= size
    <3>1. WORD * (i + 1) <= WORD * (n + 7) /\ WORD * (i + 1) = WORD * i + WORD /\ WORD * i \in Nat
      BY <1>n
    <3> QED BY <1>10, <1>n, <3>1
  <2>2. PICK a : a = bottom + x + b
    OBVIOUS
  <2>3. bottom <= a /\ a < top /\ a - bottom = x + b /\ a \in Nat
    BY <1>6, <1>10, <1>n, <2>1, <2>2
  <2>4. a \in 0 .. (STACK_TOP - 1)
    BY <1>4, <1>6, <1>11, <1>n, <2>3
  <2>5. (a - bottom) \div WORD = i
    <3>1. i \in Nat
      BY <1>n
    <3> QED BY <1>n, <2>1, <2>3, <3>1, WordOfByte
  <2>6. stack'[a] = v[i + 1]
    BY <1>9, <2>3, <2>4, <2>5
  <2> QED BY <1>9, <2>1, <2>2, <2>6
<1>13. ASSUME NEW i \in 0 .. (n + 6)
       PROVE  WordAt(i)' = v[i + 1] /\ Intact(i)'
  <2>1. 0 \in 0 .. (WORD - 1)
    BY <1>n
  <2>2. stack'[stack_pointer' + WORD * i + 0] = v[i + 1]
    BY <1>12, <2>1
  <2>3. stack_pointer' + WORD * i + 0 = stack_pointer' + WORD * i
    BY <1>9, <1>10, <1>n
  <2>4. WordAt(i)' = v[i + 1]
    BY <2>2, <2>3 DEF WordAt
  <2> QED BY <1>12, <2>4 DEF Intact
\* The strings are above the vector.
<1> DEFINE Stays(pointer, text) ==
             /\ \A i \in 0 .. (text.length - 1) : stack'[pointer + i] = Char(text.string, i)
             /\ stack'[pointer + text.length] = NUL
<1>14. ASSUME NEW k \in 1 .. (n + 3) PROVE Stays(c[k], Strings[k])
  <2>1. PICK len \in Nat : len = Strings[k].length
    BY <1>2 DEF StringsOK
  <2>2. ASSUME NEW i \in 0 .. len PROVE stack'[c[k] + i] = stack[c[k] + i]
    <3>1. c[k] \in Nat /\ c[k] >= c[1] /\ c[k] + i \in 0 .. (STACK_TOP - 1)
      BY <1>2, <1>3, <2>1, CoveredOnce
    <3>2. ~ (c[k] + i < top)
      BY <1>4, <1>6, <3>1
    <3> QED BY <1>9, <3>1, <3>2
  <2>3. /\ \A i \in 0 .. (len - 1) : stack[c[k] + i] = Char(Strings[k].string, i)
        /\ stack[c[k] + len] = NUL
    BY <1>1, <1>2, <1>3, <2>1 DEF Placed, StringsOK
  <2>4. /\ \A i \in 0 .. (len - 1) : stack'[c[k] + i] = Char(Strings[k].string, i)
        /\ stack'[c[k] + len] = NUL
    <3>1. len \in 0 .. len /\ \A i \in 0 .. (len - 1) : i \in 0 .. len
      OBVIOUS
    <3> QED BY <2>2, <2>3, <3>1
  <2> QED BY <2>1, <2>4
<1>15. ArgumentsDelivered'
  <2>s. /\ Strings[1] = PWD /\ Strings[2] = PATH /\ Strings[3] = given.name
        /\ \A i \in 1 .. n : Strings[i + 3] = Truncated(given.passed[i])
    BY <1>2 DEF StringsOK
  <2>v. /\ v[1] = n + 1 /\ \A i \in 1 .. (n + 1) : v[i + 1] = c[i + 2]
        /\ v[n + 3] = NULL /\ v[n + 4] = c[2] /\ v[n + 5] = c[1] /\ v[n + 6] = NULL
    BY <1>2, <1>3, <1>8, VectorIs
  <2>1. WordAt(0)' = n + 1
    <3>1. 0 \in 0 .. (n + 6) /\ 0 + 1 = 1
      BY <1>n
    <3>2. WordAt(0)' = v[0 + 1]
      BY <1>13, <3>1
    <3> QED BY <2>v, <3>1, <3>2
  <2>2. ASSUME NEW i \in 1 .. (n + 1)
        PROVE  WordAt(i)' = c[i + 2] /\ Stays(WordAt(i)', Strings[i + 2])
    <3>1. i \in 0 .. (n + 6) /\ i + 2 \in 1 .. (n + 3)
      BY <1>n
    <3>2. WordAt(i)' = c[i + 2]
      BY <1>13, <2>v, <3>1
    <3>3. Stays(c[i + 2], Strings[i + 2])
      BY <1>14, <3>1
    <3> HIDE DEF Stays
    <3> QED BY <3>2, <3>3
  <2>3. Stays(WordAt(1)', given.name)
    <3>1. 1 \in 1 .. (n + 1) /\ 1 + 2 = 3
      BY <1>n
    <3> HIDE DEF Stays
    <3> QED BY <2>2, <2>s, <3>1
  <2>4. ASSUME NEW i \in 1 .. n PROVE Stays(WordAt(i + 1)', Truncated(given.passed[i]))
    <3>1. i + 1 \in 1 .. (n + 1) /\ (i + 1) + 2 = i + 3
      BY <1>n
    <3> HIDE DEF Stays
    <3> QED BY <2>2, <2>s, <3>1
  <2>5. /\ WordAt(n + 2)' = NULL /\ WordAt(n + 5)' = NULL
        /\ WordAt(n + 3)' = c[2] /\ WordAt(n + 4)' = c[1]
    <3>1. ASSUME NEW j \in 2 .. 5 PROVE WordAt(n + j)' = v[n + j + 1]
      <4>1. n + j \in 0 .. (n + 6)
        BY <1>n
      <4> QED BY <1>13, <4>1
    <3>2. /\ n + 2 + 1 = n + 3 /\ n + 3 + 1 = n + 4 /\ n + 4 + 1 = n + 5 /\ n + 5 + 1 = n + 6
      BY <1>n
    <3>3. /\ WordAt(n + 2)' = v[n + 2 + 1] /\ WordAt(n + 3)' = v[n + 3 + 1]
          /\ WordAt(n + 4)' = v[n + 4 + 1] /\ WordAt(n + 5)' = v[n + 5 + 1]
      BY <3>1
    <3> QED BY <2>v, <3>2, <3>3
  <2>6. Stays(WordAt(n + 3)', PATH) /\ Stays(WordAt(n + 4)', PWD)
    <3>1. 1 \in 1 .. (n + 3) /\ 2 \in 1 .. (n + 3)
      BY <1>n
    <3>2. Stays(c[1], PWD) /\ Stays(c[2], PATH)
      <4> HIDE DEF Stays
      <4> QED BY <1>14, <2>s, <3>1
    <3> HIDE DEF Stays
    <3> QED BY <2>5, <3>2
  <2>7. given' = given /\ Len(given.passed) = n
    BY <1>1, <1>2
  <2>8. /\ \A i \in 0 .. (n + 6) : Intact(i)'
        /\ IsString(WordAt(1), given.name)'
        /\ \A i \in 1 .. n : IsString(WordAt(i + 1), Truncated(given.passed[i]))'
        /\ IsString(WordAt(n + 3), PATH)' /\ IsString(WordAt(n + 4), PWD)'
    BY <1>13, <2>3, <2>4, <2>6, <2>7 DEF IsString
  <2> QED BY <2>1, <2>5, <2>7, <2>8 DEF ArgumentsDelivered
<1>16. GivenOK' /\ DOMAIN stack' = 0 .. (STACK_TOP - 1)
  BY <1>1, <1>9 DEF GivenOK
<1> QED BY <1>1, <1>15, <1>16 DEF StartupInv

LEMMA StartupStep ==
  ASSUME Callers \subseteq {"init"}, StartupInv, [StartupNext]_startupVars
  PROVE  StartupInv'
<1>1. CASE UNCHANGED startupVars
  <2>1. UNCHANGED <<spawning, given, argv, buffers, arguments, stack, stack_pointer>>
    BY <1>1 DEF startupVars
  <2>2. GivenOK => GivenOK'
    BY <2>1 DEF GivenOK
  <2>3. Strings' = Strings /\ StringStart(1)' = StringStart(1)
    BY <2>1 DEF Strings, StringStart
  <2>4. ArgumentsDelivered'
    BY <2>1 DEF StartupInv, ArgumentsDelivered, Intact, WordAt, IsString
  <2> QED BY <2>1, <2>2, <2>3, <2>4 DEF StartupInv
<1>2. ASSUME NEW caller \in Callers, NEW length \in NameLengths, NEW lengths \in Passed,
             PassArguments(caller, length, lengths)
      PROVE  StartupInv'
  BY <1>2, PassStep
<1>3. CASE CopyArguments
  BY <1>3, CopyStep
<1>4. CASE WriteStrings
  BY <1>4, StringsStep
<1>5. CASE WriteVector
  BY <1>5, VectorStep
<1>6. CASE StartupDone
  BY <1>1, <1>6 DEF StartupDone
<1> QED BY <1>1, <1>2, <1>3, <1>4, <1>5, <1>6 DEF StartupNext

\* A program init starts finds its path, the arguments it was passed and its
\* environment on its stack, intact: for every number and length of the
\* arguments, the list of pointers ends where init's arguments do, no string
\* overlaps another, and the vector is below them all and within the stack.
THEOREM InitDeliversArguments ==
  StartupSpec => [](Callers \subseteq {"init"} => ArgumentsDelivered)
<1> DEFINE Inv == Callers \subseteq {"init"} => StartupInv
<1>1. StartupInit => Inv
  <2> SUFFICES ASSUME StartupInit PROVE StartupInv
    OBVIOUS
  <2> QED BY DEF StartupInit, StartupInv, ArgumentsDelivered
<1>2. Inv /\ [StartupNext]_startupVars => Inv'
  BY StartupStep
<1>3. Inv => (Callers \subseteq {"init"} => ArgumentsDelivered)
  BY DEF StartupInv
<1> QED BY <1>1, <1>2, <1>3, PTL DEF StartupSpec
=============================================================================
