--------------------------- MODULE FrameAllocator ---------------------------
(***************************************************************************)
(* The physical frame allocator (kernel-core/src/memory.rs).  A bitmap is  *)
(* the set of the frames whose bit is set.  Addresses are numbers of bytes *)
(* and 64-bit additions saturate at U64_MAX, as in the code.               *)
(***************************************************************************)
EXTENDS Paging, FiniteSets, FiniteSetsExt

CONSTANTS
  MAX_PHYSICAL_FRAMES,
  U64_MAX,
  LowMemory,        \* bytes initialize() always reserves (1 MiB)
  MemoryMaps        \* boot memory maps: [regions, reserved_ranges]

ASSUME FrameAllocatorAssumption ==
  /\ MAX_PHYSICAL_FRAMES \in Nat
  /\ U64_MAX \in Nat /\ MAX_PHYSICAL_FRAMES * PAGE_SIZE <= U64_MAX
  /\ LowMemory \in 0 .. U64_MAX
  /\ \A map \in MemoryMaps :
       /\ \A r \in map.regions :
            r.base \in 0 .. U64_MAX /\ r.length \in 0 .. U64_MAX /\ r.usable \in BOOLEAN
       /\ \A r \in map.reserved_ranges :
            r.base \in 0 .. U64_MAX /\ r.length \in 0 .. U64_MAX

MAX_PHYSICAL_ADDRESS == MAX_PHYSICAL_FRAMES * PAGE_SIZE
Frames == 0 .. (MAX_PHYSICAL_FRAMES - 1)

VARIABLES
  frame_bitmap,      \* FRAME_BITMAP: reserved or allocated
  allocated_bitmap,  \* ALLOCATED_BITMAP
  free_frames,       \* MEMORY_STATS.free_frames
  bootMap            \* the map initialize() was called with

memoryVars == <<frame_bitmap, allocated_bitmap, free_frames, bootMap>>

SaturatingAdd(a, b) == IF a + b > U64_MAX THEN U64_MAX ELSE a + b
UpToLimit(a) == IF a > MAX_PHYSICAL_ADDRESS THEN MAX_PHYSICAL_ADDRESS ELSE a

\* Mutation: the first page is rounded down.
UsableFrames_RoundDown(r) ==
  {f \in Frames :
     /\ r.base \div PAGE_SIZE <= f
     /\ f < UpToLimit(SaturatingAdd(r.base, r.length)) \div PAGE_SIZE}

\* mark_range(): the pages that lie in the range.
UsableFrames(r) ==
  {f \in Frames :
     /\ SaturatingAdd(r.base, PAGE_SIZE - 1) \div PAGE_SIZE <= f
     /\ f < UpToLimit(SaturatingAdd(r.base, r.length)) \div PAGE_SIZE}

\* mark_reserved_range(): the pages that touch the range.
ReservedFrames(r) ==
  {f \in Frames :
     /\ r.base \div PAGE_SIZE <= f
     /\ f < UpToLimit(SaturatingAdd(SaturatingAdd(r.base, r.length), PAGE_SIZE - 1))
              \div PAGE_SIZE}

\* initialize(): the bits that are clear when it returns.  Regions that are
\* not usable are not looked at.
FreeAfterInitialize(map) ==
  (UNION {UsableFrames(r) : r \in {q \in map.regions : q.usable}})
    \ (ReservedFrames([base |-> 0, length |-> LowMemory])
       \cup (UNION {ReservedFrames(r) : r \in map.reserved_ranges}))

MemoryInit ==
  /\ bootMap \in MemoryMaps
  /\ frame_bitmap = Frames \ FreeAfterInitialize(bootMap)
  /\ allocated_bitmap = {}
  /\ free_frames = Cardinality(FreeAfterInitialize(bootMap))

\* Mutation: the counter is not kept.
Allocate_KeepsCount ==
  /\ Frames \ frame_bitmap # {}
  /\ frame_bitmap' = frame_bitmap \cup {Min(Frames \ frame_bitmap)}
  /\ allocated_bitmap' = allocated_bitmap \cup {Min(Frames \ frame_bitmap)}
  /\ UNCHANGED <<free_frames, bootMap>>

\* allocate(): the lowest clear bit; without one it returns None.
Allocate ==
  /\ Frames \ frame_bitmap # {}
  /\ LET frame == Min(Frames \ frame_bitmap)
     IN /\ frame_bitmap' = frame_bitmap \cup {frame}
        /\ allocated_bitmap' = allocated_bitmap \cup {frame}
  /\ free_frames' = free_frames - 1
  /\ UNCHANGED bootMap

\* Mutation: any frame is freed, handed out before or not.
Free_Anything(address) ==
  /\ address % PAGE_SIZE = 0 /\ address < MAX_PHYSICAL_ADDRESS
  /\ LET frame == address \div PAGE_SIZE
     IN /\ frame \in frame_bitmap
        /\ frame_bitmap' = frame_bitmap \ {frame}
        /\ allocated_bitmap' = allocated_bitmap \ {frame}
  /\ free_frames' = free_frames + 1
  /\ UNCHANGED bootMap

\* free() of any address a caller may pass, twice or never allocated.
Free(address) ==
  /\ address % PAGE_SIZE = 0 /\ address < MAX_PHYSICAL_ADDRESS
  /\ LET frame == address \div PAGE_SIZE
     IN /\ frame \in allocated_bitmap
        /\ frame_bitmap' = frame_bitmap \ {frame}
        /\ allocated_bitmap' = allocated_bitmap \ {frame}
  /\ free_frames' = free_frames + 1
  /\ UNCHANGED bootMap

MemoryNext == Allocate \/ \E address \in 0 .. U64_MAX : Free(address)

MemorySpec == MemoryInit /\ [][MemoryNext]_memoryVars

-----------------------------------------------------------------------------
MemoryTypeOK ==
  /\ bootMap \in MemoryMaps
  /\ frame_bitmap \subseteq Frames
  /\ allocated_bitmap \subseteq frame_bitmap
  /\ free_frames \in Int

\* The counter physical_memory_stats() reports is the number of clear bits:
\* allocate() never takes it below zero, and no double free inflates it.
FreeFramesExact == free_frames = Cardinality(Frames \ frame_bitmap)

Bytes(frame) == (frame * PAGE_SIZE) .. (frame * PAGE_SIZE + PAGE_SIZE - 1)
In(byte, r) == r.base <= byte /\ byte < r.base + r.length

\* A frame the kernel may write to, stated byte by byte and without the
\* rounding and saturation of the code: all of it lies in one usable region,
\* none of it in a reserved range or in low memory.
Safe(frame) ==
  /\ \E r \in bootMap.regions : r.usable /\ \A byte \in Bytes(frame) : In(byte, r)
  /\ \A r \in bootMap.reserved_ranges : \A byte \in Bytes(frame) : ~ In(byte, r)
  /\ \A byte \in Bytes(frame) : byte >= LowMemory

\* Whatever the boot loader's map looks like (unaligned, overlapping, empty or
\* wrapping ranges) and whatever callers free, a frame that is handed out or
\* may be handed out next is one the kernel may write to.
OnlySafeFrames ==
  \A frame \in (Frames \ frame_bitmap) \cup allocated_bitmap : Safe(frame)

\* The allocator implements the pool its callers rely on: a frame handed out
\* is not handed out again before it is freed, and nothing else comes back.
Pool == INSTANCE FramePool
          WITH Frame <- Frames, available <- Frames \ frame_bitmap,
               taken <- allocated_bitmap
ImplementsPool == Pool!Spec
=============================================================================
