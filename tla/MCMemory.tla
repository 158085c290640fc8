------------------------------ MODULE MCMemory ------------------------------
(***************************************************************************)
(* An instance of the frame allocator, the address spaces, the ELF loader  *)
(* and the startup vector for TLC.  They have no state in common, so each  *)
(* behaviour runs one of them and leaves the others at one of their        *)
(* initial states.                                                         *)
(*                                                                         *)
(* The memory maps are all maps of one region and one reserved range on a  *)
(* machine of four four-byte pages, and maps with two regions that meet in *)
(* a page.  The image in AddressSpace is one segment and the stack.        *)
(***************************************************************************)
EXTENDS FrameAllocator, AddressSpace, ElfLoader, Startup

VARIABLE part   \* the number of the component, in the order of EXTENDS

MCImage == <<11, 22>>
MCFrames == 1 .. 18

Reserved(b, l) == [base |-> b, length |-> l]
Region(b, l, u) == [base |-> b, length |-> l, usable |-> u]
Lengths == {0, 1, 6, 9, U64_MAX}

EmptyMap == [regions |-> {}, reserved_ranges |-> {}]
MCMaps ==
  {EmptyMap}
  \cup
  [regions : {{Region(b, l, TRUE)} : b \in 0 .. U64_MAX, l \in Lengths},
   reserved_ranges : {{Reserved(b, l)} : b \in 0 .. U64_MAX, l \in Lengths}]
  \cup
  [regions : {{Region(0, b, TRUE), Region(b, 10, u)} : b \in 4 .. 8, u \in BOOLEAN},
   reserved_ranges : {{}} \cup {{Reserved(b, 1), Reserved(b + 4, 2)} : b \in 0 .. 10}]

MCInit ==
  /\ part \in 1 .. 4
  /\ MemoryInit /\ Init /\ ElfInit /\ StartupInit
  /\ part # 1 => bootMap = EmptyMap
  /\ part # 3 => entry = Min(Entries)

\* A machine whose frames are all reserved has nothing to allocate or free.
Stop == UNCHANGED memoryVars

MCNext ==
  \/ part = 1 /\ (MemoryNext \/ Stop) /\ UNCHANGED <<part, vars, elfVars, startupVars>>
  \/ part = 2 /\ Next /\ UNCHANGED <<part, memoryVars, elfVars, startupVars>>
  \/ part = 3 /\ ElfNext /\ UNCHANGED <<part, memoryVars, vars, startupVars>>
  \/ part = 4 /\ StartupNext /\ UNCHANGED <<part, memoryVars, vars, elfVars>>

MCSpec == MCInit /\ [][MCNext]_<<part, memoryVars, vars, elfVars, startupVars>>
=============================================================================
