---------------------------- MODULE AddressSpace ----------------------------
(***************************************************************************)
(* The lower half of the page tables of every process: how user::spawn()   *)
(* and the ELF loader fill it, how brk() grows it, how it is released when *)
(* the process is reaped, and which physical frames it takes doing so.     *)
(* Frames come from the pool that module FrameAllocator implements.        *)
(***************************************************************************)
EXTENDS Paging, Sequences, SequencesExt, FiniteSetsExt

CONSTANTS
  Frame,           \* physical frames, numbered
  Pids,            \* processes, PID 1 the first of them
  Levels,          \* page-table levels between the root and a page (3)
  HEAP_LIMIT,      \* USER_HEAP_LIMIT - USER_HEAP_BASE; breaks count from the base
  Image            \* pages the ELF loader maps, in its order: segments, stack, TLS

HeapPages == 0 .. (HEAP_LIMIT \div PAGE_SIZE - 1)

ASSUME AddressSpaceAssumption ==
  /\ Frame \subseteq Nat \ {0}
  /\ Pids \subseteq Nat /\ 1 \in Pids
  /\ Levels \in Nat \ {0}
  /\ HEAP_LIMIT \in Nat /\ HEAP_LIMIT % PAGE_SIZE = 0
  /\ Image \in Seq(Nat) /\ Range(Image) \subseteq Nat \ (HeapPages \cup {0})

Pages == HeapPages \cup Range(Image)
NONE == 0    \* an entry that is not present

\* The tables on the way to a page.  Segments, stack, TLS and heap lie so far
\* apart that they share the root only.
Area(page) == IF page \in HeapPages THEN 0 ELSE page
Tables == {Area(page) : page \in Pages} \X (1 .. Levels)
Walk(page) == [level \in 1 .. Levels |-> <<Area(page), level>>]

VARIABLES
  available,         \* frames the allocator may hand out
  root,              \* address_space of each process, or NONE
  tables,            \* frame of each page table
  leaf,              \* frame each page is mapped to
  heap_break,        \* ProcessUserState.heap_break
  heap_mapped_end,   \* ProcessUserState.heap_mapped_end
  loaded,            \* the processes that were spawned successfully
  contents,          \* what a frame holds: Zero, or the process that wrote to it
  failed             \* some operation has failed

vars == <<available, root, tables, leaf, heap_break, heap_mapped_end, loaded, contents, failed>>

NoTables == [t \in Tables |-> NONE]
NoLeaves == [page \in Pages |-> NONE]

Init ==
  /\ available = Frame
  /\ root = [p \in Pids |-> NONE]
  /\ tables = [p \in Pids |-> NoTables]
  /\ leaf = [p \in Pids |-> NoLeaves]
  /\ heap_break = [p \in Pids |-> 0] /\ heap_mapped_end = [p \in Pids |-> 0]
  /\ loaded = {}
  /\ contents = [f \in Frame |-> Zero]
  /\ failed = FALSE

-----------------------------------------------------------------------------
(***************************************************************************)
(* Mapping.  A space is what a call works on: the pool, the tables and the *)
(* pages of one process, the contents, and the result so far.              *)
(***************************************************************************)

Space(p, pool) ==
  [available |-> pool, tables |-> tables[p], leaf |-> leaf[p],
   contents |-> contents, result |-> "Ok"]

Lowest(pool) == Min(pool)

\* map_page_in(): one level of the walk.
AddTable(m, t) ==
  IF m.result = "Err" \/ m.tables[t] # NONE THEN m
  ELSE IF m.available = {} THEN [m EXCEPT !.result = "Err"]
  ELSE [m EXCEPT !.tables[t] = Lowest(m.available),
                 !.available = @ \ {Lowest(m.available)},
                 !.contents[Lowest(m.available)] = Zero]

\* Mutation: the frame is not zeroed.
MapNewPage_Dirty(m, page) ==
  IF m.result = "Err" THEN m
  ELSE IF m.available = {} THEN [m EXCEPT !.result = "Err"]
  ELSE LET f == Lowest(m.available)
           w == FoldLeft(AddTable, [m EXCEPT !.available = @ \ {f}], Walk(page))
       IN IF w.result = "Ok" /\ w.leaf[page] = NONE
          THEN [w EXCEPT !.leaf[page] = f]
          ELSE [w EXCEPT !.result = "Err"]

\* allocate_physical_frame(), zero_physical_frame() and map_user_page_in(): a
\* failure keeps what was done before it, the frame for the page included.
MapNewPage(m, page) ==
  IF m.result = "Err" THEN m
  ELSE IF m.available = {} THEN [m EXCEPT !.result = "Err"]
  ELSE LET f == Lowest(m.available)
           w == FoldLeft(AddTable,
                         [m EXCEPT !.available = @ \ {f}, !.contents[f] = Zero], Walk(page))
       IN IF w.result = "Ok" /\ w.leaf[page] = NONE
          THEN [w EXCEPT !.leaf[page] = f]
          ELSE [w EXCEPT !.result = "Err"]

Mapped(m, pages) == FoldLeft(MapNewPage, m, pages)

Keep(p, m) ==
  /\ available' = m.available /\ contents' = m.contents
  /\ tables' = [tables EXCEPT ![p] = m.tables]
  /\ leaf' = [leaf EXCEPT ![p] = m.leaf]
  /\ failed' = (failed \/ m.result = "Err")

-----------------------------------------------------------------------------
\* run_demo() for PID 1, user::spawn() for the others: create the space, set
\* up the heap, load the image, get a thread if one is free.  A spawn that
\* fails after its first step keeps the record and its space for ever.
Spawn ==
  /\ \E p \in Pids : root[p] = NONE
  /\ 1 \in loaded \/ root[1] = NONE
  /\ available # {}
  /\ \E threadFree \in BOOLEAN :
     LET p == Min({q \in Pids : root[q] = NONE})
         f == Lowest(available)
         m == Mapped([Space(p, available \ {f}) EXCEPT !.contents[f] = Zero], Image)
         ok == m.result = "Ok" /\ threadFree
     IN /\ p = 1 => threadFree
        /\ root' = [root EXCEPT ![p] = f]
        /\ Keep(p, [m EXCEPT !.result = IF ok THEN "Ok" ELSE "Err"])
        /\ loaded' = IF ok THEN loaded \cup {p} ELSE loaded
        /\ heap_break' = [heap_break EXCEPT ![p] = 0]
        /\ heap_mapped_end' = [heap_mapped_end EXCEPT ![p] = 0]

\* user::spawn() that finds the process table full: the new root is lost.
SpawnTableFull ==
  /\ 1 \in loaded /\ \A p \in Pids : root[p] # NONE
  /\ available # {}
  /\ available' = available \ {Lowest(available)}
  /\ contents' = [contents EXCEPT ![Lowest(available)] = Zero]
  /\ failed' = TRUE
  /\ UNCHANGED <<root, tables, leaf, heap_break, heap_mapped_end, loaded>>

\* Mutation: shrinking gives the frames above the break back.
BrkShrink_Frees(p, requested_break) ==
  /\ p \in loaded
  /\ requested_break <= heap_break[p]
  /\ heap_break' = [heap_break EXCEPT ![p] = requested_break]
  /\ available' = available \cup
       {leaf[p][page] : page \in {q \in HeapPages : q * PAGE_SIZE >= requested_break
                                                    /\ leaf[p][q] # NONE}}
  /\ UNCHANGED <<root, tables, leaf, heap_mapped_end, loaded, contents, failed>>

\* brk() below the current break keeps the mappings.
BrkShrink(p, requested_break) ==
  /\ p \in loaded
  /\ requested_break <= heap_break[p]
  /\ heap_break' = [heap_break EXCEPT ![p] = requested_break]
  /\ UNCHANGED <<available, root, tables, leaf, heap_mapped_end, loaded, contents, failed>>

\* Mutation: the break moves although a page could not be mapped.
BrkGrow_Anyway(p, requested_break) ==
  /\ p \in loaded
  /\ heap_break[p] < requested_break
  /\ LET first == heap_mapped_end[p] \div PAGE_SIZE
         count == PageUp(requested_break) \div PAGE_SIZE - first
         m == Mapped(Space(p, available), [i \in 1 .. count |-> first + i - 1])
     IN Keep(p, m)
  /\ heap_break' = [heap_break EXCEPT ![p] = requested_break]
  /\ heap_mapped_end' = [heap_mapped_end EXCEPT ![p] = PageUp(requested_break)]
  /\ UNCHANGED <<root, loaded>>

\* brk() above it maps the pages from heap_mapped_end on.  On failure it
\* returns u64::MAX and keeps the pages it has mapped, but not that it has.
BrkGrow(p, requested_break) ==
  /\ p \in loaded
  /\ heap_break[p] < requested_break
  /\ LET first == heap_mapped_end[p] \div PAGE_SIZE
         count == PageUp(requested_break) \div PAGE_SIZE - first
         m == Mapped(Space(p, available), [i \in 1 .. count |-> first + i - 1])
     IN /\ Keep(p, m)
        /\ IF m.result = "Ok"
           THEN /\ heap_break' = [heap_break EXCEPT ![p] = requested_break]
                /\ heap_mapped_end' = [heap_mapped_end EXCEPT ![p] = PageUp(requested_break)]
           ELSE UNCHANGED <<heap_break, heap_mapped_end>>
  /\ UNCHANGED <<root, loaded>>

\* The program writes to a heap page below its break.
Write(p, page) ==
  /\ p \in loaded
  /\ page * PAGE_SIZE < heap_break[p] /\ leaf[p][page] # NONE
  /\ contents' = [contents EXCEPT ![leaf[p][page]] = p]
  /\ UNCHANGED <<available, root, tables, leaf, heap_break, heap_mapped_end, loaded, failed>>

\* Mutation: only the pages are released.
Released_PagesOnly(p) == ({root[p]} \cup Range(leaf[p])) \ {NONE}

\* destroy_user_address_space() with release_user_table(): every page and
\* table below the root, and the root.
Released(p) == ({root[p]} \cup Range(tables[p]) \cup Range(leaf[p])) \ {NONE}

\* The process has exited and is reaped.
Reap(p) ==
  /\ p \in loaded /\ p # 1
  /\ available' = available \cup Released(p)
  /\ root' = [root EXCEPT ![p] = NONE]
  /\ tables' = [tables EXCEPT ![p] = NoTables]
  /\ leaf' = [leaf EXCEPT ![p] = NoLeaves]
  /\ loaded' = loaded \ {p}
  /\ UNCHANGED <<heap_break, heap_mapped_end, contents, failed>>

Next ==
  \/ Spawn \/ SpawnTableFull
  \/ \E p \in Pids :
       \/ Reap(p)
       \/ \E page \in HeapPages : Write(p, page)
       \/ \E requested_break \in 0 .. HEAP_LIMIT :
            BrkShrink(p, requested_break) \/ BrkGrow(p, requested_break)

Spec == Init /\ [][Next]_vars

-----------------------------------------------------------------------------
\* How often a process uses a frame, as its root, a table or a page, and the
\* frames it uses.
Uses(p) ==
  Cardinality({root[p]} \ {NONE})
  + Cardinality({t \in Tables : tables[p][t] # NONE})
  + Cardinality({page \in Pages : leaf[p][page] # NONE})
UsedBy(p) == ({root[p]} \cup Range(tables[p]) \cup Range(leaf[p])) \ {NONE}

\* Memory isolation: a frame is used in one place only, by one process, and
\* never while the allocator may hand it out, whatever failed or was reaped
\* before.
FramesNotShared ==
  /\ \A p \in Pids : Cardinality(UsedBy(p)) = Uses(p)
                     /\ UsedBy(p) \cap available = {}
  /\ \A p, q \in Pids : p # q => UsedBy(p) \cap UsedBy(q) = {}

\* A program may touch every byte below the break brk() reported, also after
\* growing has failed part of the way.
BreakIsMapped ==
  \A p \in loaded, page \in HeapPages :
    page * PAGE_SIZE < heap_break[p] => leaf[p][page] # NONE

\* No program finds what another process has left in a frame.
NoForeignData ==
  \A p \in Pids, page \in Pages :
    leaf[p][page] # NONE => contents[leaf[p][page]] \in {Zero, p}

\* Reaping returns every frame: as long as no operation has failed, each frame
\* is available or in use.
NothingLeaks ==
  ~ failed => Frame \subseteq available \cup UNION {UsedBy(p) : p \in Pids}

\* Reducing the break is safe: with frames to spare, and when nothing has
\* failed before, growing it again works.
GrowsAgain ==
  [][\A p \in Pids, requested_break \in 1 .. HEAP_LIMIT :
       /\ ~ failed
       /\ Cardinality(available) > Levels + Cardinality(HeapPages)
       /\ BrkGrow(p, requested_break)
       => heap_break'[p] = requested_break]_vars
=============================================================================
