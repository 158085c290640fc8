----------------------------- MODULE ElfLoader -----------------------------
(***************************************************************************)
(* load_user_elf_into() of kernel-core/src/elf.rs: one action for each     *)
(* program header, then the stack and the initial TLS block, up to the     *)
(* word that user.rs writes to the thread control block.                   *)
(*                                                                         *)
(* Byte i of the file is i + 1, so that it is told apart from every other  *)
(* byte and from zero.  Headers are read one at a time: what the file says *)
(* is an input of the action that reads it.  That frames run out is left   *)
(* to module AddressSpace.                                                 *)
(***************************************************************************)
EXTENDS Paging, Sequences, FiniteSets, FiniteSetsExt

CONSTANTS
  USER_SPACE_BASE, USER_SPACE_END,  \* FUTURE_USER_SPACE_BASE, USER_SPACE_END
  USER_TLS_BASE,                    \* start of the TLS block of the stack slot
  TLS_MIN_ALIGN, TLS_TCB_SIZE,      \* 16 and 64
  USER_STACK_PAGES,
  FileLength,                       \* bytes of the file
  MaxHeaders,                       \* bound on the program headers of a file
  Flags,                            \* of segments: subset of PageFlags
  Entries, Offsets, Addresses, Sizes, Alignments   \* what headers may say

ASSUME ElfLoaderAssumption ==
  /\ {USER_SPACE_BASE, USER_SPACE_END, USER_TLS_BASE, USER_STACK_PAGES} \subseteq Nat
  /\ Entries \cup Offsets \cup Addresses \cup Sizes \cup Alignments \subseteq Nat
  /\ USER_SPACE_BASE % PAGE_SIZE = 0 /\ USER_SPACE_END % PAGE_SIZE = 0
  /\ USER_TLS_BASE % PAGE_SIZE = 0
  /\ TLS_MIN_ALIGN \in Nat \ {0} /\ TLS_TCB_SIZE \in Nat \ {0}
  /\ FileLength \in Nat /\ MaxHeaders \in Nat
  /\ Flags \subseteq {"r", "rw", "rx", "rwx"}

\* Program headers.  align counts for PT_TLS only, flags and address for
\* PT_LOAD only; other types are skipped.
LoadHeaders ==
  [type : {"load"}, flags : Flags, offset : Offsets, address : Addresses,
   file_size : Sizes, memory_size : Sizes]
TlsHeaders ==
  [type : {"tls"}, offset : Offsets, file_size : Sizes, memory_size : Sizes,
   align : Alignments]
OtherHeader == [type |-> "other"]

UserAddresses == USER_SPACE_BASE .. (USER_SPACE_END - 1)
UserPages == {PageDown(a) : a \in UserAddresses}
NoFlags == "none"
FileByte(i) == i + 1

VARIABLES
  entry,      \* e_entry
  headers,    \* the headers read so far
  mapped,     \* flags each page is mapped with, or NoFlags
  bytes,      \* the bytes of the mapped pages
  fs_base,    \* LoadedImage.fs_base, 0 without a PT_TLS header
  progress    \* "headers", "stack", "tls", then "loaded" or "failed"

elfVars == <<entry, headers, mapped, bytes, fs_base, progress>>

ElfInit ==
  /\ entry \in Entries
  /\ headers = <<>>
  /\ mapped = [page \in UserPages |-> NoFlags]
  /\ bytes = [a \in UserAddresses |-> Zero]
  /\ fs_base = 0
  /\ progress = "headers"

HeadersOf(type) == {i \in DOMAIN headers : headers[i].type = type}

\* Magic, class, machine or sizes are wrong, or the table of program headers is
\* not within the file.
InvalidHeader ==
  /\ progress = "headers" /\ headers = <<>>
  /\ progress' = "failed"
  /\ UNCHANGED <<entry, headers, mapped, bytes, fs_base>>

-----------------------------------------------------------------------------
\* Pages from the one of `first' to the one of `last', in ascending order, up to
\* the first that cannot be mapped: it is mapped already, or not a user page.
PagesOf(first, last) == {p \in PageDown(first) .. PageDown(last) : p % PAGE_SIZE = 0}
Refused(pages) == {p \in pages : p \notin UserPages \/ mapped[p] # NoFlags}
Reached(pages) == {p \in pages : \A q \in Refused(pages) : p < q}

\* The loop over the pages of a block: a zeroed frame is mapped and what the
\* file has for it is copied; content[a] is the byte that is copied to a.
MapBlock(pages, flags, content) ==
  /\ mapped' = [p \in UserPages |-> IF p \in Reached(pages) THEN flags ELSE mapped[p]]
  /\ bytes' = [a \in UserAddresses |->
                 IF PageDown(a) \in Reached(pages) THEN content[a] ELSE bytes[a]]

\* The copy of one page: from the later of the page and the start of the block
\* to the earlier of the end of the page and the end of the file's part.
CopyStart(page, start) == Max({page, start})
CopyEnd(page, start, file_size) == Min({page + PAGE_SIZE, start + file_size})

\* Mutation: the copy starts at the block's first byte on every page.
Copied_FromStart(a, start, offset, file_size) ==
  LET page == PageDown(a)
  IN IF CopyStart(page, start) <= a /\ a < CopyEnd(page, start, file_size)
     THEN FileByte(offset + (a - CopyStart(page, start)))
     ELSE Zero

Copied(a, start, offset, file_size) ==
  LET page == PageDown(a)
  IN IF CopyStart(page, start) <= a /\ a < CopyEnd(page, start, file_size)
     THEN FileByte(offset + (CopyStart(page, start) - start) + (a - CopyStart(page, start)))
     ELSE Zero

\* A PT_LOAD header.
ValidSegment(h) ==
  /\ h.memory_size >= h.file_size /\ h.memory_size # 0
  /\ h.offset + h.file_size <= FileLength
  /\ h.address >= USER_SPACE_BASE /\ h.address + h.memory_size <= USER_SPACE_END

LoadSegment(h) ==
  /\ progress = "headers" /\ Len(headers) < MaxHeaders
  /\ headers' = Append(headers, h)
  /\ LET pages == PagesOf(h.address, h.address + h.memory_size - 1)
     IN IF ValidSegment(h)
        THEN /\ MapBlock(pages, h.flags,
                         [a \in UserAddresses |-> Copied(a, h.address, h.offset, h.file_size)])
             /\ progress' = IF Refused(pages) = {} THEN "headers" ELSE "failed"
        ELSE progress' = "failed" /\ UNCHANGED <<mapped, bytes>>
  /\ UNCHANGED <<entry, fs_base>>

\* A PT_TLS header: at most one, its part of the file must exist, and it must
\* ask for a power of two.
IsPowerOfTwo(n) == \E k \in 0 .. n : n = 2 ^ k

ReadTls(h) ==
  /\ progress = "headers" /\ Len(headers) < MaxHeaders
  /\ headers' = Append(headers, h)
  /\ progress' =
       IF /\ HeadersOf("tls") = {}
          /\ h.memory_size >= h.file_size
          /\ h.offset + h.file_size <= FileLength
          /\ h.align = 0 \/ IsPowerOfTwo(h.align)
       THEN "headers" ELSE "failed"
  /\ UNCHANGED <<entry, mapped, bytes, fs_base>>

SkipHeader ==
  /\ progress = "headers" /\ Len(headers) < MaxHeaders
  /\ headers' = Append(headers, OtherHeader)
  /\ UNCHANGED <<entry, mapped, bytes, fs_base, progress>>

\* The last header has been read: entry_is_executable.
EntryIsExecutable ==
  \E i \in HeadersOf("load") :
    /\ headers[i].flags \in {"rx", "rwx"}
    /\ headers[i].address <= entry /\ entry < headers[i].address + headers[i].memory_size

EndOfHeaders ==
  /\ progress = "headers"
  /\ progress' = IF EntryIsExecutable THEN "stack" ELSE "failed"
  /\ UNCHANGED <<entry, headers, mapped, bytes, fs_base>>

\* allocate_user_stack_in(), from the top down.
StackTop == USER_SPACE_END - PAGE_SIZE
StackPages == {StackTop - i * PAGE_SIZE : i \in 1 .. USER_STACK_PAGES}

MapStack ==
  /\ progress = "stack"
  /\ LET refused == Refused(StackPages)
         reached == {p \in StackPages : \A q \in refused : p > q}
     IN /\ mapped' = [p \in UserPages |-> IF p \in reached THEN "rw" ELSE mapped[p]]
        /\ bytes' = [a \in UserAddresses |->
                       IF PageDown(a) \in reached THEN Zero ELSE bytes[a]]
        /\ progress' = IF refused # {} THEN "failed"
                       ELSE IF HeadersOf("tls") = {} THEN "loaded" ELSE "tls"
  /\ UNCHANGED <<entry, headers, fs_base>>

\* load_initial_tls(), and write_user_word() of fs_base to where it points.
RoundUp(n, align) == ((n + align - 1) \div align) * align
BlockSize(h) == RoundUp(Max({h.memory_size, 1}), Max({h.align, TLS_MIN_ALIGN}))

LoadTls ==
  /\ progress = "tls"
  /\ LET h == headers[Min(HeadersOf("tls"))]
         base == USER_TLS_BASE
         fs == base + BlockSize(h)
         pages == PagesOf(base, fs + TLS_TCB_SIZE - 1)
         content == [a \in UserAddresses |->
                       IF a = fs THEN fs ELSE Copied(a, base, h.offset, h.file_size)]
     IN /\ MapBlock(pages, "rw", content)
        /\ IF Refused(pages) = {} THEN progress' = "loaded" /\ fs_base' = fs
           ELSE progress' = "failed" /\ UNCHANGED fs_base
  /\ UNCHANGED <<entry, headers>>

\* The image is loaded or refused.
ElfDone ==
  /\ progress \in {"loaded", "failed"}
  /\ UNCHANGED elfVars

ElfNext ==
  \/ \E h \in LoadHeaders : LoadSegment(h)
  \/ \E h \in TlsHeaders : ReadTls(h)
  \/ InvalidHeader \/ SkipHeader \/ EndOfHeaders \/ MapStack \/ LoadTls \/ ElfDone

ElfSpec == ElfInit /\ [][ElfNext]_elfVars

-----------------------------------------------------------------------------
Holds(h, a) == h.address <= a /\ a < h.address + h.memory_size

\* A program starts in the memory its file describes: every byte of every
\* segment is where it is linked to, with its page's permissions, zero beyond
\* what the file has; the entry point can be executed; nothing of one segment
\* is overwritten by another, by the stack or by the TLS block, whatever pages
\* they begin and end in; and everything else the program can see is zero.
LoadedExactly ==
  progress = "loaded" =>
    /\ \A i \in HeadersOf("load"), a \in UserAddresses :
         Holds(headers[i], a) =>
           /\ mapped[PageDown(a)] = headers[i].flags
           /\ bytes[a] = IF a - headers[i].address < headers[i].file_size
                         THEN FileByte(headers[i].offset + (a - headers[i].address))
                         ELSE Zero
    /\ mapped[PageDown(entry)] \in {"rx", "rwx"}
    /\ \A p \in StackPages : mapped[p] = "rw"
    /\ \A a \in UserAddresses :
         bytes[a] # Zero =>
           \/ \E i \in HeadersOf("load") : Holds(headers[i], a)
           \/ USER_TLS_BASE <= a /\ a <= fs_base

\* "FS points immediately after static TLS" (elf.rs): a program finds byte i of
\* its TLS segment at the distance below FS that the linker assumes, which is
\* the size of the segment rounded up to the segment's own alignment.
TlsWhereLinked ==
  progress = "loaded" =>
    \A i \in HeadersOf("tls") :
      LET h == headers[i]
      IN \A k \in 0 .. (h.file_size - 1) :
           bytes[fs_base - RoundUp(h.memory_size, Max({h.align, 1})) + k]
             = FileByte(h.offset + k)
=============================================================================
