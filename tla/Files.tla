------------------------------- MODULE Files -------------------------------
(***************************************************************************)
(* File descriptors (kernel-core/src/user.rs), the name space (vfs.rs) and *)
(* the files behind it (storage.rs).  Boot files are in "/" and read-only, *)
(* RAM files are in "/tmp".  A descriptor holds the path it was opened     *)
(* with, which every call looks up again.                                  *)
(*                                                                         *)
(* A path is the sequence of its parts: "/" is <<>>, "/tmp/a" is           *)
(* <<"tmp", "a">>.  Each system call is one step, as the kernel does not   *)
(* switch threads in them.                                                 *)
(***************************************************************************)
EXTENDS Integers, Sequences, FiniteSets, FiniteSetsExt

CONSTANTS
  Names,               \* the parts of paths other than "tmp"
  Byte,                \* the bytes programs write
  Processes,           \* pids; 1 is init, whose state is never reset
  MAX_FDS,
  MAX_RAM_FILES,
  MAX_RAM_FILE_SIZE,
  MaxPosition          \* bound on where programs seek to

Parts == Names \cup {"tmp"}
Slots == 1 .. MAX_RAM_FILES
Fds == 3 .. (MAX_FDS + 2)
Offsets == 0 .. (MAX_RAM_FILE_SIZE - 1)

ASSUME FilesAssumption ==
  /\ "tmp" \notin Names /\ Byte \subseteq Nat
  /\ MAX_FDS \in Nat /\ MAX_RAM_FILES \in Nat /\ MAX_RAM_FILE_SIZE \in Nat
  /\ MaxPosition \in Nat

VARIABLES
  FILES,         \* the names of the boot files, fixed
  RAM_FILES,
  cwd,           \* of each process
  descriptors    \* of each process

vars == <<FILES, RAM_FILES, cwd, descriptors>>

NoFile == [used |-> FALSE, name |-> "tmp", data |-> [i \in Offsets |-> 0], length |-> 0]
EMPTY == [kind |-> "Empty", path |-> <<>>, position |-> 0, writable |-> FALSE]

Directories == {<<>>, <<"tmp">>}

Init ==
  /\ FILES \in SUBSET Names
  /\ RAM_FILES = [slot \in Slots |-> NoFile]
  /\ cwd = [p \in Processes |-> <<>>]
  /\ descriptors = [p \in Processes |-> [fd \in Fds |-> EMPTY]]

-----------------------------------------------------------------------------
(***************************************************************************)
(* storage.rs and vfs.rs                                                   *)
(***************************************************************************)

\* The slots find_ram_file() may find; there is never more than one.
RamSlots(name) == {slot \in Slots : RAM_FILES[slot].used /\ RAM_FILES[slot].name = name}

\* Mutation: RAM files are looked up before boot files.
IsBootFile_Last(path) == Len(path) = 1 /\ path[1] \in FILES /\ RamSlots(path[1]) = {}

IsBootFile(path) == Len(path) = 1 /\ path[1] \in FILES

\* The name of the RAM file an open path leads to, if it leads to one: in
\* "/tmp", or in "/" when there is no such boot file.
RamName(path) ==
  CASE Len(path) = 2 /\ path[1] = "tmp" -> {path[2]}
    [] Len(path) = 1 /\ ~ IsBootFile(path) -> {path[1]}
    [] OTHER -> {}

\* vfs_open() finds a file.
Opens(path) == IsBootFile(path) \/ \E name \in RamName(path) : RamSlots(name) # {}

\* The length of the file; that of a boot file does not matter here.
Length(path) ==
  IF IsBootFile(path) THEN 1
  ELSE Max({RAM_FILES[slot].length : slot \in UNION {RamSlots(n) : n \in RamName(path)}} \cup {0})

\* Mutation: a name is put into the last free slot.
create_Last(name) ==
  /\ RamSlots(name) = {}
  /\ \E slot \in Slots : ~ RAM_FILES[slot].used
  /\ LET slot == Max({s \in Slots : ~ RAM_FILES[s].used})
     IN RAM_FILES' = [RAM_FILES EXCEPT ![slot].used = TRUE, ![slot].name = name,
                                       ![slot].length = 0]

\* create(): the first free slot; its data is left as it is.
create(name) ==
  /\ RamSlots(name) = {}
  /\ \E slot \in Slots : ~ RAM_FILES[slot].used
  /\ LET slot == Min({s \in Slots : ~ RAM_FILES[s].used})
     IN RAM_FILES' = [RAM_FILES EXCEPT ![slot].used = TRUE, ![slot].name = name,
                                       ![slot].length = 0]

\* Mutation: the length is where the last write ended.
write_at_Truncates(slot, offset, bytes) ==
  RAM_FILES' = [RAM_FILES EXCEPT
    ![slot].data = [i \in Offsets |->
       IF offset <= i /\ i < offset + Len(bytes) THEN bytes[i - offset + 1] ELSE @[i]],
    ![slot].length = offset + Len(bytes)]

\* write_at(), the part after the checks.
write_at(slot, offset, bytes) ==
  RAM_FILES' = [RAM_FILES EXCEPT
    ![slot].data = [i \in Offsets |->
       IF offset <= i /\ i < offset + Len(bytes) THEN bytes[i - offset + 1] ELSE @[i]],
    ![slot].length = Max({@, offset + Len(bytes)})]

\* open_file() that succeeds: it creates a RAM file when asked to.
open_file(path, writable, create_) ==
  IF Len(path) = 2 /\ path[1] = "tmp" /\ RamSlots(path[2]) = {} /\ create_
  THEN create(path[2])
  ELSE /\ path \notin Directories
       /\ Len(path) = 1 => ~ writable /\ ~ create_
       /\ Opens(path)
       /\ UNCHANGED RAM_FILES

-----------------------------------------------------------------------------
(***************************************************************************)
(* System calls of process p.                                              *)
(***************************************************************************)

resolve_path(p, absolute, path) == IF absolute THEN path ELSE cwd[p] \o path

FreeFds(p) == {fd \in Fds : descriptors[p][fd].kind = "Empty"}

Describe(p, kind, path, writable) ==
  descriptors' = [descriptors EXCEPT ![p][Min(FreeFds(p))] =
    [kind |-> kind, path |-> path, position |-> 0, writable |-> writable]]

\* Whether a directory is opened for writing makes no difference later.
OpenDirectory(p, path) ==
  /\ path \in Directories
  /\ FreeFds(p) # {}
  /\ Describe(p, "Directory", path, FALSE)
  /\ UNCHANGED <<FILES, RAM_FILES, cwd>>

OpenFile(p, path, writable, create_) ==
  /\ open_file(path, writable, create_)
  /\ FreeFds(p) # {}
  /\ Describe(p, "File", path, writable)
  /\ UNCHANGED <<FILES, cwd>>

\* Without a free descriptor open() fails, and has created the file.
OpenCreatesOnly(p, path, writable) ==
  /\ FreeFds(p) = {}
  /\ open_file(path, writable, TRUE)
  /\ UNCHANGED <<FILES, cwd, descriptors>>

Chdir(p, path) ==
  /\ path \in Directories
  /\ cwd' = [cwd EXCEPT ![p] = path]
  /\ UNCHANGED <<FILES, RAM_FILES, descriptors>>

\* The files in "/tmp" in the order they are listed in, the index-th being that
\* of the index-th slot in use, and how many entries a directory has.
UsedSlots == {slot \in Slots : RAM_FILES[slot].used}
NthUsed(index) ==
  CHOOSE slot \in UsedSlots : Cardinality({s \in UsedSlots : s <= slot}) = index
Listing == [index \in 1 .. Cardinality(UsedSlots) |-> RAM_FILES[NthUsed(index)]]
Entries(path) == IF path = <<>> THEN 1 + Cardinality(FILES) ELSE Len(Listing)

Advance(p, fd, count) ==
  /\ descriptors' = [descriptors EXCEPT ![p][fd].position = @ + count]
  /\ UNCHANGED <<FILES, RAM_FILES, cwd>>

\* read() of up to n bytes of a file; past its end there are none.
ReadFile(p, fd, n) ==
  /\ descriptors[p][fd].kind = "File" /\ Opens(descriptors[p][fd].path)
  /\ LET left == Length(descriptors[p][fd].path) - descriptors[p][fd].position
     IN left > 0 /\ Advance(p, fd, Min({n, left}))

\* read() of the next entry of a directory.
ReadDirectory(p, fd) ==
  /\ descriptors[p][fd].kind = "Directory"
  /\ descriptors[p][fd].position < Entries(descriptors[p][fd].path)
  /\ Advance(p, fd, 1)

\* write(): all of the bytes or none.  Writing no bytes past the end of a file
\* makes it longer.
Write(p, fd, bytes) ==
  LET d == descriptors[p][fd]
  IN /\ d.kind = "File" /\ d.writable
     /\ Len(d.path) = 2 /\ d.path[1] = "tmp"
     /\ d.position + Len(bytes) <= MAX_RAM_FILE_SIZE
     /\ \E slot \in RamSlots(d.path[2]) : write_at(slot, d.position, bytes)
     /\ descriptors' = [descriptors EXCEPT ![p][fd].position = @ + Len(bytes)]
     /\ UNCHANGED <<FILES, cwd>>

Close(p, fd) ==
  /\ descriptors[p][fd].kind # "Empty"
  /\ descriptors' = [descriptors EXCEPT ![p][fd] = EMPTY]
  /\ UNCHANGED <<FILES, RAM_FILES, cwd>>

\* The positions seek() accepts.
SeekTo(position) == 0 <= position /\ position <= MaxPosition

SeekBase(d, whence) ==
  CASE whence = 0 -> 0
    [] whence = 1 -> d.position
    [] whence = 2 -> IF Opens(d.path) THEN Length(d.path) ELSE 0

Seek(p, fd, offset, whence) ==
  /\ descriptors[p][fd].kind # "Empty"
  /\ whence = 2 => descriptors[p][fd].kind = "File"
  /\ LET position == SeekBase(descriptors[p][fd], whence) + offset
     IN /\ SeekTo(position)
        /\ descriptors' = [descriptors EXCEPT ![p][fd].position = position]
  /\ UNCHANGED <<FILES, RAM_FILES, cwd>>

\* user::spawn() gives the pid to a new process.
Spawn(p) ==
  /\ p # 1
  /\ cwd' = [cwd EXCEPT ![p] = <<>>]
  /\ descriptors' = [descriptors EXCEPT ![p] = [fd \in Fds |-> EMPTY]]
  /\ UNCHANGED <<FILES, RAM_FILES>>

\* The paths programs give: absolute ones of up to two parts and relative ones
\* of one.
PathNext(p) ==
  \E absolute \in BOOLEAN, length \in 0 .. 2 :
    /\ absolute \/ length = 1
    /\ \E given \in [1 .. length -> Parts] :
       LET path == resolve_path(p, absolute, given)
       IN \/ Chdir(p, path) \/ OpenDirectory(p, path)
          \/ \E writable \in BOOLEAN :
               \/ OpenCreatesOnly(p, path, writable)
               \/ \E create_ \in BOOLEAN : OpenFile(p, path, writable, create_)

FdNext(p) ==
  \E fd \in Fds :
    \/ ReadDirectory(p, fd) \/ Close(p, fd)
    \/ \E n \in 0 .. MAX_RAM_FILE_SIZE :
         \/ ReadFile(p, fd, n)
         \/ \E bytes \in [1 .. n -> Byte] : Write(p, fd, bytes)
    \/ \E offset \in -1 .. 1, whence \in 0 .. 2 : Seek(p, fd, offset, whence)

Next == \E p \in Processes : PathNext(p) \/ FdNext(p) \/ Spawn(p)

Spec == Init /\ [][Next]_vars

-----------------------------------------------------------------------------
\* The files by name, as the bytes read() returns.
Contents ==
  [name \in {n \in Parts : RamSlots(n) # {}} |->
     LET slot == CHOOSE s \in RamSlots(name) : TRUE
     IN [i \in 1 .. RAM_FILES[slot].length |-> RAM_FILES[slot].data[i - 1]]]

\* The file system behind the descriptors is a store of named byte sequences:
\* whatever mix of descriptors, positions and processes a file is written
\* through, its name stays unique, it keeps every byte written and reads as
\* zeros where nothing was written.
Store ==
  INSTANCE FileStore WITH
    FileName <- Parts, MaxFiles <- MAX_RAM_FILES, MaxSize <- MAX_RAM_FILE_SIZE,
    store <- Contents
ImplementsStore == Store!Spec

\* The files the descriptors refer to, as paths, and what a path leads to: its
\* RAM file, or 0 for the boot file of its name.
OpenPaths ==
  UNION {{descriptors[p][fd].path : fd \in {f \in Fds : descriptors[p][f].kind = "File"}} :
         p \in Processes}
Lookup(path) ==
  IF IsBootFile(path) THEN {0} ELSE UNION {RamSlots(name) : name \in RamName(path)}

\* What a program looks up again in every call stays where it was, whatever
\* files other processes create meanwhile.  An open descriptor leads to exactly
\* one file, and to the same one after every step.  A directory is read by index,
\* and entries keep their index, so that none is listed twice or skipped.
LookupsStable ==
  [][/\ \A path \in OpenPaths :
          \E file \in 0 .. MAX_RAM_FILES : Lookup(path) = {file} /\ Lookup(path)' = {file}
     /\ Len(Listing) <= Len(Listing')
     /\ \A i \in 1 .. Len(Listing) : Listing'[i].name = Listing[i].name]_vars
=============================================================================
