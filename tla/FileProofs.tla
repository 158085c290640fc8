----------------------------- MODULE FileProofs -----------------------------
(***************************************************************************)
(* Theorems about the files behind the descriptors (module Files), for     *)
(* every set of names, processes and boot files, and every number and size *)
(* of RAM files.                                                           *)
(***************************************************************************)
EXTENDS Files, LoopLemmas, SequenceTheorems

(***************************************************************************)
(* The inductive invariant.  create() does not clear the data of the slot  *)
(* it takes, and write_at() does not clear a hole, so that a file reads as *)
(* the store says only because every byte beyond a length is zero, in free *)
(* slots too.                                                              *)
(***************************************************************************)
RamFile == [used : BOOLEAN, name : Parts, data : [Offsets -> Nat], length : 0 .. MAX_RAM_FILE_SIZE]
Descriptor ==
  [kind : {"Empty", "File", "Directory"}, path : Seq(Parts), position : Nat, writable : BOOLEAN]

DescriptorsOK ==
  /\ cwd \in [Processes -> Directories]
  /\ descriptors \in [Processes -> [Fds -> Descriptor]]

\* find_ram_file() has no choice.
NamesUnique(files) ==
  \A s, t \in Slots : files[s].used /\ files[t].used /\ files[s].name = files[t].name => s = t

ZeroBeyondEnd(files) ==
  \A s \in Slots : \A i \in Offsets :
    ~ files[s].used \/ files[s].length <= i => files[s].data[i] = 0

\* Slots are taken in order and never given back.
UsedFirst(files) == \A s, t \in Slots : s < t /\ files[t].used => files[s].used

TableOK(files) ==
  files \in [Slots -> RamFile] /\ NamesUnique(files) /\ ZeroBeyondEnd(files) /\ UsedFirst(files)

FilesInv == DescriptorsOK /\ TableOK(RAM_FILES)

LEMMA SlotsAreNumbers ==
  /\ Slots \subseteq Nat /\ Offsets \subseteq Nat /\ Fds \subseteq Nat
  /\ MAX_RAM_FILE_SIZE \in Nat /\ MAX_RAM_FILES \in Nat
BY FilesAssumption DEF Slots, Offsets, Fds

-----------------------------------------------------------------------------
(***************************************************************************)
(* What create() and write_at() do to the table.                           *)
(***************************************************************************)
\* The table before and after create() in slot s.
Created(files, files2, s, name) ==
  /\ s \in Slots /\ ~ files[s].used /\ \A t \in Slots : ~ files[t].used => s <= t
  /\ \A t \in Slots : files[t].used => files[t].name # name
  /\ files2 = [files EXCEPT ![s] = [@ EXCEPT !.used = TRUE, !.name = name, !.length = 0]]

LEMMA CreateTakesFirst ==
  ASSUME TableOK(RAM_FILES), NEW name, create(name)
  PROVE  \E s \in Slots : Created(RAM_FILES, RAM_FILES', s, name)
<1> DEFINE free == {t \in Slots : ~ RAM_FILES[t].used}
<1>1. PICK s : s = Min(free)
  OBVIOUS
<1>2. s \in free /\ \A t \in free : s <= t
  BY <1>1, MinIsLeast, SlotsAreNumbers DEF create
<1>3. RAM_FILES' = [RAM_FILES EXCEPT ![s].used = TRUE, ![s].name = name, ![s].length = 0]
  BY <1>1 DEF create
<1>4. RAM_FILES' = [RAM_FILES EXCEPT ![s] = [@ EXCEPT !.used = TRUE, !.name = name, !.length = 0]]
  BY <1>2, <1>3 DEF TableOK
<1>5. \A t \in Slots : RAM_FILES[t].used => RAM_FILES[t].name # name
  BY DEF create, RamSlots
<1> QED BY <1>2, <1>4, <1>5 DEF Created

LEMMA CreateKeepsTable ==
  ASSUME NEW files, TableOK(files), NEW name \in Parts, NEW s, NEW files2,
         Created(files, files2, s, name)
  PROVE  TableOK(files2)
<1>f. /\ s \in Slots /\ files \in [Slots -> RamFile] /\ files[s] \in RamFile
      /\ files2 = [files EXCEPT ![s] = [files[s] EXCEPT !.used = TRUE, !.name = name, !.length = 0]]
  BY DEF TableOK, Created
<1>r. PICK r : r = [files[s] EXCEPT !.used = TRUE, !.name = name, !.length = 0]
  OBVIOUS
<1>z. 0 \in 0 .. MAX_RAM_FILE_SIZE
  BY SlotsAreNumbers
<1>g. /\ r.used = TRUE /\ r.name = name /\ r.length = 0 /\ r.data = files[s].data
      /\ r \in RamFile
  BY <1>f, <1>r, <1>z DEF RamFile
<1>1. /\ s \in Slots /\ files2 \in [Slots -> RamFile] /\ files2[s] = r
      /\ \A t \in Slots : t # s => files2[t] = files[t]
  BY <1>f, <1>r, <1>g
<1>2. NamesUnique(files2)
  BY <1>1, <1>g DEF TableOK, Created, NamesUnique
<1>3. ZeroBeyondEnd(files2)
  BY <1>1, <1>g DEF TableOK, Created, ZeroBeyondEnd
<1>4. UsedFirst(files2)
  BY <1>1, <1>g, SlotsAreNumbers DEF TableOK, Created, UsedFirst
<1> QED BY <1>1, <1>2, <1>3, <1>4 DEF TableOK

\* The table before and after write_at() of n bytes in slot s.
Written(files, files2, s, offset, n, bytes) ==
  /\ s \in Slots /\ files[s].used /\ offset \in Nat /\ n \in Nat
  /\ offset + n <= MAX_RAM_FILE_SIZE /\ bytes \in [1 .. n -> Byte]
  /\ files2 = [files EXCEPT ![s] = [@ EXCEPT
       !.data = [i \in Offsets |->
          IF offset <= i /\ i < offset + n THEN bytes[i - offset + 1] ELSE files[s].data[i]],
       !.length = IF offset + n > files[s].length THEN offset + n ELSE files[s].length]]

LEMMA MaxOfTwo ==
  ASSUME NEW a \in Nat, NEW b \in Nat
  PROVE  Max({a, b}) = IF b > a THEN b ELSE a
<1>1. \A x \in {a, b} : (\A y \in {a, b} : x >= y) <=> x = IF b > a THEN b ELSE a
  OBVIOUS
<1>2. (IF b > a THEN b ELSE a) \in {a, b}
  OBVIOUS
<1> QED BY <1>1, <1>2, Zenon DEF Max

LEMMA WriteKeepsTable ==
  ASSUME NEW files, TableOK(files), NEW s, NEW offset, NEW n, NEW bytes, NEW files2,
         Written(files, files2, s, offset, n, bytes)
  PROVE  TableOK(files2)
<1>f. /\ s \in Slots /\ files \in [Slots -> RamFile] /\ files[s] \in RamFile /\ files[s].used
      /\ offset \in Nat /\ n \in Nat /\ offset + n <= MAX_RAM_FILE_SIZE
      /\ bytes \in [1 .. n -> Nat]
  BY FilesAssumption DEF TableOK, Written
<1>d. PICK data, length :
        /\ data = [i \in Offsets |->
             IF offset <= i /\ i < offset + n THEN bytes[i - offset + 1] ELSE files[s].data[i]]
        /\ length = IF offset + n > files[s].length THEN offset + n ELSE files[s].length
  OBVIOUS
<1>l. /\ files[s].length \in 0 .. MAX_RAM_FILE_SIZE /\ files[s].data \in [Offsets -> Nat]
  BY <1>f DEF RamFile
<1>t. data \in [Offsets -> Nat] /\ length \in 0 .. MAX_RAM_FILE_SIZE
  <2>1. \A i \in Offsets : offset <= i /\ i < offset + n => i - offset + 1 \in 1 .. n
    BY <1>f, SlotsAreNumbers
  <2>2. \A i \in Offsets : data[i] \in Nat
    BY <1>f, <1>d, <1>l, <2>1
  <2> QED BY <1>d, <1>f, <1>l, <2>2, SlotsAreNumbers
<1>r. PICK r : r = [files[s] EXCEPT !.data = data, !.length = length]
  OBVIOUS
<1>g. /\ r \in RamFile /\ r.used /\ r.name = files[s].name /\ r.length = length
      /\ r.data = data
  BY <1>f, <1>r, <1>t DEF RamFile
<1>1. /\ files2 \in [Slots -> RamFile] /\ files2[s] = r
      /\ \A t \in Slots : t # s => files2[t] = files[t]
  <2>1. files2 = [files EXCEPT ![s] = r]
    BY <1>d, <1>r, <1>f DEF Written
  <2> QED BY <1>f, <1>g, <2>1
<1>2. NamesUnique(files2)
  BY <1>1, <1>f, <1>g DEF TableOK, NamesUnique
<1>3. ZeroBeyondEnd(files2)
  <2>1. ASSUME NEW i \in Offsets, length <= i PROVE data[i] = 0
    <3>1. i \in Nat /\ ~ (i < offset + n) /\ files[s].length <= i
      BY <1>d, <1>f, <1>l, <2>1, SlotsAreNumbers
    <3> QED BY <1>d, <1>f, <3>1 DEF TableOK, ZeroBeyondEnd
  <2> QED BY <1>1, <1>g, <2>1 DEF TableOK, ZeroBeyondEnd
<1>4. UsedFirst(files2)
  BY <1>1, <1>f, <1>g DEF TableOK, UsedFirst
<1> QED BY <1>1, <1>2, <1>3, <1>4 DEF TableOK

LEMMA MaxOfBounded ==
  ASSUME NEW n \in Nat, NEW S, S \subseteq 0 .. n, 0 \in S
  PROVE  Max(S) \in 0 .. n
<1> DEFINE Above == {k \in Nat : \A y \in S : k >= y}
<1>1. PICK k : k = Min(Above)
  OBVIOUS
<1>2. k \in Above /\ \A y \in Above : k <= y
  <2>1. n \in Above
    OBVIOUS
  <2> QED BY <1>1, <2>1, MinIsLeast
<1>3. k \in S
  <2> SUFFICES ASSUME k \notin S PROVE FALSE
    OBVIOUS
  <2>1. k >= 1 /\ k \in Nat
    BY <1>2
  <2>2. k - 1 \in Above
    BY <1>2, <2>1
  <2> QED BY <1>2, <2>1, <2>2
<1>4. \A x \in S : (\A y \in S : x >= y) <=> x = k
  BY <1>2, <1>3
<1> QED BY <1>3, <1>4, Zenon DEF Max

LEMMA LengthIsNumber ==
  ASSUME TableOK(RAM_FILES), NEW path
  PROVE  Length(path) \in Nat
<1> DEFINE lengths ==
      {RAM_FILES[slot].length : slot \in UNION {RamSlots(n) : n \in RamName(path)}} \cup {0}
<1>1. lengths \subseteq 0 .. MAX_RAM_FILE_SIZE
  <2>1. \A s \in Slots : RAM_FILES[s].length \in 0 .. MAX_RAM_FILE_SIZE
    BY DEF TableOK, RamFile
  <2>2. \A n : RamSlots(n) \subseteq Slots
    BY DEF RamSlots
  <2>3. UNION {RamSlots(n) : n \in RamName(path)} \subseteq Slots
    BY <2>2
  <2>4. 0 \in 0 .. MAX_RAM_FILE_SIZE
    BY SlotsAreNumbers
  <2> QED BY <2>1, <2>3, <2>4
<1>2. Max(lengths) \in 0 .. MAX_RAM_FILE_SIZE
  BY <1>1, MaxOfBounded, SlotsAreNumbers
<1> QED BY <1>2 DEF Length

-----------------------------------------------------------------------------
(***************************************************************************)
(* Steps.                                                                  *)
(***************************************************************************)
LEMMA DescriptorFacts ==
  /\ EMPTY \in Descriptor
  /\ Directories \subseteq Seq(Parts)
  /\ \A k \in {"File", "Directory"}, path \in Seq(Parts), w \in BOOLEAN :
       [kind |-> k, path |-> path, position |-> 0, writable |-> w] \in Descriptor
<1>1. <<>> \in Seq(Parts) /\ <<"tmp">> \in Seq(Parts)
  BY DEF Parts
<1> QED BY <1>1 DEF Descriptor, EMPTY, Directories

\* The descriptor that a call changes stays a descriptor.
LEMMA PositionKeepsType ==
  ASSUME DescriptorsOK, NEW p \in Processes, NEW fd \in Fds, NEW position \in Nat,
         cwd' = cwd, descriptors' = [descriptors EXCEPT ![p][fd].position = position]
  PROVE  DescriptorsOK'
<1>1. descriptors[p][fd] \in Descriptor /\ descriptors[p] \in [Fds -> Descriptor]
  BY DEF DescriptorsOK
<1>2. PICK d : d = [descriptors[p][fd] EXCEPT !.position = position]
  OBVIOUS
<1>3. d \in Descriptor
  BY <1>1, <1>2 DEF Descriptor
<1>4. descriptors' = [descriptors EXCEPT ![p] = [@ EXCEPT ![fd] = d]]
  BY <1>1, <1>2 DEF DescriptorsOK
<1> QED BY <1>1, <1>3, <1>4 DEF DescriptorsOK

LEMMA DescribeKeepsType ==
  ASSUME DescriptorsOK, NEW p \in Processes, FreeFds(p) # {}, NEW k \in {"File", "Directory"},
         NEW path \in Seq(Parts), NEW w \in BOOLEAN, cwd' = cwd, Describe(p, k, path, w)
  PROVE  DescriptorsOK'
<1>1. PICK fd : fd = Min(FreeFds(p))
  OBVIOUS
<1>2. fd \in Fds
  <2>1. FreeFds(p) \subseteq Nat
    BY SlotsAreNumbers DEF FreeFds
  <2> QED BY <1>1, <2>1, MinIsLeast DEF FreeFds
<1>3. PICK d : d = [kind |-> k, path |-> path, position |-> 0, writable |-> w]
  OBVIOUS
<1>4. d \in Descriptor
  BY <1>3, DescriptorFacts
<1>5. descriptors' = [descriptors EXCEPT ![p][fd] = d]
  BY <1>1, <1>3 DEF Describe
<1> QED BY <1>2, <1>4, <1>5 DEF DescriptorsOK

\* What open_file() does to the table.
LEMMA OpenEffect ==
  ASSUME NEW path \in Seq(Parts), NEW w, NEW c, open_file(path, w, c)
  PROVE  RAM_FILES' = RAM_FILES \/ \E name \in Parts : create(name)
<1>1. Len(path) = 2 => path[2] \in Parts
  OBVIOUS
<1> QED BY <1>1 DEF open_file

\* The path a program gives, relative or absolute, is a path.
LEMMA GivenPaths ==
  ASSUME FilesInv, NEW p \in Processes, PathNext(p)
  PROVE  \E path \in Seq(Parts) :
           \/ Chdir(p, path) \/ OpenDirectory(p, path)
           \/ \E writable \in BOOLEAN :
                \/ OpenCreatesOnly(p, path, writable)
                \/ \E create_ \in BOOLEAN : OpenFile(p, path, writable, create_)
<1>0. PICK absolute \in BOOLEAN, n \in 0 .. 2 : \E given \in [1 .. n -> Parts] :
        LET path == resolve_path(p, absolute, given)
        IN \/ Chdir(p, path) \/ OpenDirectory(p, path)
           \/ \E writable \in BOOLEAN :
                \/ OpenCreatesOnly(p, path, writable)
                \/ \E create_ \in BOOLEAN : OpenFile(p, path, writable, create_)
  BY DEF PathNext
<1>g. PICK given \in [1 .. n -> Parts] :
        LET path == resolve_path(p, absolute, given)
        IN \/ Chdir(p, path) \/ OpenDirectory(p, path)
           \/ \E writable \in BOOLEAN :
                \/ OpenCreatesOnly(p, path, writable)
                \/ \E create_ \in BOOLEAN : OpenFile(p, path, writable, create_)
  BY <1>0
<1>1. PICK path :
        /\ path = resolve_path(p, absolute, given)
        /\ \/ Chdir(p, path) \/ OpenDirectory(p, path)
           \/ \E writable \in BOOLEAN :
                \/ OpenCreatesOnly(p, path, writable)
                \/ \E create_ \in BOOLEAN : OpenFile(p, path, writable, create_)
  BY <1>g
<1>2. path \in Seq(Parts)
  <2>1. given \in Seq(Parts)
    OBVIOUS
  <2>2. cwd[p] \in Seq(Parts)
    BY DescriptorFacts DEF FilesInv, DescriptorsOK
  <2>3. cwd[p] \o given \in Seq(Parts)
    BY <2>1, <2>2, ConcatProperties
  <2> QED BY <1>1, <2>1, <2>3 DEF resolve_path
<1> QED BY <1>1, <1>2

\* A step with a path.
LEMMA PathSteps ==
  ASSUME FilesInv, NEW p \in Processes, PathNext(p)
  PROVE  /\ DescriptorsOK'
         /\ RAM_FILES' = RAM_FILES \/ \E name \in Parts : create(name)
<1>1. PICK path \in Seq(Parts) :
        \/ Chdir(p, path) \/ OpenDirectory(p, path)
        \/ \E writable \in BOOLEAN :
             \/ OpenCreatesOnly(p, path, writable)
             \/ \E create_ \in BOOLEAN : OpenFile(p, path, writable, create_)
  BY GivenPaths
<1>2. path \in Seq(Parts)
  OBVIOUS
<1>3. CASE Chdir(p, path)
  BY <1>3 DEF Chdir, FilesInv, DescriptorsOK
<1>4. CASE OpenDirectory(p, path)
  BY <1>2, <1>4, DescribeKeepsType DEF OpenDirectory, FilesInv
<1>5. ASSUME NEW writable \in BOOLEAN, OpenCreatesOnly(p, path, writable)
      PROVE  /\ DescriptorsOK'
             /\ RAM_FILES' = RAM_FILES \/ \E name \in Parts : create(name)
  BY <1>2, <1>5, OpenEffect DEF OpenCreatesOnly, FilesInv, DescriptorsOK
<1>6. ASSUME NEW writable \in BOOLEAN, NEW create_ \in BOOLEAN, OpenFile(p, path, writable, create_)
      PROVE  /\ DescriptorsOK'
             /\ RAM_FILES' = RAM_FILES \/ \E name \in Parts : create(name)
  BY <1>2, <1>6, OpenEffect, DescribeKeepsType DEF OpenFile, FilesInv
<1> QED BY <1>1, <1>3, <1>4, <1>5, <1>6

\* write() changes the slot of the file the descriptor names.
LEMMA WriteEffect ==
  ASSUME FilesInv, NEW p \in Processes, NEW fd \in Fds, NEW n \in 0 .. MAX_RAM_FILE_SIZE,
         NEW bytes \in [1 .. n -> Byte], Write(p, fd, bytes)
  PROVE  /\ DescriptorsOK'
         /\ \E s, offset : Written(RAM_FILES, RAM_FILES', s, offset, n, bytes)
<1>1. PICK d : d = descriptors[p][fd]
  OBVIOUS
<1>2. d \in Descriptor /\ Len(bytes) = n /\ n \in Nat
  BY <1>1, SlotsAreNumbers DEF FilesInv, DescriptorsOK
<1>3. PICK s \in RamSlots(d.path[2]) : write_at(s, d.position, bytes)
  BY <1>1 DEF Write
<1>4. s \in Slots /\ RAM_FILES[s].used /\ RAM_FILES[s] \in RamFile
      /\ RAM_FILES \in [Slots -> RamFile]
  BY <1>3 DEF RamSlots, FilesInv, TableOK
<1>5. /\ d.position \in Nat /\ d.position + n <= MAX_RAM_FILE_SIZE /\ cwd' = cwd
      /\ descriptors' = [descriptors EXCEPT ![p][fd].position = d.position + n]
  <2>1. d.position \in Nat
    BY <1>2 DEF Descriptor
  <2> QED BY <1>1, <1>2, <2>1 DEF Write, FilesInv, DescriptorsOK
<1>6. DescriptorsOK'
  <2>1. d.position + n \in Nat
    BY <1>2, <1>5
  <2> QED BY <1>5, <2>1, PositionKeepsType DEF FilesInv
<1>7. RAM_FILES[s].length \in Nat
  BY <1>4, SlotsAreNumbers DEF RamFile
<1>8. Max({RAM_FILES[s].length, d.position + n})
        = IF d.position + n > RAM_FILES[s].length THEN d.position + n ELSE RAM_FILES[s].length
  BY <1>2, <1>5, <1>7, MaxOfTwo
<1>9. Written(RAM_FILES, RAM_FILES', s, d.position, n, bytes)
  BY <1>2, <1>3, <1>4, <1>5, <1>8 DEF write_at, Written
<1> QED BY <1>6, <1>9

\* A step with a descriptor.
LEMMA FdSteps ==
  ASSUME FilesInv, NEW p \in Processes, FdNext(p)
  PROVE  /\ DescriptorsOK'
         /\ \/ RAM_FILES' = RAM_FILES
            \/ \E s, offset, n, bytes : Written(RAM_FILES, RAM_FILES', s, offset, n, bytes)
<1>1. PICK fd \in Fds :
        \/ ReadDirectory(p, fd) \/ Close(p, fd)
        \/ \E n \in 0 .. MAX_RAM_FILE_SIZE :
             \/ ReadFile(p, fd, n)
             \/ \E bytes \in [1 .. n -> Byte] : Write(p, fd, bytes)
        \/ \E offset \in -1 .. 1, whence \in 0 .. 2 : Seek(p, fd, offset, whence)
  BY DEF FdNext
<1>2. PICK d : d = descriptors[p][fd] /\ d \in Descriptor
  BY DEF FilesInv, DescriptorsOK
<1>3. d.position \in Nat
  BY <1>2 DEF Descriptor
<1>4. ASSUME NEW position \in Nat, UNCHANGED <<RAM_FILES, cwd>>,
             descriptors' = [descriptors EXCEPT ![p][fd].position = position]
      PROVE  DescriptorsOK' /\ RAM_FILES' = RAM_FILES
  BY <1>4, PositionKeepsType DEF FilesInv
<1>5. ASSUME NEW count \in Nat, Advance(p, fd, count)
      PROVE  DescriptorsOK' /\ RAM_FILES' = RAM_FILES
  <2>1. d.position + count \in Nat
    BY <1>3
  <2>2. descriptors' = [descriptors EXCEPT ![p][fd].position = d.position + count]
    BY <1>2, <1>5 DEF Advance, FilesInv, DescriptorsOK
  <2> QED BY <1>4, <1>5, <2>1, <2>2 DEF Advance
<1>6. CASE ReadDirectory(p, fd)
  BY <1>5, <1>6 DEF ReadDirectory
<1>7. CASE Close(p, fd)
  BY <1>7, DescriptorFacts DEF Close, FilesInv, DescriptorsOK
<1>8. ASSUME NEW n \in 0 .. MAX_RAM_FILE_SIZE, ReadFile(p, fd, n)
      PROVE  DescriptorsOK' /\ RAM_FILES' = RAM_FILES
  <2>1. PICK left : left = Length(d.path) - d.position
    OBVIOUS
  <2>2. left > 0 /\ Advance(p, fd, Min({n, left}))
    BY <1>2, <1>8, <2>1 DEF ReadFile
  <2>3. left \in Nat /\ n \in Nat
    <3>1. Length(d.path) \in Nat
      BY LengthIsNumber DEF FilesInv
    <3> QED BY <1>3, <2>1, <2>2, <3>1, SlotsAreNumbers
  <2>4. Min({n, left}) \in Nat
    BY <2>3, MinIsLeast
  <2> QED BY <1>5, <2>2, <2>4
<1>9. ASSUME NEW n \in 0 .. MAX_RAM_FILE_SIZE, NEW bytes \in [1 .. n -> Byte], Write(p, fd, bytes)
      PROVE  /\ DescriptorsOK'
             /\ \E s, offset : Written(RAM_FILES, RAM_FILES', s, offset, n, bytes)
  BY <1>9, WriteEffect
<1>10. ASSUME NEW offset \in -1 .. 1, NEW whence \in 0 .. 2, Seek(p, fd, offset, whence)
       PROVE  DescriptorsOK' /\ RAM_FILES' = RAM_FILES
  <2>1. PICK base : base = SeekBase(d, whence)
    OBVIOUS
  <2>2. base \in Nat
    <3>1. Length(d.path) \in Nat
      BY LengthIsNumber DEF FilesInv
    <3>2. whence = 0 \/ whence = 1 \/ whence = 2
      OBVIOUS
    <3> QED BY <1>3, <2>1, <3>1, <3>2 DEF SeekBase
  <2>3. PICK position : position = base + offset
    OBVIOUS
  <2>4. /\ position \in Nat /\ UNCHANGED <<RAM_FILES, cwd>>
        /\ descriptors' = [descriptors EXCEPT ![p][fd].position = position]
    <3>1. 0 <= position
      BY <1>2, <1>10, <2>1, <2>3 DEF Seek, SeekTo
    <3> QED BY <1>2, <1>10, <2>1, <2>2, <2>3, <3>1 DEF Seek
  <2> QED BY <1>4, <2>4
<1> QED BY <1>1, <1>6, <1>7, <1>8, <1>9, <1>10

\* Every step keeps the table, creates a file or writes to one.
LEMMA FileSteps ==
  ASSUME FilesInv, [Next]_vars
  PROVE  /\ DescriptorsOK'
         /\ \/ RAM_FILES' = RAM_FILES
            \/ \E name \in Parts, s \in Slots : Created(RAM_FILES, RAM_FILES', s, name)
            \/ \E s, offset, n, bytes : Written(RAM_FILES, RAM_FILES', s, offset, n, bytes)
<1>1. ASSUME NEW p \in Processes, PathNext(p)
      PROVE  /\ DescriptorsOK'
             /\ \/ RAM_FILES' = RAM_FILES
                \/ \E name \in Parts, s \in Slots : Created(RAM_FILES, RAM_FILES', s, name)
  BY <1>1, PathSteps, CreateTakesFirst DEF FilesInv
<1>2. ASSUME NEW p \in Processes, Spawn(p)
      PROVE  DescriptorsOK' /\ RAM_FILES' = RAM_FILES
  <2>1. <<>> \in Directories
    BY DEF Directories
  <2>2. [fd \in Fds |-> EMPTY] \in [Fds -> Descriptor]
    BY DescriptorFacts
  <2> QED BY <1>2, <2>1, <2>2 DEF Spawn, FilesInv, DescriptorsOK
<1>3. CASE UNCHANGED vars
  BY <1>3 DEF vars, FilesInv, DescriptorsOK
<1> QED BY <1>1, <1>2, <1>3, FdSteps DEF Next

LEMMA FilesInvStep == ASSUME FilesInv, [Next]_vars PROVE FilesInv'
<1>1. TableOK(RAM_FILES')
  BY FileSteps, CreateKeepsTable, WriteKeepsTable DEF FilesInv
<1> QED BY <1>1, FileSteps DEF FilesInv

LEMMA FilesInvInit == ASSUME Init PROVE FilesInv
<1>1. DescriptorsOK
  BY DescriptorFacts DEF Init, DescriptorsOK, Directories
<1>2. NoFile \in RamFile
  <2>1. [i \in Offsets |-> 0] \in [Offsets -> Nat] /\ 0 \in 0 .. MAX_RAM_FILE_SIZE
    BY SlotsAreNumbers
  <2> QED BY <2>1 DEF NoFile, RamFile, Parts
<1>3. /\ RAM_FILES \in [Slots -> RamFile]
      /\ \A s \in Slots : ~ RAM_FILES[s].used /\ \A i \in Offsets : RAM_FILES[s].data[i] = 0
  BY <1>2 DEF Init, NoFile
<1>4. TableOK(RAM_FILES)
  BY <1>3 DEF TableOK, NamesUnique, ZeroBeyondEnd, UsedFirst
<1> QED BY <1>1, <1>4 DEF FilesInv

-----------------------------------------------------------------------------
(***************************************************************************)
(* The refinement.                                                         *)
(***************************************************************************)
NamedSlots(files, name) == {s \in Slots : files[s].used /\ files[s].name = name}
Bytes(file) == [i \in 1 .. file.length |-> file.data[i - 1]]
ContentsOf(files) ==
  [name \in {n \in Parts : NamedSlots(files, n) # {}} |->
     Bytes(files[CHOOSE s \in NamedSlots(files, name) : TRUE])]

LEMMA ContentsAre == Contents = ContentsOf(RAM_FILES) /\ Contents' = ContentsOf(RAM_FILES')
BY DEF Contents, ContentsOf, RamSlots, NamedSlots, Bytes

\* A name leads to its slot.
LEMMA ContentsFacts ==
  ASSUME NEW files, TableOK(files)
  PROVE  /\ \A name : name \in DOMAIN ContentsOf(files) <=>
                       \E s \in Slots : files[s].used /\ files[s].name = name
         /\ \A s \in Slots : files[s].used =>
              ContentsOf(files)[files[s].name] = Bytes(files[s])
<1>1. \A s \in Slots : files[s].name \in Parts
  BY DEF TableOK, RamFile
<1>2. DOMAIN ContentsOf(files) = {n \in Parts : NamedSlots(files, n) # {}}
  BY DEF ContentsOf
<1>3. \A name : name \in DOMAIN ContentsOf(files) <=>
                \E s \in Slots : files[s].used /\ files[s].name = name
  BY <1>1, <1>2 DEF NamedSlots
<1>4. ASSUME NEW s \in Slots, files[s].used
      PROVE  ContentsOf(files)[files[s].name] = Bytes(files[s])
  <2>1. PICK name : name = files[s].name
    OBVIOUS
  <2>2. NamedSlots(files, name) = {s} /\ name \in Parts
    BY <1>1, <1>4, <2>1 DEF NamedSlots, TableOK, NamesUnique
  <2>3. (CHOOSE t \in NamedSlots(files, name) : TRUE) = s
    BY <2>2
  <2> QED BY <2>1, <2>2, <2>3 DEF ContentsOf
<1> QED BY <1>3, <1>4

\* The names are as many as the slots in use: where a slot is free, there is
\* room for a name.
LEMMA NamesFit ==
  ASSUME NEW files, TableOK(files), NEW t \in Slots, ~ files[t].used
  PROVE  Cardinality(DOMAIN ContentsOf(files)) < MAX_RAM_FILES
<1> DEFINE S == {s \in Slots : files[s].used}
           T == DOMAIN ContentsOf(files)
           g == [s \in S |-> files[s].name]
<1>1. IsFiniteSet(Slots) /\ Cardinality(Slots) = MAX_RAM_FILES
  <2>1. 1 \in Int /\ MAX_RAM_FILES \in Nat
    BY SlotsAreNumbers
  <2> QED BY <2>1, FS_Interval DEF Slots
<1>2. IsFiniteSet(Slots \ {t}) /\ Cardinality(Slots \ {t}) = MAX_RAM_FILES - 1
  BY <1>1, FS_RemoveElement
<1>3. S \in SUBSET (Slots \ {t})
  OBVIOUS
<1>4. IsFiniteSet(S) /\ Cardinality(S) <= MAX_RAM_FILES - 1
  BY <1>2, <1>3, FS_Subset
<1>5. /\ g \in [S -> T]
      /\ \A x, y \in S : g[x] = g[y] => x = y
      /\ \A y \in T : \E x \in S : g[x] = y
  BY ContentsFacts DEF TableOK, NamesUnique
<1>6. Cardinality(T) = Cardinality(S)
  <2> HIDE DEF S, T, g
  <2> QED BY <1>4, <1>5, ImageSize
<1>7. Cardinality(S) \in Nat
  BY <1>4, FS_CardinalityType
<1> QED BY <1>4, <1>6, <1>7, SlotsAreNumbers

\* The store with an empty file of a new name.
WithFile(old, name) == [n \in DOMAIN old \cup {name} |-> IF n = name THEN <<>> ELSE old[n]]

LEMMA CreateImplements ==
  ASSUME NEW files, TableOK(files), NEW name \in Parts, NEW s, NEW files2,
         Created(files, files2, s, name), NEW old, old = ContentsOf(files),
         NEW new, new = ContentsOf(files2)
  PROVE  /\ name \notin DOMAIN old /\ Cardinality(DOMAIN old) < MAX_RAM_FILES
         /\ new = WithFile(old, name)
<1>1. TableOK(files2)
  BY CreateKeepsTable
<1>f. PICK r : r = [files[s] EXCEPT !.used = TRUE, !.name = name, !.length = 0]
  OBVIOUS
<1>2. /\ s \in Slots /\ files \in [Slots -> RamFile] /\ files[s] \in RamFile
      /\ files2 = [files EXCEPT ![s] = r]
      /\ r.used = TRUE /\ r.name = name /\ r.length = 0
  BY <1>f DEF Created, TableOK, RamFile
<1>3. /\ files2[s] = r /\ \A t \in Slots : t # s => files2[t] = files[t]
      /\ ~ files[s].used
  BY <1>2 DEF Created
<1>u. s \in Slots /\ files2[s].used /\ files2[s].name = name
  BY <1>2, <1>3
<1>4. name \notin DOMAIN old /\ Cardinality(DOMAIN old) < MAX_RAM_FILES
  <2>1. name \notin DOMAIN old
    BY ContentsFacts DEF Created
  <2> QED BY <1>2, <1>3, <2>1, NamesFit
<1>5. DOMAIN new = DOMAIN old \cup {name}
  <2>1. /\ \A n : n \in DOMAIN old <=> \E t \in Slots : files[t].used /\ files[t].name = n
        /\ \A n : n \in DOMAIN new <=> \E t \in Slots : files2[t].used /\ files2[t].name = n
    BY <1>1, ContentsFacts
  <2>2. ASSUME NEW n \in DOMAIN new PROVE n \in DOMAIN old \cup {name}
    <3>1. PICK t \in Slots : files2[t].used /\ files2[t].name = n
      BY <2>1
    <3> QED BY <1>3, <1>u, <2>1, <3>1
  <2>3. ASSUME NEW n \in DOMAIN old PROVE n \in DOMAIN new
    <3>1. PICK t \in Slots : files[t].used /\ files[t].name = n
      BY <2>1
    <3> QED BY <1>3, <2>1, <3>1
  <2>4. name \in DOMAIN new
    BY <1>u, <2>1
  <2> QED BY <2>2, <2>3, <2>4
<1>6. new[name] = <<>>
  <2>1. new[name] = Bytes(r)
    BY <1>1, <1>3, <1>u, ContentsFacts
  <2>2. Bytes(r) = [i \in 1 .. 0 |-> r.data[i - 1]]
    BY <1>2 DEF Bytes
  <2> QED BY <2>1, <2>2
<1>7. ASSUME NEW n \in DOMAIN old PROVE new[n] = old[n]
  <2>1. PICK t \in Slots : files[t].used /\ files[t].name = n
    BY ContentsFacts
  <2>2. t # s /\ files2[t] = files[t]
    BY <1>3, <2>1
  <2> QED BY <1>1, <2>1, <2>2, ContentsFacts
<1>8. new = [n \in DOMAIN new |-> new[n]]
  BY DEF ContentsOf
<1> QED BY <1>4, <1>5, <1>6, <1>7, <1>8 DEF WithFile

LEMMA WriteImplements ==
  ASSUME NEW files, TableOK(files), NEW s, NEW offset, NEW n, NEW bytes, NEW files2,
         Written(files, files2, s, offset, n, bytes), NEW old, old = ContentsOf(files),
         NEW new, new = ContentsOf(files2), NEW name, name = files[s].name
  PROVE  name \in DOMAIN old /\ new = [old EXCEPT ![name] = Store!Overwritten(@, offset, bytes)]
<1>1. TableOK(files2)
  BY WriteKeepsTable
<1>2. /\ s \in Slots /\ files \in [Slots -> RamFile] /\ files[s] \in RamFile /\ files[s].used
      /\ offset \in Nat /\ n \in Nat /\ offset + n <= MAX_RAM_FILE_SIZE
      /\ bytes \in [1 .. n -> Nat] /\ Len(bytes) = n
  BY FilesAssumption DEF TableOK, Written
<1>d. PICK data, length, r :
        /\ data = [i \in Offsets |->
             IF offset <= i /\ i < offset + n THEN bytes[i - offset + 1] ELSE files[s].data[i]]
        /\ length = IF offset + n > files[s].length THEN offset + n ELSE files[s].length
        /\ r = [files[s] EXCEPT !.data = data, !.length = length]
  OBVIOUS
<1>r. /\ r.used /\ r.name = name /\ r.length = length /\ r.data = data
      /\ files[s].length \in 0 .. MAX_RAM_FILE_SIZE /\ files[s].data \in [Offsets -> Nat]
  BY <1>2, <1>d DEF RamFile
<1>3. files2[s] = r /\ \A t \in Slots : t # s => files2[t] = files[t]
  <2>1. files2 = [files EXCEPT ![s] = r]
    BY <1>2, <1>d DEF Written
  <2> QED BY <1>2, <2>1
<1>4. name \in DOMAIN old /\ old[name] = Bytes(files[s]) /\ new[name] = Bytes(r)
  BY <1>1, <1>2, <1>3, <1>r, ContentsFacts
<1>5. DOMAIN new = DOMAIN old
  <2>1. ASSUME NEW m PROVE m \in DOMAIN new <=> m \in DOMAIN old
    BY <1>1, <1>2, <1>3, <1>r, ContentsFacts
  <2> QED BY <2>1
<1>6. ASSUME NEW m \in DOMAIN old, m # name PROVE new[m] = old[m]
  <2>1. PICK t \in Slots : files[t].used /\ files[t].name = m
    BY ContentsFacts
  <2>2. t # s /\ files2[t] = files[t]
    BY <1>3, <1>6, <2>1
  <2> QED BY <1>1, <2>1, <2>2, ContentsFacts
<1>7. Bytes(r) = Store!Overwritten(Bytes(files[s]), offset, bytes)
  <2>1. PICK b, len : b = Bytes(files[s]) /\ len = files[s].length
    OBVIOUS
  <2>2. len \in 0 .. MAX_RAM_FILE_SIZE /\ b = [i \in 1 .. len |-> files[s].data[i - 1]] /\ Len(b) = len
    BY <1>r, <2>1, SlotsAreNumbers DEF Bytes
  <2>3. Store!Overwritten(b, offset, bytes) =
          [i \in 1 .. length |-> IF offset < i /\ i <= offset + n THEN bytes[i - offset]
                                ELSE IF i <= len THEN b[i] ELSE 0]
    BY <1>2, <1>d, <2>1, <2>2 DEF Store!Overwritten
  <2>4. length \in Nat /\ length <= MAX_RAM_FILE_SIZE /\ len \in Nat /\ len <= length
    BY <1>2, <1>d, <2>1, <2>2, SlotsAreNumbers
  <2>5. ASSUME NEW i \in 1 .. length
        PROVE  data[i - 1] = IF offset < i /\ i <= offset + n THEN bytes[i - offset]
                             ELSE IF i <= len THEN b[i] ELSE 0
    <3>1. i \in Nat /\ i - 1 \in Offsets /\ (i - 1) - offset + 1 = i - offset
      BY <1>2, <2>4, SlotsAreNumbers DEF Offsets
    <3>2. data[i - 1] = IF offset <= i - 1 /\ i - 1 < offset + n
                        THEN bytes[(i - 1) - offset + 1] ELSE files[s].data[i - 1]
      BY <1>d, <3>1
    <3>3. CASE offset < i /\ i <= offset + n
      BY <1>2, <3>1, <3>2, <3>3
    <3>4. CASE ~ (offset < i /\ i <= offset + n)
      <4>1. data[i - 1] = files[s].data[i - 1]
        BY <1>2, <3>1, <3>2, <3>4
      <4>2. i <= len => files[s].data[i - 1] = b[i]
        BY <2>2, <2>4
      <4>3. ~ (i <= len) => files[s].data[i - 1] = 0
        BY <1>2, <2>1, <2>4, <3>1 DEF TableOK, ZeroBeyondEnd
      <4> QED BY <3>4, <4>1, <4>2, <4>3
    <3> QED BY <3>3, <3>4
  <2>6. Bytes(r) = [i \in 1 .. length |-> data[i - 1]]
    BY <1>r DEF Bytes
  <2> QED BY <2>1, <2>3, <2>5, <2>6
<1>8. new = [m \in DOMAIN new |-> new[m]] /\ old = [m \in DOMAIN old |-> old[m]]
  BY DEF ContentsOf
<1> QED BY <1>4, <1>5, <1>6, <1>7, <1>8

LEMMA StoreCounts == \A S : Store!Cardinality(S) = Cardinality(S)
BY Zenon DEF Store!Cardinality, Cardinality, Store!IsFiniteSet, IsFiniteSet

LEMMA StoreStep ==
  ASSUME FilesInv, [Next]_vars PROVE [Store!Next]_Contents
<1>c. PICK old, new : /\ old = ContentsOf(RAM_FILES) /\ new = ContentsOf(RAM_FILES')
                      /\ Contents = old /\ Contents' = new
  BY ContentsAre
<1>1. CASE RAM_FILES' = RAM_FILES
  BY <1>1, <1>c
<1>2. ASSUME NEW name \in Parts, NEW s \in Slots, Created(RAM_FILES, RAM_FILES', s, name)
      PROVE  Store!Next
  <2>1. TableOK(RAM_FILES)
    BY DEF FilesInv
  <2>2. /\ name \notin DOMAIN old /\ Cardinality(DOMAIN old) < MAX_RAM_FILES
        /\ new = WithFile(old, name)
    BY <1>2, <1>c, <2>1, CreateImplements
  <2>3. Contents' = WithFile(Contents, name)
    BY <1>c, <2>2
  <2>4. Store!Create(name)
    BY <1>c, <2>2, <2>3, StoreCounts, Zenon DEF Store!Create, WithFile
  <2> QED BY <2>4 DEF Store!Next
<1>3. ASSUME NEW s, NEW offset, NEW n, NEW bytes,
             Written(RAM_FILES, RAM_FILES', s, offset, n, bytes)
      PROVE  Store!Next
  <2>1. PICK name \in Parts : name = RAM_FILES[s].name
    BY <1>3 DEF Written, FilesInv, TableOK, RamFile
  <2>2. /\ offset \in 0 .. MAX_RAM_FILE_SIZE /\ n \in 0 .. MAX_RAM_FILE_SIZE
        /\ bytes \in [1 .. n -> Byte] /\ Len(bytes) = n /\ offset + n <= MAX_RAM_FILE_SIZE
    BY <1>3, SlotsAreNumbers DEF Written
  <2>3. Store!Write(name, offset, bytes)
    BY <1>3, <1>c, <2>1, <2>2, WriteImplements DEF Store!Write, FilesInv
  <2> QED BY <2>2, <2>3 DEF Store!Next
<1> QED BY <1>1, <1>2, <1>3, FileSteps DEF FilesInv

\* Whatever mix of descriptors, positions and processes RAM files are created and
\* written through, they are the abstract store: find_ram_file() finds the one
\* file of a name, a write changes the bytes it covers and no others, and a
\* hole reads as zeros although neither create() nor write_at() clears anything.
THEOREM FilesImplementStore == Spec => ImplementsStore
<1>1. Init => FilesInv /\ Store!Init
  <2> SUFFICES ASSUME Init PROVE FilesInv /\ Store!Init
    OBVIOUS
  <2>1. FilesInv
    BY FilesInvInit
  <2>2. \A s \in Slots : ~ RAM_FILES[s].used
    BY DEF Init, NoFile
  <2>3. {n \in Parts : RamSlots(n) # {}} = {}
    BY <2>2 DEF RamSlots
  <2>4. Contents = [n \in {} |-> <<>>]
    BY <2>3 DEF Contents
  <2> QED BY <2>1, <2>4 DEF Store!Init
<1> QED BY <1>1, FilesInvStep, StoreStep, PTL DEF Spec, ImplementsStore, Store!Spec

-----------------------------------------------------------------------------
(***************************************************************************)
(* The listing of "/tmp".                                                  *)
(***************************************************************************)
Used(files) == {slot \in Slots : files[slot].used}
Nth(files, index) ==
  CHOOSE slot \in Used(files) : Cardinality({s \in Used(files) : s <= slot}) = index
ListingOf(files) == [index \in 1 .. Cardinality(Used(files)) |-> files[Nth(files, index)]]

LEMMA ListingIs == Listing = ListingOf(RAM_FILES) /\ Listing' = ListingOf(RAM_FILES')
BY DEF Listing, ListingOf, NthUsed, Nth, UsedSlots, Used

LEMMA UsedIsPrefix ==
  ASSUME NEW files, TableOK(files)
  PROVE  \E n \in Nat : Used(files) = 1 .. n
<1>n. MAX_RAM_FILES \in Nat
  BY SlotsAreNumbers
<1>1. CASE \A s \in Slots : files[s].used
  BY <1>1, <1>n DEF Used, Slots
<1>2. CASE \E s \in Slots : ~ files[s].used
  <2>1. PICK free : free = {s \in Slots : ~ files[s].used}
    OBVIOUS
  <2>2. PICK m : m = Min(free)
    OBVIOUS
  <2>3. m \in free /\ \A s \in free : m <= s
    BY <1>2, <2>1, <2>2, MinIsLeast, SlotsAreNumbers
  <2>4. m \in 1 .. MAX_RAM_FILES /\ ~ files[m].used
    BY <2>1, <2>3 DEF Slots
  <2>5. \A s \in Slots : files[s].used <=> s < m
    <3>1. ASSUME NEW s \in Slots, files[s].used PROVE s < m
      BY <2>4, <3>1, SlotsAreNumbers DEF TableOK, UsedFirst, Slots
    <3>2. ASSUME NEW s \in Slots, s < m PROVE files[s].used
      BY <2>1, <2>3, <2>4, <3>2, SlotsAreNumbers
    <3> QED BY <3>1, <3>2
  <2>6. Used(files) = 1 .. (m - 1) /\ m - 1 \in Nat
    BY <1>n, <2>4, <2>5 DEF Used, Slots
  <2> QED BY <2>6
<1> QED BY <1>1, <1>2

\* The index-th file is that of slot index.
LEMMA ListingFacts ==
  ASSUME NEW files, TableOK(files)
  PROVE  \E n \in Nat : Used(files) = 1 .. n /\ ListingOf(files) = [i \in 1 .. n |-> files[i]]
<1>1. PICK n \in Nat : Used(files) = 1 .. n
  BY UsedIsPrefix
<1>2. Cardinality(Used(files)) = n
  <2>1. 1 \in Int /\ n \in Int
    OBVIOUS
  <2>2. Cardinality(1 .. n) = n
    BY <2>1, FS_Interval
  <2> QED BY <1>1, <2>2
<1>3. ASSUME NEW s \in 1 .. n
      PROVE  Cardinality({t \in Used(files) : t <= s}) = s
  <2>1. {t \in Used(files) : t <= s} = 1 .. s
    BY <1>1, <1>3
  <2>2. 1 \in Int /\ s \in Int /\ s >= 1
    BY <1>3
  <2>3. Cardinality(1 .. s) = s
    BY <2>2, FS_Interval
  <2> QED BY <2>1, <2>3
<1>4. ASSUME NEW i \in 1 .. n PROVE Nth(files, i) = i
  BY <1>1, <1>3, Zenon DEF Nth
<1> QED BY <1>1, <1>2, <1>4 DEF ListingOf

LEMMA UsedSlotsStay ==
  ASSUME FilesInv, [Next]_vars, NEW s \in Slots, RAM_FILES[s].used
  PROVE  RAM_FILES'[s].used /\ RAM_FILES'[s].name = RAM_FILES[s].name
<1>0. RAM_FILES \in [Slots -> RamFile] /\ RAM_FILES[s] \in RamFile
  BY DEF FilesInv, TableOK
<1>1. ASSUME NEW name \in Parts, NEW t \in Slots, Created(RAM_FILES, RAM_FILES', t, name)
      PROVE  RAM_FILES'[s] = RAM_FILES[s]
  BY <1>0, <1>1 DEF Created
<1>2. ASSUME NEW t, NEW offset, NEW n, NEW bytes,
             Written(RAM_FILES, RAM_FILES', t, offset, n, bytes)
      PROVE  RAM_FILES'[s].used /\ RAM_FILES'[s].name = RAM_FILES[s].name
  <2>1. PICK data, length :
          RAM_FILES' = [RAM_FILES EXCEPT ![t] = [@ EXCEPT !.data = data, !.length = length]]
    BY <1>2 DEF Written
  <2> QED BY <1>0, <2>1 DEF RamFile
<1> QED BY <1>1, <1>2, FileSteps

-----------------------------------------------------------------------------
(***************************************************************************)
(* The files that descriptors lead to.                                     *)
(***************************************************************************)
LEMMA BootFilesStay == ASSUME [Next]_vars PROVE FILES' = FILES
<1>1. ASSUME NEW p \in Processes, PathNext(p) PROVE FILES' = FILES
  BY <1>1 DEF PathNext, Chdir, OpenDirectory, OpenCreatesOnly, OpenFile
<1>2. ASSUME NEW p \in Processes, FdNext(p) PROVE FILES' = FILES
  BY <1>2 DEF FdNext, ReadDirectory, Close, ReadFile, Write, Seek, Advance
<1>3. ASSUME NEW p \in Processes, Spawn(p) PROVE FILES' = FILES
  BY <1>3 DEF Spawn
<1> QED BY <1>1, <1>2, <1>3 DEF Next, vars

\* A path that leads to a file leads to one file, and to the same one for good.
LEMMA LookupStays ==
  ASSUME FilesInv, [Next]_vars, NEW path, Opens(path)
  PROVE  /\ Opens(path)'
         /\ \E file \in 0 .. MAX_RAM_FILES : Lookup(path) = {file} /\ Lookup(path)' = {file}
<1>0. /\ FILES' = FILES /\ NamesUnique(RAM_FILES) /\ NamesUnique(RAM_FILES')
      /\ MAX_RAM_FILES \in Nat
  BY BootFilesStay, FilesInvStep, SlotsAreNumbers DEF FilesInv, TableOK
<1>1. /\ IsBootFile(path)' <=> IsBootFile(path)
      /\ RamName(path)' = RamName(path)
  BY <1>0 DEF IsBootFile, RamName
<1>2. CASE IsBootFile(path)
  <2>1. Lookup(path) = {0} /\ Lookup(path)' = {0} /\ Opens(path)'
    BY <1>1, <1>2 DEF Lookup, Opens
  <2> QED BY <1>0, <2>1
<1>3. CASE ~ IsBootFile(path)
  <2>1. PICK name \in RamName(path) : RamSlots(name) # {}
    BY <1>3 DEF Opens
  <2>2. RamName(path) = {name}
    BY <2>1 DEF RamName
  <2>3. PICK s \in Slots : RAM_FILES[s].used /\ RAM_FILES[s].name = name
    BY <2>1 DEF RamSlots
  <2>4. RAM_FILES'[s].used /\ RAM_FILES'[s].name = name
    BY <2>3, UsedSlotsStay
  <2>5. RamSlots(name) = {s} /\ RamSlots(name)' = {s}
    BY <1>0, <2>3, <2>4 DEF RamSlots, NamesUnique
  <2>6. Opens(path)'
    BY <1>1, <2>1, <2>5 DEF Opens
  <2>7. Lookup(path) = {s} /\ Lookup(path)' = {s}
    BY <1>1, <1>3, <2>2, <2>5 DEF Lookup
  <2>8. s \in 0 .. MAX_RAM_FILES
    BY <1>0 DEF Slots
  <2> QED BY <2>6, <2>7, <2>8
<1> QED BY <1>2, <1>3

\* open_file() that succeeds has found or made a file.
LEMMA OpenedLeads ==
  ASSUME FilesInv, [Next]_vars, NEW path \in Seq(Parts), NEW w, NEW c, open_file(path, w, c)
  PROVE  Opens(path)'
<1>1. CASE Len(path) = 2 /\ path[1] = "tmp" /\ RamSlots(path[2]) = {} /\ c
  <2>0. path[2] \in Parts
    BY <1>1
  <2>1. create(path[2])
    BY <1>1 DEF open_file
  <2>2. PICK s \in Slots : Created(RAM_FILES, RAM_FILES', s, path[2])
    BY <2>1, CreateTakesFirst DEF FilesInv
  <2>3. RAM_FILES'[s].used /\ RAM_FILES'[s].name = path[2]
    BY <2>2 DEF Created, FilesInv, TableOK, RamFile
  <2>4. s \in RamSlots(path[2])'
    BY <2>3 DEF RamSlots
  <2>5. path[2] \in RamName(path)'
    BY <1>1 DEF RamName
  <2> QED BY <2>4, <2>5 DEF Opens
<1>2. CASE ~ (Len(path) = 2 /\ path[1] = "tmp" /\ RamSlots(path[2]) = {} /\ c)
  BY <1>2, LookupStays DEF open_file
<1> QED BY <1>1, <1>2

\* Where a file descriptor comes from: it was there, or was opened just now.
Kept(p, fd) ==
  descriptors[p][fd].kind = "File" /\ descriptors[p][fd].path = descriptors'[p][fd].path
Opened(p, fd) ==
  \E path \in Seq(Parts), w, c \in BOOLEAN :
    path = descriptors'[p][fd].path /\ open_file(path, w, c)

LEMMA PositionKeepsPath ==
  ASSUME DescriptorsOK, NEW p \in Processes, NEW fd \in Fds, NEW position,
         descriptors' = [descriptors EXCEPT ![p][fd].position = position],
         NEW q \in Processes, NEW f \in Fds, descriptors'[q][f].kind = "File"
  PROVE  Kept(q, f)
<1>1. descriptors[p][fd] \in Descriptor /\ descriptors[p] \in [Fds -> Descriptor]
  BY DEF DescriptorsOK
<1>2. PICK d : d = [descriptors[p][fd] EXCEPT !.position = position]
  OBVIOUS
<1>3. d.kind = descriptors[p][fd].kind /\ d.path = descriptors[p][fd].path
  BY <1>1, <1>2 DEF Descriptor
<1>4. descriptors' = [descriptors EXCEPT ![p] = [@ EXCEPT ![fd] = d]]
  BY <1>1, <1>2 DEF DescriptorsOK
<1> QED BY <1>1, <1>3, <1>4 DEF DescriptorsOK, Kept

LEMMA DescriptorOrigin ==
  ASSUME FilesInv, [Next]_vars, NEW q \in Processes, NEW f \in Fds,
         descriptors'[q][f].kind = "File"
  PROVE  Kept(q, f) \/ Opened(q, f)
<1>0. descriptors \in [Processes -> [Fds -> Descriptor]]
  BY DEF FilesInv, DescriptorsOK
<1>1. CASE UNCHANGED descriptors
  BY <1>1 DEF Kept
<1>2. ASSUME NEW p \in Processes, NEW fd, NEW d,
             descriptors' = [descriptors EXCEPT ![p][fd] = d]
      PROVE  Kept(q, f) \/ (descriptors'[q][f] = d /\ q = p /\ f = fd)
  BY <1>0, <1>2 DEF Kept
<1>3. ASSUME NEW p \in Processes, NEW k, NEW path \in Seq(Parts), NEW w, Describe(p, k, path, w)
      PROVE  Kept(q, f) \/ (k = "File" /\ descriptors'[q][f].path = path)
  <2>1. PICK fd, d : /\ fd = Min(FreeFds(p))
                     /\ d = [kind |-> k, path |-> path, position |-> 0, writable |-> w]
    OBVIOUS
  <2>2. descriptors' = [descriptors EXCEPT ![p][fd] = d]
    BY <1>3, <2>1 DEF Describe
  <2>3. d.kind = k /\ d.path = path
    BY <2>1
  <2> QED BY <1>2, <2>2, <2>3
<1>4. ASSUME NEW p \in Processes, PathNext(p) PROVE Kept(q, f) \/ Opened(q, f)
  <2>1. PICK path \in Seq(Parts) :
          \/ Chdir(p, path) \/ OpenDirectory(p, path)
          \/ \E w \in BOOLEAN : \/ OpenCreatesOnly(p, path, w)
                                \/ \E c \in BOOLEAN : OpenFile(p, path, w, c)
    BY <1>4, GivenPaths
  <2>2. CASE Chdir(p, path)
    BY <1>1, <2>2 DEF Chdir
  <2>3. CASE OpenDirectory(p, path)
    BY <1>3, <2>3 DEF OpenDirectory
  <2>4. ASSUME NEW w \in BOOLEAN, OpenCreatesOnly(p, path, w) PROVE Kept(q, f)
    BY <2>4 DEF OpenCreatesOnly, Kept
  <2>5. ASSUME NEW w \in BOOLEAN, NEW c \in BOOLEAN, OpenFile(p, path, w, c)
        PROVE  Kept(q, f) \/ Opened(q, f)
    BY <1>3, <2>5 DEF OpenFile, Opened
  <2> QED BY <2>1, <2>2, <2>3, <2>4, <2>5
<1>5. ASSUME NEW p \in Processes, FdNext(p) PROVE Kept(q, f)
  <2>1. PICK fd \in Fds :
          \/ ReadDirectory(p, fd) \/ Close(p, fd)
          \/ \E n \in 0 .. MAX_RAM_FILE_SIZE :
               \/ ReadFile(p, fd, n)
               \/ \E bytes \in [1 .. n -> Byte] : Write(p, fd, bytes)
          \/ \E offset \in -1 .. 1, whence \in 0 .. 2 : Seek(p, fd, offset, whence)
    BY <1>5 DEF FdNext
  <2>2. ASSUME NEW position, descriptors' = [descriptors EXCEPT ![p][fd].position = position]
        PROVE  Kept(q, f)
    BY <2>2, PositionKeepsPath DEF FilesInv
  <2>3. ASSUME NEW count, descriptors' = [descriptors EXCEPT ![p][fd].position = @ + count]
        PROVE  Kept(q, f)
    <3>1. PICK position : position = descriptors[p][fd].position + count
      OBVIOUS
    <3>2. descriptors' = [descriptors EXCEPT ![p][fd].position = position]
      BY <1>0, <2>3, <3>1
    <3> QED BY <2>2, <3>2
  <2>4. CASE ReadDirectory(p, fd)
    BY <2>3, <2>4 DEF ReadDirectory, Advance
  <2>5. CASE Close(p, fd)
    <3>1. descriptors' = [descriptors EXCEPT ![p][fd] = EMPTY]
      BY <2>5 DEF Close
    <3>2. EMPTY.kind # "File"
      BY DEF EMPTY
    <3> QED BY <1>2, <3>1, <3>2
  <2>6. ASSUME NEW n, ReadFile(p, fd, n) PROVE Kept(q, f)
    BY <2>3, <2>6 DEF ReadFile, Advance
  <2>7. ASSUME NEW bytes, Write(p, fd, bytes) PROVE Kept(q, f)
    BY <2>3, <2>7 DEF Write
  <2>8. ASSUME NEW offset, NEW whence, Seek(p, fd, offset, whence) PROVE Kept(q, f)
    BY <2>2, <2>8 DEF Seek
  <2> QED BY <2>1, <2>4, <2>5, <2>6, <2>7, <2>8
<1>6. ASSUME NEW p \in Processes, Spawn(p) PROVE Kept(q, f)
  <2>1. descriptors' = [descriptors EXCEPT ![p] = [fd \in Fds |-> EMPTY]]
    BY <1>6 DEF Spawn
  <2>2. q # p
    BY <1>0, <2>1 DEF EMPTY
  <2> QED BY <1>0, <2>1, <2>2 DEF Kept
<1> QED BY <1>1, <1>4, <1>5, <1>6 DEF Next, vars

\* The invariant: every path in a descriptor leads to a file.
PathsLead == \A path \in OpenPaths : Opens(path)

LEMMA OpenPathsAre ==
  /\ \A path \in OpenPaths :
       \E p \in Processes, fd \in Fds :
         descriptors[p][fd].kind = "File" /\ descriptors[p][fd].path = path
  /\ \A p \in Processes, fd \in Fds :
       descriptors[p][fd].kind = "File" => descriptors[p][fd].path \in OpenPaths
<1>1. ASSUME NEW path \in OpenPaths
      PROVE  \E p \in Processes, fd \in Fds :
               descriptors[p][fd].kind = "File" /\ descriptors[p][fd].path = path
  BY <1>1 DEF OpenPaths
<1>2. ASSUME NEW p \in Processes, NEW fd \in Fds, descriptors[p][fd].kind = "File"
      PROVE  descriptors[p][fd].path \in OpenPaths
  BY <1>2 DEF OpenPaths
<1> QED BY <1>1, <1>2

LEMMA PathsLeadStep == ASSUME FilesInv, PathsLead, [Next]_vars PROVE PathsLead'
<1> SUFFICES ASSUME NEW path \in OpenPaths' PROVE Opens(path)'
  BY DEF PathsLead
<1>1. PICK p \in Processes, fd \in Fds :
        descriptors'[p][fd].kind = "File" /\ descriptors'[p][fd].path = path
  BY DEF OpenPaths
<1>2. CASE Kept(p, fd)
  BY <1>1, <1>2, OpenPathsAre, LookupStays DEF Kept, PathsLead
<1>3. CASE Opened(p, fd)
  BY <1>1, <1>3, OpenedLeads DEF Opened
<1> QED BY <1>1, <1>2, <1>3, DescriptorOrigin

\* What a program looks up again in each call stays where it was while other
\* processes create files.  A descriptor, which is only a path to the kernel,
\* leads to the file it was opened on until it is closed, as names are unique,
\* no file goes away and boot files come first.  Reading a directory by index
\* neither skips nor repeats an entry: create() takes slots in order and none is
\* ever given back, so that the index-th file in use is that of slot index.
THEOREM LookupsStay == Spec => LookupsStable
<1>1. ASSUME FilesInv, [Next]_vars
      PROVE  /\ Len(Listing) <= Len(Listing')
             /\ \A i \in 1 .. Len(Listing) : Listing'[i].name = Listing[i].name
  <2>1. PICK n \in Nat : /\ Used(RAM_FILES) = 1 .. n
                         /\ Listing = [i \in 1 .. n |-> RAM_FILES[i]]
    BY <1>1, ListingFacts, ListingIs DEF FilesInv
  <2>2. TableOK(RAM_FILES')
    BY <1>1, FilesInvStep DEF FilesInv
  <2>3. PICK m \in Nat : /\ Used(RAM_FILES') = 1 .. m
                         /\ Listing' = [i \in 1 .. m |-> RAM_FILES'[i]]
    BY <2>2, ListingFacts, ListingIs
  <2>4. Len(Listing) = n /\ Len(Listing') = m
    BY <2>1, <2>3
  <2>5. \A i \in 1 .. n : i \in 1 .. m /\ RAM_FILES'[i].name = RAM_FILES[i].name
    BY <1>1, <2>1, <2>3, UsedSlotsStay DEF Used
  <2>6. n <= m
    BY <2>5
  <2> QED BY <2>1, <2>3, <2>4, <2>5, <2>6
<1>2. ASSUME FilesInv, PathsLead, [Next]_vars
      PROVE  \A path \in OpenPaths :
               \E file \in 0 .. MAX_RAM_FILES : Lookup(path) = {file} /\ Lookup(path)' = {file}
  BY <1>2, LookupStays DEF PathsLead
<1>3. Init => PathsLead
  <2> SUFFICES ASSUME Init PROVE OpenPaths = {}
    BY DEF PathsLead
  <2>1. \A p \in Processes, fd \in Fds : descriptors[p][fd].kind # "File"
    BY DEF Init, EMPTY
  <2> QED BY <2>1, OpenPathsAre
<1> QED BY <1>1, <1>2, <1>3, FilesInvInit, FilesInvStep, PathsLeadStep, PTL
     DEF Spec, LookupsStable
=============================================================================
