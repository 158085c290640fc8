---------------------------- MODULE DeviceProofs ----------------------------
(***************************************************************************)
(* Theorems about terminals and drivers.  The ring buffer implements a     *)
(* bounded queue, for every capacity, and a pty made of two such queues    *)
(* never shows a byte of an earlier session.  The drivers of modules Sata  *)
(* and VirtioRandom, whose devices answer when they like, pass on what     *)
(* they asked for, for every set of commands, size of the buffer and of    *)
(* the rings, and number of requests.  The screen is the picture of the    *)
(* active terminal, for every number and size of terminals and every text. *)
(***************************************************************************)
EXTENDS Ring, Pty, Sata, VirtioRandom, Console, LoopLemmas, SequenceTheorems

-----------------------------------------------------------------------------
(***************************************************************************)
(* Rings and pseudo-terminals.                                             *)
(***************************************************************************)

\* One wrap around the array.
LEMMA Wrap ==
  ASSUME NEW c \in Nat \ {0}, NEW a \in Nat, a < 2 * c
  PROVE  a % c = (IF a < c THEN a ELSE a - c)
  OBVIOUS

\* Where the i-th waiting byte is.
Place(h, i) == (h + i) % RING_CAPACITY

\* Places are indices of the array, and those of one lap are distinct.
LEMMA PlaceFacts ==
  ASSUME NEW h \in Index, NEW i \in 0 .. RING_CAPACITY
  PROVE  /\ Place(h, i) \in Index
         /\ \A j \in 0 .. RING_CAPACITY :
              j < i /\ i - j < RING_CAPACITY => Place(h, i) # Place(h, j)
         /\ i < RING_CAPACITY => Place(Place(h, 1), i) = Place(h, i + 1)
<1> USE RingAssumption DEF Index
<1>0. ASSUME NEW a \in Index, NEW k \in 0 .. RING_CAPACITY
      PROVE  Place(a, k) = IF a + k < RING_CAPACITY THEN a + k ELSE (a + k) - RING_CAPACITY
  <2>1. a + k \in Nat /\ a + k < 2 * RING_CAPACITY
    OBVIOUS
  <2>2. (a + k) % RING_CAPACITY
          = IF a + k < RING_CAPACITY THEN a + k ELSE (a + k) - RING_CAPACITY
    <3> HIDE DEF Index
    <3> DEFINE s == a + k
    <3>1. s \in Nat /\ s < 2 * RING_CAPACITY
      BY <2>1
    <3> HIDE DEF s
    <3>2. s % RING_CAPACITY = IF s < RING_CAPACITY THEN s ELSE s - RING_CAPACITY
      BY <3>1, Wrap
    <3> QED BY <3>2, Zenon DEF s
  <2> QED BY <2>2 DEF Place
<1>1. \A k \in 0 .. RING_CAPACITY :
        Place(h, k) = IF h + k < RING_CAPACITY THEN h + k ELSE h + k - RING_CAPACITY
  BY <1>0
<1>2. RING_CAPACITY >= 1 /\ 1 \in 0 .. RING_CAPACITY
  OBVIOUS
<1>3. Place(h, 1) \in Index
  BY <1>1, <1>2
<1>4. i < RING_CAPACITY =>
        Place(Place(h, 1), i) = IF Place(h, 1) + i < RING_CAPACITY THEN Place(h, 1) + i
                                ELSE Place(h, 1) + i - RING_CAPACITY
  BY <1>0, <1>3
<1> QED BY <1>1, <1>2, <1>3, <1>4

\* The waiting bytes form a sequence of bytes.
Waiting(b, h, n) == [i \in 1 .. n |-> b[(h + i - 1) % RING_CAPACITY]]
LEMMA WaitingType ==
  ASSUME NEW b \in [Index -> Byte], NEW h \in Index, NEW n \in 0 .. RING_CAPACITY
  PROVE  /\ Waiting(b, h, n) \in Seq(Byte) /\ Len(Waiting(b, h, n)) = n
         /\ \A i \in 1 .. n : Waiting(b, h, n)[i] = b[Place(h, i - 1)]
<1> USE RingAssumption
<1>1. ASSUME NEW i \in 1 .. n
      PROVE  (h + i - 1) % RING_CAPACITY = Place(h, i - 1) /\ Place(h, i - 1) \in Index
  <2>1. i - 1 \in 0 .. RING_CAPACITY /\ h + i - 1 = h + (i - 1)
    BY DEF Index
  <2> QED BY <2>1, PlaceFacts DEF Place
<1>2. Waiting(b, h, n) = [i \in 1 .. n |-> b[(h + i - 1) % RING_CAPACITY]]
  BY DEF Waiting
<1>3. \A i \in 1 .. n : b[(h + i - 1) % RING_CAPACITY] \in Byte
  BY <1>1
<1>4. Waiting(b, h, n) \in [1 .. n -> Byte]
  BY <1>2, <1>3
<1>5. Waiting(b, h, n) \in Seq(Byte) /\ Len(Waiting(b, h, n)) = n
  BY <1>4
<1> QED BY <1>1, <1>2, <1>5

\* The type invariant is inductive.
LEMMA RingTypeStep == RingTypeOK /\ [RingNext]_ringVars => RingTypeOK'
<1> SUFFICES ASSUME RingTypeOK, [RingNext]_ringVars PROVE RingTypeOK'
  OBVIOUS
<1> USE RingAssumption DEF RingTypeOK
<1>1. CASE reset
  BY <1>1 DEF reset, Index
<1>2. CASE pop
  <2>1. Place(head, 1) \in Index
    BY PlaceFacts
  <2> QED BY <1>2, <2>1 DEF pop, Place
<1>3. ASSUME NEW b \in Byte, push(b) PROVE RingTypeOK'
  <2>1. Place(head, count) \in Index
    BY PlaceFacts
  <2>2. buffer' = [buffer EXCEPT ![Place(head, count)] = b] /\ head' = head
        /\ count' = count + 1 /\ count # RING_CAPACITY
    BY <1>3 DEF push, Place
  <2> QED BY <2>1, <2>2
<1>4. CASE UNCHANGED ringVars
  BY <1>4 DEF ringVars
<1> QED BY <1>1, <1>2, <1>3, <1>4 DEF RingNext

\* Every step of the ring is a step of the queue, or changes nothing in it.
LEMMA RingStep ==
  ASSUME RingTypeOK, [RingNext]_ringVars
  PROVE  [Queue!Next]_Contents
<1> USE RingAssumption
<1>t. RingTypeOK'
  BY RingTypeStep
<1>c. /\ Contents = Waiting(buffer, head, count)
      /\ Contents' = Waiting(buffer', head', count')
  BY DEF Contents, Waiting
<1>k. count \in Nat /\ count' \in Nat
  BY <1>t DEF RingTypeOK
<1>d. /\ Contents \in Seq(Byte) /\ Len(Contents) = count
      /\ \A i \in 1 .. count : Contents[i] = buffer[Place(head, i - 1)]
  BY <1>c, WaitingType DEF RingTypeOK
<1>e. /\ Contents' \in Seq(Byte) /\ Len(Contents') = count'
      /\ \A i \in 1 .. count' : Contents'[i] = buffer'[Place(head', i - 1)]
  BY <1>c, <1>t, WaitingType DEF RingTypeOK
<1>1. CASE reset
  <2>1. Contents' = <<>>
    BY <1>1, <1>e, EmptySeq DEF reset
  <2> QED BY <2>1 DEF Queue!Next, Queue!Reset
<1>2. CASE pop
  <2>1. /\ head' = Place(head, 1) /\ count' = count - 1 /\ buffer' = buffer
        /\ count \in 1 .. RING_CAPACITY /\ head \in Index
    BY <1>2 DEF pop, RingTypeOK, Place
  <2>2. Contents # <<>> /\ Tail(Contents) \in Seq(Byte) /\ Len(Tail(Contents)) = count - 1
    BY <1>d, <2>1, EmptySeq
  <2>3. ASSUME NEW i \in 1 .. (count - 1) PROVE Contents'[i] = Tail(Contents)[i]
    <3>1. i - 1 \in 0 .. RING_CAPACITY /\ i - 1 < RING_CAPACITY /\ (i - 1) + 1 = i
      BY <2>1
    <3>2. Place(Place(head, 1), i - 1) = Place(head, i)
      BY <2>1, <3>1, PlaceFacts
    <3>3. Contents'[i] = buffer[Place(head, i)]
      BY <1>e, <2>1, <3>2
    <3>4. Tail(Contents)[i] = Contents[i + 1]
      BY <1>d, <2>1, <2>2
    <3>5. Contents[i + 1] = buffer[Place(head, i)]
      BY <1>d, <2>1
    <3> QED BY <3>3, <3>4, <3>5
  <2>4. Contents' = Tail(Contents)
    BY <1>e, <2>1, <2>2, <2>3, SeqEqual
  <2> QED BY <2>2, <2>4 DEF Queue!Next, Queue!Pop
<1>3. ASSUME NEW b \in Byte, push(b) PROVE Queue!Push(b)
  <2>1. /\ buffer' = [buffer EXCEPT ![Place(head, count)] = b]
        /\ count' = count + 1 /\ head' = head
        /\ count \in 0 .. (RING_CAPACITY - 1) /\ head \in Index
        /\ buffer \in [Index -> Byte]
    BY <1>3 DEF push, RingTypeOK, Place
  <2>2. Append(Contents, b) \in Seq(Byte) /\ Len(Append(Contents, b)) = count + 1
    BY <1>d
  <2>3. ASSUME NEW i \in 1 .. (count + 1) PROVE Contents'[i] = Append(Contents, b)[i]
    <3>1. Contents'[i] = buffer'[Place(head, i - 1)]
      BY <1>e, <2>1
    <3>2. Place(head, count) \in Index /\ Place(head, i - 1) \in Index
      BY <2>1, PlaceFacts
    <3>3. CASE i = count + 1
      <4>1. Append(Contents, b)[i] = b
        BY <1>d, <3>3
      <4>2. i - 1 = count
        BY <1>k, <3>3
      <4>3. Contents'[i] = b
        BY <2>1, <3>1, <3>2, <4>2
      <4> QED BY <4>1, <4>3
    <3>4. CASE i \in 1 .. count
      <4>1. Place(head, count) # Place(head, i - 1)
        BY <2>1, <3>4, PlaceFacts
      <4>2. buffer'[Place(head, i - 1)] = buffer[Place(head, i - 1)]
        BY <2>1, <3>2, <4>1
      <4>3. Append(Contents, b)[i] = Contents[i]
        BY <1>d, <3>4
      <4>4. Contents[i] = buffer[Place(head, i - 1)]
        BY <1>d, <3>4
      <4> QED BY <3>1, <4>2, <4>3, <4>4
    <3>5. i = count + 1 \/ i \in 1 .. count
      BY <1>k
    <3> QED BY <3>3, <3>4, <3>5, Zenon
  <2>4. Contents' = Append(Contents, b)
    BY <1>e, <2>1, <2>2, <2>3, SeqEqual
  <2> QED BY <1>d, <2>1, <2>4 DEF Queue!Push
<1>4. CASE UNCHANGED ringVars
  BY <1>4 DEF ringVars, Contents
<1> QED BY <1>1, <1>2, <1>3, <1>4 DEF RingNext, Queue!Next

\* The ring is a bounded first-in first-out queue, for every capacity.
THEOREM RingImplementsQueue == RingSpec => ImplementsQueue
<1>1. RingInit => RingTypeOK
  BY RingAssumption DEF RingInit, RingTypeOK, Index
<1>2. RingInit => Queue!Init
  <2> SUFFICES ASSUME RingInit PROVE Contents = <<>>
    BY DEF Queue!Init
  <2>1. Contents = Waiting(buffer, head, count) /\ count = 0
    BY DEF Contents, Waiting, RingInit
  <2> QED BY <1>1, <2>1, WaitingType, EmptySeq DEF RingTypeOK
<1> QED BY <1>1, <1>2, RingTypeStep, RingStep, PTL DEF RingSpec, ImplementsQueue, Queue!Spec

-----------------------------------------------------------------------------
(***************************************************************************)
(* Sessions.                                                               *)
(***************************************************************************)
PtyRecords ==
  [allocated : BOOLEAN, owner : Pids \cup {NoOwner}, to_master : Seq(Nat), to_slave : Seq(Nat)]

PtyTypeOK ==
  /\ ptys \in [PtyIds -> PtyRecords]
  /\ console \in [Pids -> PtyIds \cup {Tty}]
  /\ session \in [PtyIds -> Nat]

Fresh(ring, s) == ring \in Seq(Nat) /\ \A i \in 1 .. Len(ring) : ring[i] = s

\* FreshSession, without a bound on the length of the rings.
PtyInv ==
  /\ PtyTypeOK
  /\ \A id \in PtyIds : ptys[id].allocated =>
       Fresh(ptys[id].to_master, session[id]) /\ Fresh(ptys[id].to_slave, session[id])

\* Writing within a session and reading keep a ring within that session.
LEMMA FreshRings ==
  ASSUME NEW s \in Nat, NEW ring, Fresh(ring, s), NEW n \in Nat
  PROVE  Fresh(PushAll(ring, n, s), s) /\ Fresh(PopUpTo(ring, n), s) /\ Fresh(Reset(ring), s)
<1>1. ring \in Seq(Nat) /\ Len(ring) \in Nat /\ \A i \in 1 .. Len(ring) : ring[i] = s
  BY DEF Fresh
<1>2. ASSUME NEW k \in Int PROVE Fresh(ring \o [i \in 1 .. k |-> s], s)
  <2> DEFINE more == [i \in 1 .. k |-> s]
  <2>0. PICK m \in Nat : m = IF k < 0 THEN 0 ELSE k
    OBVIOUS
  <2>1. more = [i \in 1 .. m |-> s] 
    <3>1. 1 .. k = 1 .. m
      BY <2>0
    <3> QED BY <3>1
  <2>2. more \in Seq(Nat) /\ Len(more) = m
    <3>1. more \in [1 .. m -> Nat] /\ DOMAIN more = 1 .. m
      BY <2>1
    <3>2. more \in Seq(Nat)
      BY <3>1, SeqDef
    <3>3. Len(more) \in Nat /\ 1 .. Len(more) = 1 .. m
      BY <3>1, <3>2, LenProperties
    <3>4. \A a, b \in Nat : 1 .. a = 1 .. b => a = b
      <4> SUFFICES ASSUME NEW a \in Nat, NEW b \in Nat, 1 .. a = 1 .. b, a # b PROVE FALSE
        OBVIOUS
      <4>1. \A i \in Int : i \in 1 .. a <=> i \in 1 .. b
        OBVIOUS
      <4> QED BY <4>1
    <3> QED BY <3>2, <3>3, <3>4
  <2>3. \A i \in 1 .. m : more[i] = s
    BY <2>1
  <2> HIDE DEF more
  <2>4. /\ ring \o more \in Seq(Nat) /\ Len(ring \o more) = Len(ring) + m
        /\ \A i \in 1 .. Len(ring) + m :
             (ring \o more)[i] = IF i <= Len(ring) THEN ring[i] ELSE more[i - Len(ring)]
    BY <1>1, <2>2, ConcatProperties
  <2>5. \A i \in 1 .. Len(ring) + m : (ring \o more)[i] = s
    BY <1>1, <2>3, <2>4
  <2>6. Fresh(ring \o more, s)
    BY <2>4, <2>5 DEF Fresh
  <2> QED BY <2>6 DEF more
<1>3. ASSUME NEW k \in Nat, k <= Len(ring) PROVE Fresh(SubSeq(ring, k + 1, Len(ring)), s)
  BY <1>1, <1>3 DEF Fresh
<1>4. ASSUME NEW a \in Int, NEW b \in Int
      PROVE  Min({a, b}) = IF a <= b THEN a ELSE b
  BY DEF Min
<1>5. Fresh(PushAll(ring, n, s), s)
  <2>1. Min({n, RING_CAPACITY - Len(ring)}) \in Int
    BY <1>1, <1>4, RingAssumption
  <2> QED BY <1>2, <2>1 DEF PushAll
<1>6. Fresh(PopUpTo(ring, n), s)
  <2>1. Min({n, Len(ring)}) \in Nat /\ Min({n, Len(ring)}) <= Len(ring)
    BY <1>1, <1>4
  <2> QED BY <1>3, <2>1 DEF PopUpTo
<1>7. Fresh(Reset(ring), s)
  BY DEF Reset, Fresh
<1> QED BY <1>5, <1>6, <1>7

\* What a step makes of the rings of a pty.
LEMMA PtyUpdate ==
  ASSUME PtyInv, NEW id \in PtyIds, NEW m, NEW l, Fresh(m, session'[id]), Fresh(l, session'[id]),
         NEW a \in BOOLEAN, NEW o \in Pids \cup {NoOwner},
         ptys' = [ptys EXCEPT ![id] =
                    [allocated |-> a, owner |-> o, to_master |-> m, to_slave |-> l]],
         UNCHANGED console, session' \in [PtyIds -> Nat],
         \A x \in PtyIds : x # id => session'[x] = session[x]
  PROVE  PtyInv'
<1>1. PICK r : r = [allocated |-> a, owner |-> o, to_master |-> m, to_slave |-> l]
  OBVIOUS
<1>2. r \in PtyRecords /\ r.to_master = m /\ r.to_slave = l
  BY <1>1, Zenon DEF PtyRecords, Fresh
<1>3. ptys' \in [PtyIds -> PtyRecords] /\ ptys'[id] = r
      /\ \A x \in PtyIds : x # id => ptys'[x] = ptys[x]
  <2> HIDE DEF PtyRecords
  <2> QED BY <1>1, <1>2 DEF PtyInv, PtyTypeOK
<1>4. PtyTypeOK'
  BY <1>3 DEF PtyInv, PtyTypeOK
<1>5. ASSUME NEW x \in PtyIds, ptys'[x].allocated
      PROVE  Fresh(ptys'[x].to_master, session'[x]) /\ Fresh(ptys'[x].to_slave, session'[x])
  <2>1. CASE x = id
    BY <1>2, <1>3, <2>1
  <2>2. CASE x # id
    BY <1>3, <1>5, <2>2, Zenon DEF PtyInv
  <2> QED BY <2>1, <2>2
<1> QED BY <1>4, <1>5 DEF PtyInv

LEMMA PtyStep == PtyInv /\ [PtyNext]_ptyVars => PtyInv'
<1> SUFFICES ASSUME PtyInv, [PtyNext]_ptyVars PROVE PtyInv'
  OBVIOUS
<1>t. /\ ptys \in [PtyIds -> PtyRecords] /\ session \in [PtyIds -> Nat]
      /\ console \in [Pids -> PtyIds \cup {Tty}]
  BY DEF PtyInv, PtyTypeOK
<1>e. \A s : Fresh(<<>>, s)
  BY DEF Fresh
<1>1. ASSUME NEW p \in Pids, Open(p) PROVE PtyInv'
  <2>1. PICK id : id = Min({i \in PtyIds : ~ ptys[i].allocated})
    OBVIOUS
  <2>2. id \in PtyIds
    <3>1. {i \in PtyIds : ~ ptys[i].allocated} # {}
      BY <1>1 DEF Open
    <3>2. {i \in PtyIds : ~ ptys[i].allocated} \subseteq Nat
      BY DEF PtyIds
    <3> QED BY <2>1, <3>1, <3>2, MinIsLeast
  <2>3. /\ ptys' = [ptys EXCEPT ![id] =
                      [allocated |-> TRUE, owner |-> p, to_master |-> <<>>, to_slave |-> <<>>]]
        /\ session' = [session EXCEPT ![id] = @ + 1] /\ UNCHANGED console
    BY <1>1, <2>1 DEF Open, Reset
  <2>4. /\ session' \in [PtyIds -> Nat] /\ \A x \in PtyIds : x # id => session'[x] = session[x]
    BY <1>t, <2>2, <2>3
  <2> QED BY <1>e, <2>2, <2>3, <2>4, PtyUpdate
<1>2. ASSUME NEW p \in Pids, NEW id \in PtyIds, Close(p, id) PROVE PtyInv'
  <2>1. /\ ptys' = [ptys EXCEPT ![id] = [allocated |-> FALSE, owner |-> NoOwner,
                                         to_master |-> <<>>, to_slave |-> <<>>]]
        /\ UNCHANGED <<session, console>>
    BY <1>2 DEF Close, Reset
  <2>2. /\ session' \in [PtyIds -> Nat] /\ \A x \in PtyIds : x # id => session'[x] = session[x]
    BY <1>t, <2>1
  <2> QED BY <1>e, <2>1, <2>2, PtyUpdate
\* Traffic on an open pty replaces one of its rings.
<1>3. ASSUME NEW id \in PtyIds, ptys[id].allocated, NEW ring, Fresh(ring, session[id]),
             \/ ptys' = [ptys EXCEPT ![id].to_master = ring]
             \/ ptys' = [ptys EXCEPT ![id].to_slave = ring],
             UNCHANGED <<console, session>>
      PROVE  PtyInv'
  <2>1. PICK r : r = ptys[id]
    OBVIOUS
  <2>2. r \in PtyRecords
    BY <1>t, <2>1
  <2>3. /\ r.allocated \in BOOLEAN /\ r.owner \in Pids \cup {NoOwner}
        /\ Fresh(r.to_master, session[id]) /\ Fresh(r.to_slave, session[id])
    BY <1>3, <2>1, <2>2, Zenon DEF PtyRecords, PtyInv
  <2>4. \A A, O, M, S : r \in [allocated : A, owner : O, to_master : M, to_slave : S] =>
          /\ [r EXCEPT !.to_master = ring] = [allocated |-> r.allocated, owner |-> r.owner,
                                      to_master |-> ring, to_slave |-> r.to_slave]
          /\ [r EXCEPT !.to_slave = ring] = [allocated |-> r.allocated, owner |-> r.owner,
                                      to_master |-> r.to_master, to_slave |-> ring]
    OBVIOUS
  <2>5. /\ session' \in [PtyIds -> Nat] /\ \A x \in PtyIds : x # id => session'[x] = session[x]
        /\ session'[id] = session[id]
    BY <1>t, <1>3
  <2>6. CASE ptys' = [ptys EXCEPT ![id].to_master = ring]
    <3>1. ptys' = [ptys EXCEPT ![id] = [allocated |-> r.allocated, owner |-> r.owner,
                                        to_master |-> ring, to_slave |-> r.to_slave]]
      BY <2>1, <2>2, <2>4, <2>6, Zenon DEF PtyRecords
    <3> QED BY <1>3, <2>3, <2>5, <3>1, PtyUpdate
  <2>7. CASE ptys' = [ptys EXCEPT ![id].to_slave = ring]
    <3>1. ptys' = [ptys EXCEPT ![id] = [allocated |-> r.allocated, owner |-> r.owner,
                                        to_master |-> r.to_master, to_slave |-> ring]]
      BY <2>1, <2>2, <2>4, <2>7, Zenon DEF PtyRecords
    <3> QED BY <1>3, <2>3, <2>5, <3>1, PtyUpdate
  <2> QED BY <1>3, <2>6, <2>7
<1>4. ASSUME NEW id \in PtyIds, ptys[id].allocated, NEW n \in Nat
      PROVE  /\ Fresh(PushAll(ptys[id].to_master, n, session[id]), session[id])
             /\ Fresh(PushAll(ptys[id].to_slave, n, session[id]), session[id])
             /\ Fresh(PopUpTo(ptys[id].to_master, n), session[id])
             /\ Fresh(PopUpTo(ptys[id].to_slave, n), session[id])
  <2>1. Fresh(ptys[id].to_master, session[id]) /\ Fresh(ptys[id].to_slave, session[id])
    BY <1>4, Zenon DEF PtyInv
  <2>2. session[id] \in Nat
    BY <1>t
  <2> QED BY <2>1, <2>2, FreshRings
<1>5. ASSUME NEW p \in Pids, NEW id \in PtyIds, NEW n \in 1 .. RING_CAPACITY,
             ReadMaster(p, id, n) \/ WriteMaster(p, id, n)
      PROVE  PtyInv'
  <2>1. n \in Nat /\ ptys[id].allocated
    BY <1>5, RingAssumption DEF ReadMaster, WriteMaster, Owns
  <2> QED BY <1>3, <1>4, <1>5, <2>1 DEF ReadMaster, WriteMaster
<1>6. ASSUME NEW p \in Pids, NEW n \in 1 .. RING_CAPACITY, SlaveWrite(p, n) \/ SlavePollKey(p)
      PROVE  PtyInv'
  <2>1. PICK id : id = console[p]
    OBVIOUS
  <2>2. id \in PtyIds /\ ptys[id].allocated /\ n \in Nat /\ 1 \in Nat
    BY <1>t, <1>6, <2>1, RingAssumption DEF SlaveWrite, SlavePollKey
  <2> QED BY <1>3, <1>4, <1>6, <2>1, <2>2 DEF SlaveWrite, SlavePollKey
<1>7. ASSUME NEW p \in Pids, BindTty(p) \/ \E id \in PtyIds : AttachSlave(p, id) PROVE PtyInv'
  <2>1. UNCHANGED <<ptys, session>> /\ console' \in [Pids -> PtyIds \cup {Tty}]
    BY <1>7, <1>t DEF AttachSlave, BindTty
  <2> QED BY <2>1 DEF PtyInv, PtyTypeOK
<1>8. CASE UNCHANGED ptyVars
  BY <1>8 DEF ptyVars, PtyInv, PtyTypeOK
<1> QED
  <2>1. 1 \in 1 .. RING_CAPACITY
    BY RingAssumption
  <2> QED BY <1>1, <1>2, <1>5, <1>6, <1>7, <1>8, <2>1, Zenon DEF PtyNext

\* Whoever opens a pty only ever sees bytes of its own session, for every number
\* of ptys, processes and sessions and every ring size.
THEOREM SessionsAreFresh == PtySpec => []FreshSession
<1>1. PtyInit => PtyInv
  <2> SUFFICES ASSUME PtyInit PROVE PtyInv
    OBVIOUS
  <2>1. NoPty \in PtyRecords /\ ~ NoPty.allocated
    <3>1. <<>> \in Seq(Nat)
      BY EmptySeq
    <3> QED BY <3>1, Zenon DEF NoPty, PtyRecords
  <2>2. ptys = [id \in PtyIds |-> NoPty] /\ \A id \in PtyIds : ~ ptys[id].allocated
    BY <2>1, Zenon DEF PtyInit
  <2> HIDE DEF PtyRecords, NoPty
  <2>3. PtyTypeOK
    BY <2>1, <2>2 DEF PtyInit, PtyTypeOK
  <2> QED BY <2>2, <2>3 DEF PtyInv
<1>2. PtyInv => FreshSession
  BY DEF PtyInv, FreshSession, Fresh
<1> QED BY <1>1, <1>2, PtyStep, PTL DEF PtySpec

-----------------------------------------------------------------------------
(***************************************************************************)
(* The disk.                                                               *)
(***************************************************************************)

SataTypeOK ==
  /\ controller \in BOOLEAN /\ issued \in BOOLEAN /\ busy \in BOOLEAN /\ err \in BOOLEAN
  /\ call \in [at : {"idle", "ready?", "build", "issue", "done?"},
               command : Command \cup {NoCommand}]
  /\ call.at # "idle" => call.command \in Command
  /\ disk \in [at : {"boot", "absent", "idle", "working", "written", "finishing", "stopped"},
               command : Command \cup {NoCommand}]
  /\ abandoned \subseteq Command

Working == disk.at \in {"working", "written", "finishing"}

\* Commands whose data may turn up: those given up, the one the table is
\* written for, and none (a zeroed table, a zeroed buffer).
Current == IF call.at \in {"issue", "done?"} THEN {call.command} ELSE {}
Expected == abandoned \cup {NoCommand} \cup Current

\* The disk works only while PORT_CI is set, which is while the driver waits or
\* after it has given up.
IssuedForSomeone ==
  /\ Working => issued
  /\ issued => call.at = "done?" \/ abandoned # {}

\* What the driver put into the table, and what the disk took from it.
TableExpected ==
  /\ call.at \in {"issue", "done?"} => command_table = call.command
  /\ issued => command_table \in Expected
  /\ Working => disk.command \in Expected

\* What the disk wrote to the buffer since it was zeroed.
BufferExpected ==
  call.at \in {"build", "issue", "done?"} => data_buffer \in Expected \cup {call.command}

\* How far the only command has come, as long as none was given up.
OnlyCommand ==
  abandoned = {} /\ call.at = "done?" =>
    \/ issued /\ disk.at \in {"boot", "absent", "idle", "stopped"}
    \/ disk.at = "working" /\ disk.command = call.command
    \/ disk.at = "written" /\ data_buffer = call.command
    \/ disk.at = "finishing" /\ (err \/ data_buffer = call.command)
    \/ ~ issued /\ ~ Working /\ (err \/ data_buffer = call.command)

SataInv ==
  /\ SataTypeOK /\ IssuedForSomeone /\ TableExpected /\ BufferExpected /\ OnlyCommand
  /\ ReadsWhatItAsked

\* Every step of the driver and of the disk keeps the invariant.
LEMMA SataStep == SataInv /\ [SataNext]_sataVars => SataInv'
<1> SUFFICES ASSUME SataInv, [SataNext]_sataVars PROVE SataInv'
  OBVIOUS
<1> USE SataAssumption
    DEF SataInv, SataTypeOK, IssuedForSomeone, TableExpected, BufferExpected, OnlyCommand,
        ReadsWhatItAsked, Working, Expected, Current, driverVars, diskVars
<1>1. CASE SataInitialize
  BY <1>1 DEF SataInitialize, PortFound
<1>2. CASE SataTimeout
  BY <1>2 DEF SataTimeout, SataReturn, SataReturned, NoCall
<1>3. CASE SataPrepare
  BY <1>3 DEF SataPrepare
<1>4. CASE SataBuild
  BY <1>4 DEF SataBuild
<1>5. CASE SataIssue
  BY <1>5 DEF SataIssue
<1>6. CASE SataComplete
  BY <1>6 DEF SataComplete, SataReturn, SataReturned, NoCall
<1>7. CASE DiskFetch
  BY <1>7 DEF DiskFetch
<1>8. CASE DiskTransfer
  BY <1>8 DEF DiskTransfer
<1>9. CASE DiskStatus
  BY <1>9 DEF DiskStatus
<1>10. CASE DiskError
  BY <1>10 DEF DiskError
<1>11. CASE DiskFinish
  BY <1>11 DEF DiskFinish
<1>12. CASE DiskStops
  BY <1>12 DEF DiskStops
<1>13. ASSUME NEW command \in Command, SataCall(command) PROVE SataInv'
  BY <1>13 DEF SataCall, NoCall, NoOutcome, SataReturned
<1>14. ASSUME NEW command \in Command, SataNotFound(command) PROVE SataInv'
  BY <1>14 DEF SataNotFound, SataReturned
<1>15. CASE UNCHANGED sataVars
  BY <1>15 DEF sataVars
<1> QED
  BY <1>1, <1>2, <1>3, <1>4, <1>5, <1>6, <1>7, <1>8, <1>9, <1>10, <1>11, <1>12,
     <1>13, <1>14, <1>15 DEF SataNext

\* A read that succeeds has the sector it asked for, or, after a timeout, the
\* data of a command that was given up, or zeros; never anything else, whatever
\* the controller does and when.
THEOREM ReadsAreExpected == SataSpec => []ReadsWhatItAsked
<1>1. SataInit => SataInv
  <2> SUFFICES ASSUME SataInit PROVE SataInv
    OBVIOUS
  <2>1. call = [at |-> "idle", command |-> NoCommand] /\ outcome.status = "none"
    BY DEF SataInit, NoCall, NoOutcome, SataReturned
  <2>2. SataTypeOK
    <3>1. controller \in BOOLEAN /\ issued \in BOOLEAN /\ busy \in BOOLEAN /\ err \in BOOLEAN
      BY Zenon DEF SataInit
    <3>2. /\ call.at = "idle" /\ abandoned = {}
          /\ call \in [at : {"idle"}, command : {NoCommand}]
          /\ disk \in [at : {"boot"}, command : {NoCommand}]
      BY <2>1 DEF SataInit
    <3> QED BY <3>1, <3>2 DEF SataTypeOK
  <2>3. IssuedForSomeone /\ TableExpected /\ BufferExpected /\ OnlyCommand
    BY <2>1 DEF SataInit, IssuedForSomeone, TableExpected, BufferExpected, OnlyCommand, Working
  <2> QED BY <2>1, <2>2, <2>3 DEF SataInv, ReadsWhatItAsked
<1>2. SataInv => ReadsWhatItAsked
  BY DEF SataInv
<1> QED BY <1>1, <1>2, SataStep, PTL DEF SataSpec

-----------------------------------------------------------------------------
(***************************************************************************)
(* The entropy device.                                                     *)
(***************************************************************************)
Indices == 0 .. (IndexValues - 1)
Lengths == 0 .. PAGE_BYTES
Following(i) == (i + 1) % IndexValues
SlotOf(i) == i % VIRTIO_RING_SIZE

RandomTypeOK ==
  /\ fill \in [at : {"idle", "describe", "offer", "poll", "copy", "hardware"},
               length : Lengths, output : Seq(Int)]
  /\ descriptor \in Lengths
  /\ available_index \in Indices /\ used_index \in Indices
  /\ used \in [index : Indices, length : [RingSlots -> Lengths]]
  /\ page \in [1 .. PAGE_BYTES -> Nat]
  /\ device \in [at : {"waiting", "writing", "answering"}, next : Indices, length : Lengths]
  /\ answers \in Nat
  /\ filled.output \in Seq(Int)

\* Where fill() has copied bytes, and how many.
Progress ==
  /\ fill.at # "idle" => filled.output = <<>>
  /\ fill.at \in {"describe", "offer", "poll"} => fill.output = <<>>
  /\ fill.at # "idle" => fill.length # 0
  /\ fill.at = "copy" => Len(fill.output) < fill.length

PrefixWritten(n) == \A i \in 1 .. n : page[i] # Untouched

\* The device has written as many bytes of the page as any length in the used
\* ring says, and the driver copies no more than that.
OnlyWritten ==
  /\ \A slot \in RingSlots : PrefixWritten(used.length[slot])
  /\ device.at = "answering" => PrefixWritten(device.length)
  /\ fill.at = "copy" => PrefixWritten(fill.length)
  /\ \A i \in DOMAIN fill.output : fill.output[i] # Untouched
  /\ \A i \in DOMAIN filled.output : filled.output[i] # Untouched

\* The first n bytes of the page are of the last answer, of which no earlier
\* call has returned anything.
Newest(n) ==
  /\ \A i \in 1 .. n : page[i] = answers
  /\ \A h \in handedOut : h[1] < answers

\* Where the only request is that the device may know of: nowhere, offered and
\* not taken, with the device, or answered and not polled.
Settled == device.at = "waiting" /\ device.next = available_index /\ used.index = used_index
Offered ==
  device.at = "waiting" /\ Following(device.next) = available_index /\ used.index = used_index
AtDevice ==
  /\ device.at # "waiting" /\ device.next = available_index /\ used.index = used_index
  /\ device.at = "answering" => Newest(device.length)
Answered ==
  /\ device.at = "waiting" /\ device.next = available_index
  /\ used.index = Following(used_index)
  /\ Newest(used.length[SlotOf(used_index)])

\* As long as the driver has waited for every answer, driver and device agree on
\* whose turn it is, and what is copied is of an answer nobody has seen.
InStep ==
  /\ fill.at # "poll" => Settled
  /\ fill.at = "poll" => Offered \/ AtDevice \/ Answered
  /\ fill.at = "copy" =>
       Newest(fill.length) /\ \A i \in DOMAIN fill.output : fill.output[i] = answers
  /\ \A h \in handedOut : h[1] \in Int /\ h[1] <= answers
  /\ \A i \in DOMAIN filled.output :
       filled.output[i] # Hardware =>
         filled.output[i] = answers /\ \A h \in handedOut : h[1] < answers

RandomInv == RandomTypeOK /\ Progress /\ OnlyWritten /\ (~ timedOut => InStep)

\* Indices stay within their range, whatever they wrap at.
LEMMA IndexFacts ==
  \A i \in Indices : Following(i) \in Indices /\ SlotOf(i) \in RingSlots
BY VirtioRandomAssumption DEF Indices, Following, SlotOf, RingSlots

\* What the empty sequence and a prolonged one are.
LEMMA OutputFacts ==
  /\ <<>> \in Seq(Int) /\ DOMAIN <<>> = {} /\ Len(<<>>) = 0
  /\ \A s \in Seq(Int), e \in Int :
       /\ Append(s, e) \in Seq(Int) /\ Len(Append(s, e)) = Len(s) + 1
       /\ \A i \in 1 .. Len(s) + 1 : Append(s, e)[i] = IF i <= Len(s) THEN s[i] ELSE e
       /\ DOMAIN s = 1 .. Len(s) /\ DOMAIN Append(s, e) = 1 .. Len(s) + 1 /\ Len(s) \in Nat
OBVIOUS

\* What fill() returns when the CPU makes the bytes.
LEMMA HardwareFacts ==
  \A n \in Nat : LET output == [i \in 1 .. n |-> Hardware]
                 IN output \in Seq(Int) /\ \A i \in DOMAIN output : output[i] = -1
<1> SUFFICES ASSUME NEW n \in Nat
             PROVE LET output == [i \in 1 .. n |-> Hardware]
                   IN output \in Seq(Int) /\ \A i \in DOMAIN output : output[i] = -1
  OBVIOUS
<1> DEFINE output == [i \in 1 .. n |-> Hardware]
<1>1. output \in [1 .. n -> Int] /\ \A i \in DOMAIN output : output[i] = -1
  BY DEF Hardware
<1>2. output \in Seq(Int)
  BY <1>1, SeqDef
<1> QED BY <1>1, <1>2

\* Every step keeps the types.
LEMMA RandomTypeStep == RandomInv /\ [RandomNext]_randomVars => RandomTypeOK'
<1> SUFFICES ASSUME RandomInv, [RandomNext]_randomVars PROVE RandomTypeOK'
  OBVIOUS
<1>0. RandomTypeOK /\ Progress
  BY DEF RandomInv
<1>t. /\ <<>> \in Seq(Int) /\ 0 \in Lengths /\ \A n \in 1 .. PAGE_BYTES : n \in Lengths
  BY VirtioRandomAssumption DEF Lengths
<1>1. ASSUME NEW n \in 1 .. PAGE_BYTES, Fill(n) PROVE RandomTypeOK'
  <2>1. fill' \in [at : {"describe", "hardware"}, length : Lengths, output : {<<>>}]
    BY <1>1, <1>t DEF Fill
  <2>2. filled'.output = <<>>
    BY <1>1 DEF Fill, Nothing
  <2>3. fill' \in [at : {"idle", "describe", "offer", "poll", "copy", "hardware"},
                   length : Lengths, output : Seq(Int)]
    BY <2>1, <1>t
  <2>4. UNCHANGED <<descriptor, available_index, used, page, used_index, device, answers>>
    BY <1>1 DEF Fill, memory
  <2> QED BY <1>0, <2>2, <2>3, <2>4, <1>t DEF RandomTypeOK
<1>2. CASE FillNothing
  <2>1. filled'.output = <<>>
    BY <1>2 DEF FillNothing
  <2> QED BY <1>0, <1>2, <2>1, <1>t DEF FillNothing, RandomTypeOK, memory
<1>3. CASE Describe
  BY <1>0, <1>3 DEF Describe, RandomTypeOK
<1>4. CASE Offer
  BY <1>0, <1>4, IndexFacts DEF Offer, RandomTypeOK, Following
<1>5. CASE Poll
  BY <1>0, <1>5, IndexFacts DEF Poll, RandomTypeOK, Following, memory
<1>6. CASE PollTimesOut
  BY <1>0, <1>6 DEF PollTimesOut, RandomTypeOK, memory
<1>7. CASE Copy
  <2> DEFINE output == Append(fill.output, page[Len(fill.output) + 1])
  <2>1. /\ fill.at = "copy" /\ fill.output \in Seq(Int) /\ fill.length \in Lengths
        /\ Len(fill.output) < fill.length
    BY <1>0, <1>7 DEF Copy, RandomTypeOK, Progress
  <2>2. Len(fill.output) + 1 \in 1 .. PAGE_BYTES
    BY <2>1, OutputFacts, VirtioRandomAssumption DEF Lengths
  <2>3. page[Len(fill.output) + 1] \in Int
    BY <1>0, <2>2 DEF RandomTypeOK
  <2>4. output \in Seq(Int)
    BY <2>1, <2>3, OutputFacts
  <2>5. UNCHANGED <<descriptor, available_index, used, page, used_index, device, answers>>
    BY <1>7 DEF Copy, memory
  <2>6. \/ fill' = Idle /\ filled' = [ok |-> TRUE, output |-> output]
        \/ fill' = [fill EXCEPT !.output = output] /\ filled' = filled
    BY <1>7 DEF Copy, Finish
  <2> HIDE DEF output
  <2>7. filled'.output \in Seq(Int)
    BY <1>0, <2>4, <2>6 DEF RandomTypeOK
  <2>8. fill' \in [at : {"idle", "describe", "offer", "poll", "copy", "hardware"},
                   length : Lengths, output : Seq(Int)]
    <3>1. CASE fill' = Idle
      BY <1>t, <3>1 DEF Idle
    <3>2. CASE fill' = [fill EXCEPT !.output = output]
      BY <1>0, <2>4, <3>2 DEF RandomTypeOK
    <3> QED BY <2>6, <3>1, <3>2
  <2> QED BY <1>0, <2>5, <2>7, <2>8 DEF RandomTypeOK
<1>8. CASE FillHardware
  <2> DEFINE output == [i \in 1 .. fill.length |-> Hardware]
  <2>1. output \in Seq(Int)
    <3>1. fill.length \in Nat
      BY <1>0, VirtioRandomAssumption DEF RandomTypeOK, Lengths
    <3> QED BY <3>1, HardwareFacts
  <2>2. /\ UNCHANGED <<descriptor, available_index, used, page, used_index, device, answers>>
        /\ fill' = Idle
    BY <1>8 DEF FillHardware, Finish, memory
  <2>3. filled'.output \in {output, <<>>}
    BY <1>8 DEF FillHardware, Finish
  <2> HIDE DEF output
  <2>4. fill' \in [at : {"idle", "describe", "offer", "poll", "copy", "hardware"},
                   length : Lengths, output : Seq(Int)]
    BY <1>t, <2>2 DEF Idle
  <2> QED BY <1>0, <1>t, <2>1, <2>2, <2>3, <2>4 DEF RandomTypeOK
<1>9. CASE DeviceTakes
  BY <1>0, <1>9, IndexFacts DEF DeviceTakes, RandomTypeOK, Following, memory
<1>10. ASSUME NEW n \in 1 .. PAGE_BYTES, DeviceWrites(n) PROVE RandomTypeOK'
  <2>1. page' \in [1 .. PAGE_BYTES -> Nat] /\ answers' \in Nat
    BY <1>0, <1>10 DEF DeviceWrites, RandomTypeOK
  <2>2. device' \in [at : {"answering"}, next : Indices, length : Lengths]
    BY <1>0, <1>10, <1>t DEF DeviceWrites, RandomTypeOK
  <2>3. UNCHANGED <<fill, descriptor, available_index, used, used_index, filled>>
    BY <1>10 DEF DeviceWrites
  <2> QED BY <1>0, <2>1, <2>2, <2>3 DEF RandomTypeOK
<1>11. CASE DeviceAnswers
  <2>1. device' \in [at : {"waiting"}, next : Indices, length : Lengths]
    BY <1>0, <1>11, <1>t DEF DeviceAnswers, RandomTypeOK
  <2>2. used' \in [index : Indices, length : [RingSlots -> Lengths]]
    <3>1. /\ used.index \in Indices /\ device.length \in Lengths
          /\ used.length \in [RingSlots -> Lengths]
      BY <1>0 DEF RandomTypeOK
    <3> QED BY <1>11, <3>1, IndexFacts DEF DeviceAnswers, Following
  <2>3. UNCHANGED <<fill, descriptor, available_index, page, used_index, answers, filled>>
    BY <1>11 DEF DeviceAnswers
  <2> QED BY <1>0, <2>1, <2>2, <2>3 DEF RandomTypeOK
<1>12. CASE UNCHANGED randomVars
  BY <1>0, <1>12 DEF randomVars, RandomTypeOK, memory
<1> QED
  BY <1>1, <1>2, <1>3, <1>4, <1>5, <1>6, <1>7, <1>8, <1>9, <1>10, <1>11, <1>12 DEF RandomNext

\* The bytes of an output that FromDevice collects.
LEMMA FromDeviceFacts ==
  ASSUME NEW output, NEW h \in FromDevice(output)
  PROVE  \E i \in DOMAIN output : h[1] = output[i] /\ output[i] # Hardware
<1>1. PICK i \in DOMAIN output : h = <<output[i], i>>
  BY DEF FromDevice
<1>2. h \notin {<<Hardware, k>> : k \in DOMAIN output}
  BY DEF FromDevice
<1>3. output[i] # Hardware
  BY <1>1, <1>2
<1> QED BY <1>1, <1>3

\* The step of the loop that copies: one more byte, and the last one returns.
Copied == Append(fill.output, page[Len(fill.output) + 1])
LEMMA CopyEffect ==
  ASSUME RandomInv, Copy
  PROVE  /\ fill.at = "copy" /\ Copied \in Seq(Int) /\ Len(fill.output) \in Nat
         /\ Len(Copied) = Len(fill.output) + 1
         /\ Len(Copied) \in 1 .. fill.length /\ fill.length \in Lengths
         /\ DOMAIN Copied = 1 .. Len(Copied)
         /\ \A i \in 1 .. Len(Copied) :
              IF i <= Len(fill.output) THEN i \in DOMAIN fill.output /\ Copied[i] = fill.output[i]
                                       ELSE Copied[i] = page[Len(Copied)]
         /\ \/ /\ Len(Copied) = fill.length /\ fill'.at = "idle" /\ fill'.output = <<>>
               /\ filled'.output = Copied
            \/ /\ Len(Copied) < fill.length /\ fill'.at = "copy" /\ fill'.output = Copied
               /\ fill'.length = fill.length /\ UNCHANGED filled
<1>1. /\ fill.at = "copy" /\ fill.output \in Seq(Int) /\ fill.length \in Lengths
      /\ Len(fill.output) < fill.length
      /\ fill \in [at : {"copy"}, length : Lengths, output : Seq(Int)]
  BY DEF RandomInv, RandomTypeOK, Progress, Copy
<1>2. Len(fill.output) + 1 \in 1 .. fill.length /\ Len(fill.output) \in Nat
  BY <1>1, VirtioRandomAssumption DEF Lengths
<1>3. page[Len(fill.output) + 1] \in Int
  BY <1>1, <1>2, VirtioRandomAssumption DEF RandomInv, RandomTypeOK, Lengths
<1>4. /\ Copied \in Seq(Int) /\ Len(Copied) = Len(fill.output) + 1
      /\ \A i \in 1 .. Len(fill.output) + 1 :
           Copied[i] = IF i <= Len(fill.output) THEN fill.output[i] ELSE page[Len(fill.output) + 1]
      /\ DOMAIN fill.output = 1 .. Len(fill.output)
      /\ DOMAIN Copied = 1 .. Len(fill.output) + 1
  BY <1>1, <1>3, OutputFacts DEF Copied
<1>5. IF Len(Copied) = fill.length
      THEN fill' = Idle /\ filled' = [ok |-> TRUE, output |-> Copied]
      ELSE fill' = [fill EXCEPT !.output = Copied] /\ filled' = filled
  BY DEF Copy, Finish, Copied
<1>6. \/ /\ Len(Copied) = fill.length /\ fill'.at = "idle" /\ fill'.output = <<>>
         /\ filled'.output = Copied
      \/ /\ Len(Copied) < fill.length /\ fill'.at = "copy" /\ fill'.output = Copied
         /\ fill'.length = fill.length /\ UNCHANGED filled
  <2>1. CASE Len(Copied) = fill.length
    BY <1>5, <2>1 DEF Idle
  <2>2. CASE Len(Copied) # fill.length
    <3>1. Len(Copied) < fill.length
      BY <1>1, <1>2, <1>4, <2>2, VirtioRandomAssumption DEF Lengths
    <3> QED BY <1>1, <1>5, <2>2, <3>1
  <2> QED BY <2>1, <2>2
<1> QED BY <1>1, <1>2, <1>4, <1>6

\* The effect of the steps that end a call without the device.
LEMMA HardwareEffect ==
  ASSUME RandomInv, FillHardware
  PROVE  /\ fill.at = "hardware" /\ fill'.at = "idle" /\ fill'.output = <<>>
         /\ \A i \in DOMAIN filled'.output : filled'.output[i] = -1
<1> DEFINE output == [i \in 1 .. fill.length |-> Hardware]
<1>1. \A i \in DOMAIN output : output[i] = -1
  BY DEF Hardware
<1>2. fill' = Idle /\ fill.at = "hardware"
  BY DEF FillHardware, Finish
<1>3. filled'.output \in {output, <<>>}
  BY DEF FillHardware, Finish
<1> HIDE DEF output
<1> QED BY <1>1, <1>2, <1>3, OutputFacts DEF Idle

\* Every step keeps what is known of where fill() is.
LEMMA ProgressStep == RandomInv /\ [RandomNext]_randomVars => Progress'
<1> SUFFICES ASSUME RandomInv, [RandomNext]_randomVars PROVE Progress'
  OBVIOUS
<1>0. RandomTypeOK /\ Progress
  BY DEF RandomInv
<1>1. ASSUME NEW n \in 1 .. PAGE_BYTES, Fill(n) PROVE Progress'
  <2>1. fill'.at \in {"describe", "hardware"} /\ fill'.length = n /\ fill'.output = <<>>
    BY <1>1 DEF Fill
  <2>2. filled'.output = <<>>
    BY <1>1 DEF Fill, Nothing
  <2> QED BY <2>1, <2>2 DEF Progress
<1>2. CASE FillNothing
  BY <1>0, <1>2 DEF FillNothing, Progress
<1>3. CASE Describe
  BY <1>0, <1>3 DEF Describe, RandomTypeOK, Progress
<1>4. CASE Offer
  BY <1>0, <1>4 DEF Offer, RandomTypeOK, Progress
<1>5. CASE Poll
  <2>1. /\ fill'.at \in {"hardware", "copy"} /\ fill'.length = fill.length
        /\ fill'.output = fill.output /\ fill.at = "poll" /\ filled' = filled
    BY <1>0, <1>5 DEF Poll, RandomTypeOK
  <2>2. fill.length \in Nat \ {0} /\ fill.output = <<>> /\ filled.output = <<>>
    BY <1>0, <2>1, VirtioRandomAssumption DEF Progress, RandomTypeOK, Lengths
  <2>3. Len(fill'.output) = 0
    BY <2>1, <2>2, OutputFacts
  <2> QED BY <2>1, <2>2, <2>3 DEF Progress
<1>6. CASE PollTimesOut
  BY <1>0, <1>6 DEF PollTimesOut, RandomTypeOK, Progress
<1>7. CASE Copy
  <2>1. CASE fill'.at = "idle"
    BY <2>1 DEF Progress
  <2>2. CASE fill'.at # "idle"
    <3>1. /\ Len(Copied) < fill.length /\ fill'.at = "copy" /\ fill'.output = Copied
          /\ fill'.length = fill.length /\ filled' = filled /\ fill.at = "copy"
      BY <1>7, <2>2, CopyEffect
    <3> QED BY <1>0, <3>1 DEF Progress
  <2> QED BY <2>1, <2>2
<1>8. CASE FillHardware
  BY <1>8, HardwareEffect DEF Progress
<1>9. CASE DeviceTakes
  BY <1>0, <1>9 DEF DeviceTakes, Progress
<1>10. ASSUME NEW n \in 1 .. PAGE_BYTES, DeviceWrites(n) PROVE Progress'
  BY <1>0, <1>10 DEF DeviceWrites, Progress
<1>11. CASE DeviceAnswers
  BY <1>0, <1>11 DEF DeviceAnswers, Progress
<1>12. CASE UNCHANGED randomVars
  BY <1>0, <1>12 DEF randomVars, Progress
<1> QED
  BY <1>1, <1>2, <1>3, <1>4, <1>5, <1>6, <1>7, <1>8, <1>9, <1>10, <1>11, <1>12 DEF RandomNext

\* No step lets the driver see a byte of the page that was never written.
LEMMA OnlyWrittenStep == RandomInv /\ [RandomNext]_randomVars => OnlyWritten'
<1> SUFFICES ASSUME RandomInv, [RandomNext]_randomVars PROVE OnlyWritten'
  OBVIOUS
<1>0. RandomTypeOK /\ Progress /\ OnlyWritten
  BY DEF RandomInv
<1>1. ASSUME NEW n \in 1 .. PAGE_BYTES, Fill(n) PROVE OnlyWritten'
  <2>1. fill'.at # "copy" /\ fill'.output = <<>> /\ UNCHANGED <<used, page, device>>
    BY <1>1 DEF Fill, memory
  <2>2. filled'.output = <<>>
    BY <1>1 DEF Fill, Nothing
  <2> QED BY <1>0, <2>1, <2>2, OutputFacts DEF OnlyWritten, PrefixWritten
<1>2. CASE FillNothing
  <2>1. filled'.output = <<>> /\ UNCHANGED <<fill, used, page, device>>
    BY <1>2 DEF FillNothing, memory
  <2> QED BY <1>0, <2>1, OutputFacts DEF OnlyWritten, PrefixWritten
<1>3. CASE Describe
  BY <1>0, <1>3 DEF Describe, OnlyWritten, PrefixWritten, RandomTypeOK
<1>4. CASE Offer
  BY <1>0, <1>4 DEF Offer, OnlyWritten, PrefixWritten, RandomTypeOK
<1>5. CASE Poll
  <2> DEFINE given == used.length[SlotOf(used_index)]
  <2>1. given \in Lengths /\ PrefixWritten(given)
    BY <1>0, IndexFacts DEF OnlyWritten, RandomTypeOK
  <2>2. /\ fill' = [fill EXCEPT !.at = IF given < fill.length THEN "hardware" ELSE "copy"]
        /\ UNCHANGED <<used, page, device, filled>>
    BY <1>5 DEF Poll, SlotOf, memory
  <2> HIDE DEF given
  <2>3. /\ fill.length \in Lengths /\ fill'.length = fill.length /\ fill'.output = fill.output
        /\ fill'.at = "copy" => ~ (given < fill.length)
    BY <1>0, <2>2 DEF RandomTypeOK
  <2>4. fill'.at = "copy" => PrefixWritten(fill'.length)
    BY <2>1, <2>3, VirtioRandomAssumption DEF PrefixWritten, Lengths
  <2> QED BY <1>0, <2>2, <2>3, <2>4 DEF OnlyWritten, PrefixWritten
<1>6. CASE PollTimesOut
  BY <1>0, <1>6 DEF PollTimesOut, OnlyWritten, PrefixWritten, memory, RandomTypeOK
<1>7. CASE Copy
  <2>1. UNCHANGED <<used, page, device>>
    BY <1>7 DEF Copy, memory
  <2>2. fill.at = "copy" /\ PrefixWritten(fill.length) /\ Len(Copied) \in 1 .. fill.length
    BY <1>0, <1>7, CopyEffect DEF OnlyWritten
  <2>3. page[Len(Copied)] # Untouched
    BY <2>2 DEF PrefixWritten
  <2>4. \A i \in DOMAIN Copied : Copied[i] # Untouched
    BY <1>0, <1>7, <2>3, CopyEffect DEF OnlyWritten
  <2>5. CASE fill'.at = "idle" /\ fill'.output = <<>> /\ filled'.output = Copied
    BY <1>0, <2>1, <2>4, <2>5, OutputFacts DEF OnlyWritten, PrefixWritten
  <2>6. CASE fill'.output = Copied /\ fill'.length = fill.length /\ UNCHANGED filled
    BY <1>0, <2>1, <2>2, <2>4, <2>6 DEF OnlyWritten, PrefixWritten
  <2> QED BY <1>7, <2>5, <2>6, CopyEffect
<1>8. CASE FillHardware
  <2>1. UNCHANGED <<used, page, device>>
    BY <1>8 DEF FillHardware, memory
  <2>2. \A i \in DOMAIN filled'.output : filled'.output[i] # Untouched
    BY <1>8, HardwareEffect DEF Untouched
  <2>3. fill'.at = "idle" /\ fill'.output = <<>>
    BY <1>8, HardwareEffect
  <2> QED BY <1>0, <2>1, <2>2, <2>3, OutputFacts DEF OnlyWritten, PrefixWritten
<1>9. CASE DeviceTakes
  BY <1>0, <1>9 DEF DeviceTakes, OnlyWritten, PrefixWritten, memory
<1>10. ASSUME NEW n \in 1 .. PAGE_BYTES, DeviceWrites(n) PROVE OnlyWritten'
  <2>1. /\ \A i \in 1 .. PAGE_BYTES : page'[i] = IF i <= n THEN answers + 1 ELSE page[i]
        /\ UNCHANGED <<used, fill, filled>> /\ device'.length = n
    BY <1>0, <1>10 DEF DeviceWrites, RandomTypeOK
  <2>2. PrefixWritten(n)'
    BY <1>0, <2>1, VirtioRandomAssumption DEF PrefixWritten, Untouched, RandomTypeOK
  <2>3. \A k \in Lengths : PrefixWritten(k) => PrefixWritten(k)'
    BY <1>0, <2>1, VirtioRandomAssumption DEF PrefixWritten, Untouched, RandomTypeOK, Lengths
  <2>4. \A slot \in RingSlots : used.length[slot] \in Lengths
    BY <1>0 DEF RandomTypeOK
  <2>5. fill.length \in Lengths
    BY <1>0 DEF RandomTypeOK
  <2> QED BY <1>0, <2>1, <2>2, <2>3, <2>4, <2>5 DEF OnlyWritten
<1>11. CASE DeviceAnswers
  <2>1. /\ device.at = "answering" /\ device'.at = "waiting" /\ UNCHANGED <<fill, page, filled>>
        /\ \A slot \in RingSlots :
             used'.length[slot] \in {used.length[slot], device.length}
    BY <1>0, <1>11 DEF DeviceAnswers, RandomTypeOK
  <2>2. \A k : PrefixWritten(k)' <=> PrefixWritten(k)
    BY <2>1 DEF PrefixWritten
  <2>3. \A slot \in RingSlots : PrefixWritten(used'.length[slot])
    BY <1>0, <2>1 DEF OnlyWritten
  <2> QED BY <1>0, <2>1, <2>2, <2>3 DEF OnlyWritten
<1>12. CASE UNCHANGED randomVars
  BY <1>0, <1>12 DEF randomVars, OnlyWritten, PrefixWritten, memory
<1> QED
  BY <1>1, <1>2, <1>3, <1>4, <1>5, <1>6, <1>7, <1>8, <1>9, <1>10, <1>11, <1>12 DEF RandomNext

\* Every step but the one of a timeout keeps driver and device in step.
LEMMA InStepStep == RandomInv /\ [RandomNext]_randomVars => (~ timedOut => InStep)'
<1> SUFFICES ASSUME RandomInv, [RandomNext]_randomVars, ~ timedOut' PROVE InStep'
  OBVIOUS
<1>0. RandomTypeOK /\ Progress /\ RandomTypeOK'
  BY RandomTypeStep DEF RandomInv
<1>a. answers \in Nat /\ answers' \in Nat
  BY <1>0 DEF RandomTypeOK
<1>b. ASSUME handedOut' = handedOut \cup FromDevice(filled.output), answers' = answers, InStep
      PROVE  \A h \in handedOut' : h[1] \in Int /\ h[1] <= answers'
  <2> SUFFICES ASSUME NEW h \in FromDevice(filled.output)
               PROVE  h[1] \in Int /\ h[1] <= answers
    BY <1>b DEF InStep
  <2>1. h[1] = answers
    BY <1>b, FromDeviceFacts DEF InStep
  <2> QED BY <2>1, <1>a
<1>1. ASSUME NEW n \in 1 .. PAGE_BYTES, Fill(n) PROVE InStep'
  <2>1. ~ timedOut /\ InStep
    BY <1>1 DEF Fill, RandomInv
  <2>2. /\ fill'.at \in {"describe", "hardware"} /\ fill.at = "idle"
        /\ UNCHANGED <<available_index, used_index, used, device, answers>>
        /\ handedOut' = handedOut \cup FromDevice(filled.output)
    BY <1>1 DEF Fill, memory
  <2>3. filled'.output = <<>>
    BY <1>1 DEF Fill, Nothing
  <2>4. Settled'
    BY <2>1, <2>2 DEF InStep, Settled
  <2> QED BY <1>b, <2>1, <2>2, <2>3, <2>4, OutputFacts DEF InStep
<1>2. CASE FillNothing
  <2>1. ~ timedOut /\ InStep
    BY <1>2 DEF FillNothing, RandomInv
  <2>2. /\ fill.at = "idle" /\ filled'.output = <<>>
        /\ UNCHANGED <<fill, available_index, used_index, used, device, answers>>
        /\ handedOut' = handedOut \cup FromDevice(filled.output)
    BY <1>2 DEF FillNothing, memory
  <2>3. Settled'
    BY <2>1, <2>2 DEF InStep, Settled
  <2> QED BY <1>b, <2>1, <2>2, <2>3, OutputFacts DEF InStep
<1>3. CASE Describe
  <2>1. ~ timedOut /\ InStep
    BY <1>3 DEF Describe, RandomInv, history
  <2>2. /\ fill'.at = "offer" /\ fill.at = "describe"
        /\ UNCHANGED <<available_index, used_index, used, device, answers, filled, handedOut>>
    BY <1>0, <1>3 DEF Describe, RandomTypeOK, history
  <2> QED BY <2>1, <2>2 DEF InStep, Settled
<1>4. CASE Offer
  <2>1. ~ timedOut /\ InStep
    BY <1>4 DEF Offer, RandomInv, history
  <2>2. /\ fill'.at = "poll" /\ fill.at = "offer"
        /\ available_index' = Following(available_index)
        /\ UNCHANGED <<used_index, used, device, answers, filled, handedOut>>
    BY <1>0, <1>4 DEF Offer, RandomTypeOK, history, Following
  <2>3. Offered'
    BY <2>1, <2>2 DEF InStep, Settled, Offered, Following
  <2> QED BY <2>1, <2>2, <2>3 DEF InStep
<1>5. CASE Poll
  <2> DEFINE given == used.length[SlotOf(used_index)]
  <2>1. ~ timedOut /\ InStep
    BY <1>5 DEF Poll, RandomInv, history
  <2>2. /\ fill' = [fill EXCEPT !.at = IF given < fill.length THEN "hardware" ELSE "copy"]
        /\ used_index' = Following(used_index) /\ fill.at = "poll" /\ used.index # used_index
        /\ UNCHANGED <<available_index, used, page, device, answers, filled, handedOut>>
    BY <1>5 DEF Poll, SlotOf, Following, memory, history
  <2>3. Answered /\ given \in Lengths
    BY <1>0, <2>1, <2>2, IndexFacts DEF InStep, Offered, AtDevice, RandomTypeOK
  <2>4. Newest(given)
    BY <2>3 DEF Answered
  <2>5. Settled'
    BY <2>2, <2>3 DEF Answered, Settled
  <2> HIDE DEF given
  <2>6. /\ fill.length \in Lengths /\ fill'.length = fill.length /\ fill'.output = fill.output
        /\ fill'.at = "copy" => ~ (given < fill.length)
        /\ fill'.at \in {"hardware", "copy"} /\ fill.output = <<>>
    BY <1>0, <2>2 DEF RandomTypeOK, Progress
  <2>7. UNCHANGED <<page, answers, filled, handedOut>>
    BY <2>2
  <2>8. (fill.at = "copy" => Newest(fill.length))'
    <3>1. fill'.at = "copy" => 1 .. fill'.length \subseteq 1 .. given
      BY <2>3, <2>6, VirtioRandomAssumption DEF Lengths
    <3> QED BY <2>4, <2>7, <3>1 DEF Newest
  <2> QED BY <2>1, <2>5, <2>6, <2>7, <2>8, OutputFacts DEF InStep
<1>6. CASE PollTimesOut
  BY <1>6 DEF PollTimesOut
<1>7. CASE Copy
  <2>1. ~ timedOut /\ InStep
    BY <1>7 DEF Copy, RandomInv, history
  <2>2. UNCHANGED <<available_index, used_index, used, page, device, answers, handedOut>>
    BY <1>7 DEF Copy, memory, history
  <2>3. fill.at = "copy" /\ Newest(fill.length) /\ Len(Copied) \in 1 .. fill.length
    BY <1>7, <2>1, CopyEffect DEF InStep
  <2>4. page[Len(Copied)] = answers /\ \A h \in handedOut : h[1] < answers
    BY <2>3 DEF Newest
  <2>5. \A i \in DOMAIN Copied : Copied[i] = answers
    BY <1>7, <2>1, <2>3, <2>4, CopyEffect DEF InStep
  <2>6. Settled'
    BY <2>1, <2>2, <2>3 DEF InStep, Settled
  <2>7. CASE fill'.at = "idle" /\ fill'.output = <<>> /\ filled'.output = Copied
    BY <2>1, <2>2, <2>4, <2>5, <2>6, <2>7 DEF InStep
  <2>8. CASE /\ fill'.at = "copy" /\ fill'.output = Copied /\ fill'.length = fill.length
             /\ UNCHANGED filled
    BY <2>1, <2>2, <2>3, <2>5, <2>6, <2>8 DEF InStep, Newest
  <2> QED BY <1>7, <2>7, <2>8, CopyEffect
<1>8. CASE FillHardware
  <2>1. ~ timedOut /\ InStep
    BY <1>8 DEF FillHardware, RandomInv, history
  <2>2. UNCHANGED <<available_index, used_index, used, device, answers, handedOut>>
    BY <1>8 DEF FillHardware, memory, history
  <2>3. \A i \in DOMAIN filled'.output : filled'.output[i] = Hardware
    BY <1>8, HardwareEffect DEF Hardware
  <2>4. fill'.at = "idle" /\ fill.at = "hardware"
    BY <1>8, HardwareEffect
  <2>5. Settled'
    BY <2>1, <2>2, <2>4 DEF InStep, Settled
  <2> QED BY <2>1, <2>2, <2>3, <2>4, <2>5 DEF InStep
<1>9. CASE DeviceTakes
  <2>1. ~ timedOut /\ InStep
    BY <1>9 DEF DeviceTakes, RandomInv, history
  <2>2. /\ device.at = "waiting" /\ device.next # available_index
        /\ device'.at = "writing" /\ device'.next = Following(device.next)
        /\ UNCHANGED <<fill, available_index, used_index, used, page, answers, filled, handedOut>>
    BY <1>9 DEF DeviceTakes, Following, memory, history
  <2>3. fill.at = "poll" /\ Offered
    BY <2>1, <2>2 DEF InStep, Settled, AtDevice, Answered
  <2>4. AtDevice'
    BY <2>2, <2>3 DEF Offered, AtDevice
  <2> QED BY <2>1, <2>2, <2>3, <2>4 DEF InStep
<1>10. ASSUME NEW n \in 1 .. PAGE_BYTES, DeviceWrites(n) PROVE InStep'
  <2>1. ~ timedOut /\ InStep
    BY <1>10 DEF DeviceWrites, RandomInv, history
  <2>2. /\ device.at = "writing" /\ answers' = answers + 1
        /\ device' = [device EXCEPT !.at = "answering", !.length = n]
        /\ UNCHANGED <<fill, available_index, used_index, used, filled, handedOut>>
    BY <1>10 DEF DeviceWrites, history
  <2>3. fill.at = "poll" /\ AtDevice
    BY <2>1, <2>2 DEF InStep, Settled, Offered, Answered
  <2>4. /\ device'.at = "answering" /\ device'.length = n /\ device'.next = device.next
    BY <1>0, <2>2 DEF RandomTypeOK
  <2>5. \A i \in 1 .. n : page'[i] = answers'
    BY <1>0, <1>10, VirtioRandomAssumption DEF DeviceWrites, RandomTypeOK
  <2>6. \A h \in handedOut : h[1] \in Int /\ h[1] < answers' /\ h[1] <= answers'
    BY <2>1, <2>2, <1>a DEF InStep
  <2>7. AtDevice'
    BY <2>2, <2>3, <2>4, <2>5, <2>6 DEF AtDevice, Newest
  <2>8. filled'.output = <<>>
    BY <1>0, <2>2, <2>3 DEF Progress
  <2> QED BY <2>2, <2>3, <2>6, <2>7, <2>8, OutputFacts DEF InStep
<1>11. CASE DeviceAnswers
  <2>1. ~ timedOut /\ InStep
    BY <1>11 DEF DeviceAnswers, RandomInv, history
  <2>2. /\ device.at = "answering"
        /\ device' = [device EXCEPT !.at = "waiting", !.length = 0]
        /\ used' = [index |-> Following(used.index),
                    length |-> [used.length EXCEPT ![SlotOf(used.index)] = device.length]]
        /\ UNCHANGED <<fill, available_index, used_index, page, answers, filled, handedOut>>
    BY <1>11 DEF DeviceAnswers, Following, SlotOf, history
  <2>3. fill.at = "poll" /\ AtDevice
    BY <2>1, <2>2 DEF InStep, Settled, Offered, Answered
  <2>4. /\ device'.at = "waiting" /\ device'.next = device.next
    BY <1>0, <2>2 DEF RandomTypeOK
  <2>5. used'.index = Following(used_index) /\ used'.length[SlotOf(used_index)] = device.length
    BY <1>0, <2>2, <2>3, IndexFacts DEF RandomTypeOK, AtDevice
  <2>6. Newest(device.length)
    BY <2>2, <2>3 DEF AtDevice
  <2>7. Newest(used.length[SlotOf(used_index)])'
    BY <2>2, <2>5, <2>6 DEF Newest, SlotOf
  <2>8. Answered'
    BY <2>2, <2>3, <2>4, <2>5, <2>7 DEF AtDevice, Answered, Following
  <2> QED BY <2>1, <2>2, <2>3, <2>8 DEF InStep
<1>12. CASE UNCHANGED randomVars
  BY <1>12 DEF randomVars, memory, history, RandomInv, InStep, Settled, Offered, AtDevice,
               Answered, Newest
<1> QED
  BY <1>1, <1>2, <1>3, <1>4, <1>5, <1>6, <1>7, <1>8, <1>9, <1>10, <1>11, <1>12 DEF RandomNext

\* The invariant holds in the state initialize() leaves.
LEMMA RandomStart == RandomInit => RandomInv
<1> SUFFICES ASSUME RandomInit PROVE RandomInv
  OBVIOUS
<1>1. /\ fill = [at |-> "idle", length |-> 0, output |-> <<>>]
      /\ filled.output = <<>>
  BY DEF RandomInit, Idle, Nothing
<1>2. 0 \in Lengths /\ 0 \in Indices /\ <<>> \in Seq(Int) /\ DOMAIN <<>> = {}
  BY VirtioRandomAssumption DEF Lengths, Indices
<1>3. RandomTypeOK
  BY <1>1, <1>2 DEF RandomInit, RandomTypeOK, Untouched
<1>4. Progress /\ OnlyWritten
  BY <1>1, <1>2 DEF RandomInit, Progress, OnlyWritten, PrefixWritten
<1>5. InStep
  BY <1>1, <1>2 DEF RandomInit, InStep, Settled
<1> QED BY <1>3, <1>4, <1>5 DEF RandomInv

\* Every step of the driver and of the device keeps the invariant.
LEMMA RandomStep == RandomInv /\ [RandomNext]_randomVars => RandomInv'
BY RandomTypeStep, ProgressStep, OnlyWrittenStep, InStepStep DEF RandomInv

\* Whatever the device does, and however late, fill() returns with success only
\* bytes that the device has written or the CPU has made.
THEOREM RandomBytesOnly == RandomSpec => []OnlyRandomBytes
<1>1. RandomInv => OnlyRandomBytes
  BY DEF RandomInv, OnlyWritten, OnlyRandomBytes
<1> QED BY <1>1, RandomStart, RandomStep, PTL DEF RandomSpec

\* As long as the driver has given up no request, no byte of the device is
\* returned by two calls of fill(), for every size of the rings and wherever
\* their indices wrap.
THEOREM FreshBytes == RandomSpec => []FreshUnlessTimedOut
<1>1. RandomInv => FreshUnlessTimedOut
  <2> SUFFICES ASSUME RandomInv, ~ timedOut, NEW h \in FromDevice(filled.output), h \in handedOut
               PROVE  FALSE
    BY DEF FreshUnlessTimedOut
  <2>1. InStep /\ answers \in Nat
    BY DEF RandomInv, RandomTypeOK
  <2>2. h[1] = answers /\ \A k \in handedOut : k[1] < answers
    BY <2>1, FromDeviceFacts DEF InStep
  <2> QED BY <2>1, <2>2
<1> QED BY <1>1, RandomStart, RandomStep, PTL DEF RandomSpec

-----------------------------------------------------------------------------
(***************************************************************************)
(* Virtual terminals.                                                      *)
(***************************************************************************)

\* The loop of user_console_write() over the bytes of a text.
Drawn(m, text) == FoldLeft(Put, m, text)

\* It stays in any set of terminals that drawing a byte stays in.
LEMMA WriteRuns ==
  ASSUME NEW M, NEW m \in M, NEW n \in Nat, NEW text, DOMAIN text = 1 .. n,
         \A w \in M, i \in 1 .. n : Put(w, text[i]) \in M
  PROVE  Drawn(m, text) \in M
<1>1. PICK op : op = [x \in M \X (1 .. n) |-> Put(x[1], text[x[2]])]
  OBVIOUS
<1>2. op \in [M \X (1 .. n) -> M] /\ n \in Nat /\ DOMAIN text = 1 .. n
  BY <1>1
<1> DEFINE Equation(it) ==
      it = [s \in SUBSET (DOMAIN text) |->
              IF s = {} THEN m ELSE Put(it[s \ {Max(s)}], text[Max(s)])]
<1>3. \E it : Equation(it)
  <2>1. PICK it \in [SUBSET (1 .. n) -> M] : Iterates(it, n, op, m)
    BY <1>2, FoldExists
  <2>2. ASSUME NEW s \in SUBSET (1 .. n), s # {}
        PROVE  op[<<it[s \ {Max(s)}], Max(s)>>] = Put(it[s \ {Max(s)}], text[Max(s)])
    <3>1. Max(s) \in 1 .. n
      BY <2>2, <1>2, MaxInInterval
    <3>2. it[s \ {Max(s)}] \in M
      BY <2>1
    <3>3. PICK x : x = <<it[s \ {Max(s)}], Max(s)>>
      OBVIOUS
    <3>4. x \in M \X (1 .. n) /\ x[1] = it[s \ {Max(s)}] /\ x[2] = Max(s)
      BY <3>1, <3>2, <3>3
    <3>5. op[x] = Put(x[1], text[x[2]])
      BY <1>1, <3>4
    <3> QED BY <3>3, <3>4, <3>5
  <2>3. \A s \in SUBSET (1 .. n) :
          it[s] = IF s = {} THEN m ELSE Put(it[s \ {Max(s)}], text[Max(s)])
    BY <2>1, <2>2 DEF Iterates
  <2>4. it = [s \in SUBSET (DOMAIN text) |->
               IF s = {} THEN m ELSE Put(it[s \ {Max(s)}], text[Max(s)])]
    BY <1>2, <2>1, <2>3
  <2> QED BY <2>4
<1>4. Equation(CHOOSE it : Equation(it))
  BY <1>3
<1>5. Drawn(m, text) = (CHOOSE it : Equation(it))[DOMAIN text]
  BY DEF Drawn, FoldLeft, MapThenFoldSet
<1>6. PICK it : it = CHOOSE x : Equation(x)
  OBVIOUS
<1>7. Equation(it)
  BY <1>4, <1>6
<1>8. PICK w : w = [i \in 0 .. n |-> it[1 .. i]]
  OBVIOUS
<1>9. w[0] = m
  <2>1. 1 .. 0 = {} /\ {} \in SUBSET (1 .. n)
    OBVIOUS
  <2> QED BY <1>2, <1>7, <1>8, <2>1
<1>10. ASSUME NEW i \in 1 .. n PROVE w[i] = Put(w[i - 1], text[i])
  <2>1. Max(1 .. i) = i
    <3>1. i \in Nat /\ i \in 1 .. i
      BY <1>2
    <3> QED BY <3>1, MaxOfTop
  <2>2. (1 .. i) \ {i} = 1 .. (i - 1) /\ 1 .. i # {} /\ 1 .. i \in SUBSET (1 .. n)
    <3>1. i \in Nat /\ 1 <= i /\ i <= n
      BY <1>2
    <3>2. (1 .. i) \ {i} = 1 .. (i - 1) /\ 1 \in 1 .. i
      BY <3>1
    <3>3. 1 .. i \in SUBSET (1 .. n)
      BY <3>1
    <3> QED BY <3>2, <3>3
  <2>3. w[i] = it[1 .. i] /\ w[i - 1] = it[1 .. (i - 1)]
    BY <1>2, <1>8
  <2>4. it[1 .. i] = Put(it[(1 .. i) \ {Max(1 .. i)}], text[Max(1 .. i)])
    BY <1>2, <1>7, <2>2
  <2> QED BY <2>1, <2>2, <2>3, <2>4
<1>11. \A i \in 0 .. n : w[i] \in M
  <2> DEFINE S == {i \in 0 .. n : w[i] \in M}
  <2>1. 0 \in S /\ \A i \in 1 .. n : i - 1 \in S => i \in S
    BY <1>2, <1>9, <1>10
  <2>2. \A i \in 0 .. n : i \in S
    <3> HIDE DEF S
    <3> QED BY <1>2, <2>1, LoopInduction
  <2> QED BY <2>2
<1>12. w[n] = Drawn(m, text)
  <2>1. w[n] = it[1 .. n]
    BY <1>2, <1>8
  <2> QED BY <1>2, <1>5, <1>6, <2>1
<1> QED BY <1>2, <1>11, <1>12

\* A terminal, and what NoTrails needs to be inductive: where the cursor is not
\* visible no underscore marks its cell, or moving it would leave one behind.
Cells == Nat \X Nat
Terminals ==
  [glyphs : SUBSET Cells, marks : SUBSET Cells, cursor : Cells, cursor_visible : BOOLEAN]

Tidy(t) ==
  /\ t.marks \subseteq {Home, t.cursor}
  /\ t.cursor_visible => t.cursor \in t.marks
  /\ ~ t.cursor_visible => t.marks \subseteq {Home}

ConsoleTypeOK ==
  /\ tty \in [Ttys -> Terminals] /\ ACTIVE_TTY \in Ttys /\ MULTI_TTY_ENABLED \in BOOLEAN

ConsoleInv == ConsoleTypeOK /\ (\A i \in Ttys : Tidy(tty[i])) /\ ScreenShowsActive

LEMMA HomeIsCell == Home \in Cells
BY DEF Home, Cells

LEMMA ShowFacts ==
  ASSUME NEW t \in Terminals, NEW s, s = show_cursor(t)
  PROVE  /\ s \in Terminals /\ s.glyphs = t.glyphs /\ s.cursor = t.cursor
         /\ s.marks = t.marks \cup {t.cursor} /\ s.cursor_visible = TRUE
BY DEF show_cursor, Terminals

LEMMA HideFacts ==
  ASSUME NEW t \in Terminals, Tidy(t), NEW h, h = hide_cursor(t)
  PROVE  /\ h \in Terminals /\ h.glyphs = t.glyphs /\ h.cursor = t.cursor
         /\ h.marks \subseteq {Home} /\ h.marks \ {t.cursor} = t.marks \ {t.cursor}
         /\ h.cursor_visible = FALSE
<1>1. CASE t.cursor_visible
  <2>1. h = [t EXCEPT !.marks = @ \ {t.cursor}, !.cursor_visible = FALSE]
    BY <1>1 DEF hide_cursor
  <2>2. /\ h \in Terminals /\ h.glyphs = t.glyphs /\ h.cursor = t.cursor
        /\ h.marks = t.marks \ {t.cursor} /\ h.cursor_visible = FALSE
    BY <2>1 DEF Terminals
  <2> QED BY <2>2 DEF Tidy
<1>2. CASE ~ t.cursor_visible
  <2>1. h = t
    BY <1>2 DEF hide_cursor
  <2>2. t.cursor_visible \in BOOLEAN
    BY DEF Terminals
  <2>3. t.cursor_visible = FALSE
    BY <1>2, <2>2
  <2> QED BY <1>2, <2>1, <2>3 DEF Tidy
<1> QED BY <1>1, <1>2

\* A shown cursor is tidy when nothing else was marked but the first cell.
LEMMA ShownIsTidy ==
  ASSUME NEW t \in Terminals, t.marks \subseteq {Home}
  PROVE  show_cursor(t) \in Terminals /\ Tidy(show_cursor(t))
<1>1. PICK s : s = show_cursor(t)
  OBVIOUS
<1>2. /\ s \in Terminals /\ s.cursor = t.cursor /\ s.marks = t.marks \cup {t.cursor}
      /\ s.cursor_visible = TRUE
  BY <1>1, ShowFacts
<1>3. s.marks \subseteq {Home, s.cursor} /\ s.cursor \in s.marks
  BY <1>2
<1>4. s.cursor_visible
  BY <1>2
<1> QED BY <1>1, <1>2, <1>3, <1>4, Zenon DEF Tidy

LEMMA HiddenIsTidy ==
  ASSUME NEW t \in Terminals, t.marks \subseteq {Home}, t.cursor_visible = FALSE
  PROVE  Tidy(t)
<1>1. ~ t.cursor_visible
  OBVIOUS
<1>2. t.marks \subseteq {Home, t.cursor}
  OBVIOUS
<1> QED BY <1>1, <1>2, Zenon DEF Tidy

LEMMA ClearedFacts ==
  Cleared \in Terminals /\ Cleared.marks = {Home} /\ Tidy(Cleared)
<1>1. EMPTY \in Terminals /\ EMPTY.marks = {} /\ EMPTY.cursor = Home
  BY HomeIsCell DEF EMPTY, Terminals
<1>2. Cleared = show_cursor(EMPTY)
  BY DEF Cleared
<1>3. PICK e, c : e = EMPTY /\ c = Cleared
  OBVIOUS
<1>4. e \in Terminals /\ e.marks = {} /\ e.cursor = Home /\ c = show_cursor(e)
  BY <1>1, <1>2, <1>3
<1>5. c \in Terminals /\ c.marks = {Home}
  BY <1>4, ShowFacts
<1>6. Tidy(c)
  BY <1>4, ShownIsTidy
<1> QED BY <1>3, <1>5, <1>6

\* Drawing a byte marks nothing.
Drawing == {t \in Terminals : t.marks \subseteq {Home}}

LEMMA NewlineDraws ==
  ASSUME NEW t \in Drawing
  PROVE  newline(t) \in Drawing
<1>1. CASE t.cursor[2] + 1 = ROWS
  BY <1>1, ClearedFacts DEF newline, Drawing
<1>2. CASE t.cursor[2] + 1 # ROWS
  <2>1. newline(t) = [t EXCEPT !.cursor = <<0, t.cursor[2] + 1>>]
    BY <1>2 DEF newline
  <2>2. t \in Terminals /\ t.marks \subseteq {Home} /\ <<0, t.cursor[2] + 1>> \in Cells
    BY DEF Drawing, Terminals, Cells
  <2>3. PICK c : c = <<0, t.cursor[2] + 1>>
    OBVIOUS
  <2>4. PICK r : r = [t EXCEPT !.cursor = c]
    OBVIOUS
  <2>5. r \in Terminals /\ r.marks = t.marks
    BY <2>2, <2>3, <2>4 DEF Terminals
  <2> QED BY <2>1, <2>2, <2>3, <2>4, <2>5 DEF Drawing
<1> QED BY <1>1, <1>2

LEMMA PutDraws ==
  ASSUME NEW t \in Drawing, NEW byte
  PROVE  Put(t, byte) \in Drawing
<1>1. CASE byte = "newline"
  BY <1>1, NewlineDraws DEF Put
<1>2. CASE byte # "newline"
  <2>1. PICK w : w = IF t.cursor[1] + 1 > COLUMNS THEN newline(t) ELSE t
    OBVIOUS
  <2>2. w \in Drawing
    BY <2>1, NewlineDraws
  <2>3. Put(t, byte) = [w EXCEPT !.glyphs = @ \cup {w.cursor}, !.cursor = <<w.cursor[1] + 1, w.cursor[2]>>]
    BY <1>2, <2>1 DEF Put
  <2>4. PICK c, r : /\ c = <<w.cursor[1] + 1, w.cursor[2]>>
                    /\ r = [w EXCEPT !.glyphs = @ \cup {w.cursor}, !.cursor = c]
    OBVIOUS
  <2>5. w \in Terminals /\ w.marks \subseteq {Home} /\ c \in Cells /\ w.cursor \in Cells
    BY <2>2, <2>4 DEF Drawing, Terminals, Cells
  <2>6. r \in Terminals /\ r.marks = w.marks
    BY <2>4, <2>5 DEF Terminals
  <2> QED BY <2>3, <2>4, <2>5, <2>6 DEF Drawing
<1> QED BY <1>1, <1>2

LEMMA WrittenIsTidy ==
  ASSUME NEW t \in Terminals, Tidy(t), NEW n \in Nat, NEW text, DOMAIN text = 1 .. n
  PROVE  Written(t, text) \in Terminals /\ Tidy(Written(t, text))
<1>1. PICK h : h = hide_cursor(t)
  OBVIOUS
<1>2. h \in Drawing
  BY <1>1, HideFacts DEF Drawing
<1>3. Drawn(h, text) \in Drawing
  BY <1>2, PutDraws, WriteRuns
<1>4. PICK d : d = Drawn(h, text)
  OBVIOUS
<1>5. d \in Terminals /\ d.marks \subseteq {Home} /\ Written(t, text) = show_cursor(d)
  BY <1>1, <1>3, <1>4 DEF Drawing, Written, Drawn
<1> QED BY <1>5, ShownIsTidy

LEMMA ErasedIsTidy ==
  ASSUME NEW t \in Terminals, Tidy(t), t.cursor[1] > 0
  PROVE  Erased(t) \in Terminals /\ Tidy(Erased(t))
<1>1. PICK h, previous : h = hide_cursor(t) /\ previous = <<h.cursor[1] - 1, h.cursor[2]>>
  OBVIOUS
<1>2. h \in Terminals /\ h.marks \subseteq {Home} /\ h.cursor = t.cursor
  BY <1>1, HideFacts
<1>3. previous \in Cells
  BY <1>1, <1>2 DEF Terminals, Cells
<1>4. PICK e : e = [h EXCEPT !.glyphs = @ \ {previous}, !.marks = @ \ {previous}, !.cursor = previous]
  OBVIOUS
<1>5. e \in Terminals /\ e.marks \subseteq {Home}
  BY <1>2, <1>3, <1>4 DEF Terminals
<1>6. Erased(t) = show_cursor(e)
  BY <1>1, <1>4 DEF Erased
<1> QED BY <1>5, <1>6, ShownIsTidy

\* What a terminal shows, up to the phase of its cursor.
Shows(picture, t) ==
  picture.glyphs = t.glyphs /\ picture.marks \ {t.cursor} = t.marks \ {t.cursor}

LEMMA PictureShows ==
  ASSUME NEW t
  PROVE  Shows(Picture(t), t)
BY DEF Shows, Picture

\* One terminal has changed, and the screen follows or shows another one.
LEMMA DrawStep ==
  ASSUME ConsoleInv, NEW i \in Ttys, HasTarget(i), NEW t \in Terminals, Tidy(t),
         tty' = [tty EXCEPT ![i] = t], ACTIVE_TTY' = ACTIVE_TTY, MULTI_TTY_ENABLED' = MULTI_TTY_ENABLED,
         i = Shown => Shows(primary', t), i # Shown => primary' = primary
  PROVE  ConsoleInv'
<1>1. tty \in [Ttys -> Terminals] /\ ACTIVE_TTY \in Ttys /\ MULTI_TTY_ENABLED \in BOOLEAN
  BY DEF ConsoleInv, ConsoleTypeOK
<1>2. tty'[i] = t /\ \A j \in Ttys : j # i => tty'[j] = tty[j]
  BY <1>1
<1>3. ConsoleTypeOK'
  BY <1>1 DEF ConsoleTypeOK
<1>4. \A j \in Ttys : Tidy(tty'[j])
  BY <1>2 DEF ConsoleInv
<1>5. Shown' = Shown /\ Shown \in Ttys
  BY <1>1, ConsoleAssumption DEF Shown, Ttys
<1>6. Shows(primary', tty'[Shown])
  <2>1. CASE i = Shown
    BY <1>2, <2>1
  <2>2. CASE i # Shown
    BY <1>2, <1>5, <2>2 DEF ConsoleInv, ScreenShowsActive, Shows
  <2> QED BY <2>1, <2>2
<1>7. ScreenShowsActive'
  BY <1>5, <1>6 DEF ScreenShowsActive, Shows
<1> QED BY <1>3, <1>4, <1>7 DEF ConsoleInv

\* The screen follows by blit_if_active().
LEMMA BlitStep ==
  ASSUME ConsoleInv, NEW i \in Ttys, HasTarget(i), NEW t \in Terminals, Tidy(t),
         tty' = [tty EXCEPT ![i] = t], BlitIfActive(i, tty'[i]),
         ACTIVE_TTY' = ACTIVE_TTY, MULTI_TTY_ENABLED' = MULTI_TTY_ENABLED
  PROVE  ConsoleInv'
<1>1. tty'[i] = t
  BY DEF ConsoleInv, ConsoleTypeOK
<1>2. primary' = IF ~ MULTI_TTY_ENABLED \/ i = ACTIVE_TTY THEN Picture(t) ELSE primary
  BY <1>1 DEF BlitIfActive
<1>3. i = Shown <=> (~ MULTI_TTY_ENABLED \/ i = ACTIVE_TTY)
  BY DEF Shown, HasTarget
<1>4. i = Shown => Shows(primary', t)
  BY <1>2, <1>3, PictureShows
<1>5. i # Shown => primary' = primary
  BY <1>2, <1>3
<1> QED BY <1>4, <1>5, DrawStep

\* A change of the cursor's phase.
LEMMA BlinkFacts ==
  ASSUME NEW t \in Terminals, Tidy(t), NEW u, u \in {Blink(t), show_cursor(hide_cursor(t))}
  PROVE  u \in Terminals /\ Tidy(u) /\ \A picture : Shows(picture, t) => Shows(picture, u)
<1>1. PICK h : h = hide_cursor(t)
  OBVIOUS
<1>2. /\ h \in Terminals /\ h.glyphs = t.glyphs /\ h.cursor = t.cursor
      /\ h.marks \subseteq {Home} /\ h.marks \ {t.cursor} = t.marks \ {t.cursor}
      /\ h.cursor_visible = FALSE
  BY <1>1, HideFacts
<1>3. CASE u = h
  <2>1. Tidy(u)
    BY <1>2, <1>3, HiddenIsTidy
  <2>2. \A picture : Shows(picture, t) => Shows(picture, u)
    BY <1>2, <1>3 DEF Shows
  <2> QED BY <1>2, <1>3, <2>1, <2>2
<1>4. CASE u = show_cursor(h)
  <2>1. /\ u \in Terminals /\ u.glyphs = h.glyphs /\ u.cursor = h.cursor
        /\ u.marks = h.marks \cup {h.cursor}
    BY <1>2, <1>4, ShowFacts
  <2>2. Tidy(u)
    BY <1>2, <1>4, ShownIsTidy
  <2>3. \A picture : Shows(picture, t) => Shows(picture, u)
    BY <1>2, <2>1 DEF Shows
  <2> QED BY <2>1, <2>2, <2>3
<1>5. CASE u = Blink(t) /\ ~ t.cursor_visible
  <2>1. h = t /\ u = show_cursor(t)
    BY <1>1, <1>5 DEF hide_cursor, Blink
  <2> QED BY <1>4, <2>1
<1>6. CASE u = Blink(t) /\ t.cursor_visible
  <2>1. u = h
    BY <1>1, <1>6 DEF Blink
  <2> QED BY <1>3, <2>1
<1> QED BY <1>1, <1>4, <1>5, <1>6

LEMMA TickStep ==
  ASSUME ConsoleInv, Tick
  PROVE  ConsoleInv'
<1>1. tty \in [Ttys -> Terminals] /\ ACTIVE_TTY \in Ttys /\ MULTI_TTY_ENABLED \in BOOLEAN
  BY DEF ConsoleInv, ConsoleTypeOK
<1>2. /\ tty' = [i \in Ttys |-> IF Due(i) THEN Blink(tty[i]) ELSE tty[i]]
      /\ primary' = IF Due(Shown) THEN Picture(tty'[Shown]) ELSE primary
      /\ ACTIVE_TTY' = ACTIVE_TTY /\ MULTI_TTY_ENABLED' = MULTI_TTY_ENABLED
  BY DEF Tick, Shown
<1>3. Shown' = Shown /\ Shown \in Ttys
  BY <1>1, <1>2, ConsoleAssumption DEF Shown, Ttys
<1>4. ASSUME NEW i \in Ttys PROVE tty'[i] \in Terminals /\ Tidy(tty'[i])
  <2>1. PICK t, u : t = tty[i] /\ u = tty'[i]
    OBVIOUS
  <2>2. t \in Terminals /\ Tidy(t)
    BY <1>1, <2>1 DEF ConsoleInv
  <2>3. u = Blink(t) \/ u = t
    BY <1>2, <2>1
  <2>4. u \in Terminals /\ Tidy(u)
    BY <2>2, <2>3, BlinkFacts
  <2> QED BY <2>1, <2>4
<1>5. ConsoleTypeOK'
  <2>1. tty' \in [Ttys -> Terminals]
    BY <1>2, <1>4
  <2> QED BY <1>1, <1>2, <2>1 DEF ConsoleTypeOK
<1>6. Shows(primary', tty'[Shown])
  <2>1. CASE Due(Shown)
    BY <1>2, <2>1, PictureShows
  <2>2. CASE ~ Due(Shown)
    BY <1>2, <1>3, <2>2 DEF ConsoleInv, ScreenShowsActive, Shows
  <2> QED BY <2>1, <2>2
<1>7. ScreenShowsActive'
  BY <1>3, <1>6 DEF ScreenShowsActive, Shows
<1> QED BY <1>4, <1>5, <1>7 DEF ConsoleInv

LEMMA SwitchStep ==
  ASSUME ConsoleInv, NEW i \in Ttys, switch_tty(i)
  PROVE  ConsoleInv'
<1>1. /\ ACTIVE_TTY' = i /\ tty' = tty /\ MULTI_TTY_ENABLED' = MULTI_TTY_ENABLED
      /\ primary' = IF HasTarget(i) THEN Picture(tty[i]) ELSE primary
  BY DEF switch_tty
<1>2. ConsoleTypeOK'
  BY <1>1 DEF ConsoleInv, ConsoleTypeOK
<1>3. Shows(primary', tty[Shown'])
  <2>1. CASE MULTI_TTY_ENABLED \/ i = 0
    <3>1. Shown' = i /\ primary' = Picture(tty[i])
      BY <1>1, <2>1 DEF Shown, HasTarget
    <3> QED BY <3>1, PictureShows
  <2>2. CASE ~ (MULTI_TTY_ENABLED \/ i = 0)
    <3>1. Shown' = Shown /\ primary' = primary
      BY <1>1, <2>2 DEF Shown, HasTarget
    <3> QED BY <3>1 DEF ConsoleInv, ScreenShowsActive, Shows
  <2> QED BY <2>1, <2>2
<1>4. ScreenShowsActive'
  BY <1>1, <1>3 DEF ScreenShowsActive, Shows
<1> QED BY <1>1, <1>2, <1>4 DEF ConsoleInv

LEMMA SameScreen ==
  ASSUME ConsoleInv, UNCHANGED <<tty, primary, ACTIVE_TTY, MULTI_TTY_ENABLED>>
  PROVE  ConsoleInv'
BY DEF ConsoleInv, ConsoleTypeOK, ScreenShowsActive, Shown

LEMMA ConsoleStep == ConsoleInv /\ [ConsoleNext]_consoleVars => ConsoleInv'
<1> SUFFICES ASSUME ConsoleInv, [ConsoleNext]_consoleVars PROVE ConsoleInv'
  OBVIOUS
<1>t. \A i \in Ttys : tty[i] \in Terminals /\ Tidy(tty[i])
  BY DEF ConsoleInv, ConsoleTypeOK
<1>1. CASE Tick
  BY <1>1, TickStep
<1>2. ASSUME NEW held \in BOOLEAN, Alt(held) PROVE ConsoleInv'
  BY <1>2, SameScreen DEF Alt
<1>3. ASSUME NEW key \in Keys, KeyPress(key) PROVE ConsoleInv'
  BY <1>3, SameScreen DEF KeyPress
<1>4. ASSUME NEW i \in Ttys, PollKey(i) PROVE ConsoleInv'
  BY <1>4, SameScreen DEF PollKey
<1>5. ASSUME NEW i \in Ttys, switch_tty(i) PROVE ConsoleInv'
  BY <1>5, SwitchStep
<1>6. ASSUME NEW i \in Ttys, Clear(i) PROVE ConsoleInv'
  <2>1. PICK t : t = Cleared
    OBVIOUS
  <2>2. t \in Terminals /\ Tidy(t)
    BY <2>1, ClearedFacts
  <2>3. /\ HasTarget(i) /\ tty' = [tty EXCEPT ![i] = t] /\ BlitIfActive(i, tty'[i])
        /\ ACTIVE_TTY' = ACTIVE_TTY /\ MULTI_TTY_ENABLED' = MULTI_TTY_ENABLED
    BY <1>6, <2>1 DEF Clear
  <2> QED BY <2>2, <2>3, BlitStep
<1>7. ASSUME NEW i \in Ttys, Backspace(i) PROVE ConsoleInv'
  <2>1. PICK t : t = Erased(tty[i])
    OBVIOUS
  <2>2. t \in Terminals /\ Tidy(t)
    BY <1>t, <1>7, <2>1, ErasedIsTidy DEF Backspace
  <2>3. /\ HasTarget(i) /\ tty' = [tty EXCEPT ![i] = t] /\ BlitIfActive(i, tty'[i])
        /\ ACTIVE_TTY' = ACTIVE_TTY /\ MULTI_TTY_ENABLED' = MULTI_TTY_ENABLED
    BY <1>7, <2>1 DEF Backspace
  <2> QED BY <2>2, <2>3, BlitStep
<1>8. ASSUME NEW i \in Ttys, NEW n \in 1 .. MaxText, NEW text \in [1 .. n -> {"glyph", "newline"}],
             Write(i, text)
      PROVE  ConsoleInv'
  <2>1. PICK t : t = Written(tty[i], text)
    OBVIOUS
  <2>2. n \in Nat /\ DOMAIN text = 1 .. n
    OBVIOUS
  <2>3. t \in Terminals /\ Tidy(t)
    BY <1>t, <2>1, <2>2, WrittenIsTidy
  <2>4. /\ HasTarget(i) /\ tty' = [tty EXCEPT ![i] = t] /\ BlitIfActive(i, tty'[i])
        /\ ACTIVE_TTY' = ACTIVE_TTY /\ MULTI_TTY_ENABLED' = MULTI_TTY_ENABLED
    BY <1>8, <2>1 DEF Write
  <2> QED BY <2>3, <2>4, BlitStep
<1>9. ASSUME NEW i \in Ttys, BackspaceAtMargin(i) PROVE ConsoleInv'
  <2>1. PICK t : t = show_cursor(hide_cursor(tty[i]))
    OBVIOUS
  <2>2. t \in Terminals /\ Tidy(t) /\ \A picture : Shows(picture, tty[i]) => Shows(picture, t)
    BY <1>t, <2>1, BlinkFacts
  <2>3. /\ HasTarget(i) /\ tty' = [tty EXCEPT ![i] = t]
        /\ ACTIVE_TTY' = ACTIVE_TTY /\ MULTI_TTY_ENABLED' = MULTI_TTY_ENABLED
        /\ primary' = IF MULTI_TTY_ENABLED THEN primary ELSE Picture(tty'[i])
    BY <1>9, <2>1 DEF BackspaceAtMargin
  <2>4. tty'[i] = t
    BY <2>3 DEF ConsoleInv, ConsoleTypeOK
  <2>5. i = Shown => Shows(primary', t)
    <3>1. CASE MULTI_TTY_ENABLED
      BY <2>2, <2>3, <3>1 DEF ConsoleInv, ScreenShowsActive, Shows
    <3>2. CASE ~ MULTI_TTY_ENABLED
      BY <2>3, <2>4, <3>2, PictureShows
    <3> QED BY <3>1, <3>2
  <2>6. i # Shown => primary' = primary
    BY <2>3 DEF Shown, HasTarget
  <2> QED BY <2>2, <2>3, <2>5, <2>6, DrawStep
<1>10. CASE UNCHANGED consoleVars
  BY <1>10, SameScreen DEF consoleVars
<1> QED BY <1>1, <1>2, <1>3, <1>4, <1>5, <1>6, <1>7, <1>8, <1>9, <1>10 DEF ConsoleNext

LEMMA ConsoleAlways == ConsoleSpec => []ConsoleInv
<1>1. ConsoleInit => ConsoleInv
  <2> SUFFICES ASSUME ConsoleInit PROVE ConsoleInv
    OBVIOUS
  <2>1. EMPTY \in Terminals /\ EMPTY.marks \subseteq {Home} /\ EMPTY.cursor_visible = FALSE
    BY HomeIsCell DEF EMPTY, Terminals
  <2>2. PICK e : e = EMPTY
    OBVIOUS
  <2>3. e \in Terminals /\ Tidy(e)
    BY <2>1, <2>2, HiddenIsTidy
  <2>4. \A i \in Ttys : tty[i] \in Terminals /\ Tidy(tty[i])
    BY <2>2, <2>3, ClearedFacts DEF ConsoleInit
  <2>5. ConsoleTypeOK
    <3>1. tty \in [Ttys -> Terminals]
      BY <2>4 DEF ConsoleInit
    <3> QED BY <3>1, ConsoleAssumption DEF ConsoleInit, ConsoleTypeOK, Ttys
  <2>6. Shown = 0 /\ 0 \in Ttys /\ tty[0] = Cleared
    BY ConsoleAssumption DEF ConsoleInit, Shown, Ttys, HasTarget
  <2>7. Shows(primary, tty[Shown])
    BY <2>6, PictureShows DEF ConsoleInit
  <2> QED BY <2>4, <2>5, <2>7 DEF ConsoleInv, ScreenShowsActive, Shows
<1> QED BY <1>1, ConsoleStep, PTL DEF ConsoleSpec

\* The screen shows the active terminal, for any number of terminals and size
\* of the screen: what others write meanwhile does not reach it, and switching,
\* blinking and the paths of backspace that do not blit leave nothing stale on
\* it but the cursor.
THEOREM ScreenIsActiveTerminal == ConsoleSpec => []ScreenShowsActive
<1>1. ConsoleInv => ScreenShowsActive
  BY DEF ConsoleInv
<1> QED BY <1>1, ConsoleAlways, PTL

\* Hiding the cursor before and showing it after every change leaves no
\* underscore behind, in whichever phase the timer has left it.
THEOREM CursorLeavesNoTrails == ConsoleSpec => []NoTrails
<1>1. ConsoleInv => NoTrails
  BY DEF ConsoleInv, Tidy, NoTrails
<1> QED BY <1>1, ConsoleAlways, PTL
=============================================================================
