-------------------------------- MODULE Ring --------------------------------
(***************************************************************************)
(* The ring buffer of kernel-core/src/pty.rs.  The backing array is never  *)
(* cleared, so it keeps bytes that were popped or reset away.              *)
(***************************************************************************)
EXTENDS RingCapacity, Sequences

CONSTANT Byte

VARIABLES buffer, head, count

ringVars == <<buffer, head, count>>

\* Indices of the array, from zero.
Index == 0 .. (RING_CAPACITY - 1)

RingTypeOK ==
  /\ buffer \in [Index -> Byte]
  /\ head \in Index
  /\ count \in 0 .. RING_CAPACITY

\* Ring::EMPTY; which byte fills the array is of no consequence.
RingInit ==
  /\ \E b \in Byte : buffer = [i \in Index |-> b]
  /\ head = 0
  /\ count = 0

reset ==
  /\ head' = 0 /\ count' = 0
  /\ UNCHANGED buffer

\* Mutation: the slot after the last byte is computed from the count alone.
push_FromZero(b) ==
  /\ count # RING_CAPACITY
  /\ buffer' = [buffer EXCEPT ![count % RING_CAPACITY] = b]
  /\ count' = count + 1
  /\ UNCHANGED head

\* push() that returns true; on a full ring it changes nothing.
push(b) ==
  /\ count # RING_CAPACITY
  /\ buffer' = [buffer EXCEPT ![(head + count) % RING_CAPACITY] = b]
  /\ count' = count + 1
  /\ UNCHANGED head

\* pop() that returns a byte.
pop ==
  /\ count # 0
  /\ head' = (head + 1) % RING_CAPACITY
  /\ count' = count - 1
  /\ UNCHANGED buffer

RingNext == reset \/ pop \/ \E b \in Byte : push(b)
RingSpec == RingInit /\ [][RingNext]_ringVars

\* The bytes waiting in the ring, oldest first.
Contents == [i \in 1 .. count |-> buffer[(head + i - 1) % RING_CAPACITY]]

Queue == INSTANCE ByteQueue WITH Capacity <- RING_CAPACITY, queue <- Contents

\* The ring is a bounded queue: bytes come out in the order they went in, none
\* is lost, duplicated or overwritten when the ring wraps or is full, and none
\* that was there before a reset comes out after it.
ImplementsQueue == Queue!Spec
=============================================================================
