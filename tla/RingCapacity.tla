---------------------------- MODULE RingCapacity ----------------------------
(* The size of the rings of kernel-core/src/pty.rs.                        *)
EXTENDS Integers

CONSTANT RING_CAPACITY

ASSUME RingAssumption == RING_CAPACITY \in Nat \ {0}
=============================================================================
