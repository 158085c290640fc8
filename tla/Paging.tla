------------------------------- MODULE Paging -------------------------------
(* Addresses and pages (kernel-core/src/paging.rs).                         *)
EXTENDS Integers

CONSTANT PAGE_SIZE

ASSUME PagingAssumption == PAGE_SIZE \in Nat \ {0}

\* address & !(PAGE_SIZE - 1), and the same rounded up.
PageDown(address) == (address \div PAGE_SIZE) * PAGE_SIZE
PageUp(address) == PageDown(address + PAGE_SIZE - 1)

\* What a frame holds after zero_physical_frame().
Zero == 0
=============================================================================
