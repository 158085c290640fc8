--------------------------- MODULE MCAddressSpace ---------------------------
(* An image of one segment and the stack.                                  *)
EXTENDS AddressSpace

MCImage == <<11, 22>>
MCFrames == 1 .. 18
=============================================================================
