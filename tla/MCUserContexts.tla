--------------------------- MODULE MCUserContexts ---------------------------
(* Instances of UserContexts for TLC. *)
EXTENDS UserContexts
=============================================================================
