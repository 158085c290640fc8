---------------------------- MODULE MCElfLoader ----------------------------
(* An instance of ElfLoader for TLC. *)
EXTENDS ElfLoader
=============================================================================
