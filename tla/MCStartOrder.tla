---------------------------- MODULE MCStartOrder ----------------------------
(* Every dependency relation over three services and a missing one. *)
EXTENDS StartOrder
=============================================================================
