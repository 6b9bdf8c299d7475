---------------------------- MODULE MCNandStore ----------------------------
(* Instances of NandStore for TLC. *)
EXTENDS NandStore
=============================================================================
