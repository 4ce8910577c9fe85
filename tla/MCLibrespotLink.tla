-------------------------- MODULE MCLibrespotLink ---------------------------
(***************************************************************************)
(* Instances of LibrespotLink; the sizes are in the configurations.        *)
(***************************************************************************)
EXTENDS LibrespotLink
=============================================================================
