----------------------------- MODULE MCLifecycle -----------------------------
(***************************************************************************)
(* Lifecycle has no constants: its configurations only choose properties.  *)
(***************************************************************************)
EXTENDS Lifecycle
=============================================================================
