------------------------------ MODULE MCPlayer ------------------------------
(***************************************************************************)
(* Player with two tags that have different addresses.                     *)
(***************************************************************************)
EXTENDS Player, TLC

CONSTANTS t1, t2, u1, u2

TwoContents == (t1 :> u1) @@ (t2 :> u2)
=============================================================================
