---------------------------- MODULE MCTagReader -----------------------------
(***************************************************************************)
(* An instance of TagReader: a tag of each kind that the code tells apart, *)
(* two with different addresses, and two, t1 and t4, with the same one.    *)
(***************************************************************************)
EXTENDS TagReader, TLC

CONSTANTS t1, t2, t3, t4, t5, t6, u1, u2, x1

AllTags == {t1, t2, t3, t4, t5, t6}

AllContent == (t1 :> u1) @@ (t2 :> u2) @@ (t3 :> x1) @@ (t4 :> u1)
              @@ (t5 :> Broken) @@ (t6 :> Blank)
=============================================================================
