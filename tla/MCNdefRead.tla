----------------------------- MODULE MCNdefRead -----------------------------
(***************************************************************************)
(* NdefRead on the three chips of the NTAG21x family and all length bytes. *)
(***************************************************************************)
EXTENDS NdefRead

\* A message of four pages or more in both layouts: every web address is.
LongLengths == 11..255

\* A freshly formatted tag, and any message of up to ten bytes.
ShortLengths == 0..10

NtagPages == {45, 135, 231}
=============================================================================
