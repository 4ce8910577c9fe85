------------------------------- MODULE MCMenu -------------------------------
(***************************************************************************)
(* Menu with an adapter and up to two devices: none, all with a name, the  *)
(* first or the last without one, and no answer at all.                    *)
(***************************************************************************)
EXTENDS Menu

Adapter  == [device |-> FALSE, named |-> TRUE, connected |-> FALSE]
Named    == [device |-> TRUE, named |-> TRUE, connected |-> TRUE]
Nameless == [device |-> TRUE, named |-> FALSE, connected |-> FALSE]

AnyReply ==
  {Failure, Answer(<<Adapter>>), Answer(<<Named>>), Answer(<<Adapter, Named, Named>>),
   Answer(<<Adapter, Named, Nameless>>), Answer(<<Adapter, Nameless, Named>>)}
=============================================================================
