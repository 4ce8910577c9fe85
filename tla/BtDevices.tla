------------------------------ MODULE BtDevices ------------------------------
(***************************************************************************)
(* bt.c: the list of Bluetooth devices, made anew from what BlueZ answers  *)
(* to GetManagedObjects at each call, and what each call does not give     *)
(* back.  Nothing is kept between two calls.                               *)
(***************************************************************************)
EXTENDS Integers, Sequences, FiniteSets

CONSTANT Replies  \* the answers of BlueZ

\* An object is a device if it has the interface Device1 (an adapter has not); named,
\* if it has a Name that new_item can make an item of.
Object == [device : BOOLEAN, named : BOOLEAN, connected : BOOLEAN]

\* No bus, no answer, or no memory for the list.
Failure == [failed |-> TRUE, objects |-> <<>>]

Answer(objects) == [failed |-> FALSE, objects |-> objects]

ASSUME RepliesAssumption ==
  \A reply \in Replies :
    reply = Failure \/ reply \in [failed : {FALSE}, objects : Seq(Object)]

\* The allocations that make up a list.
ListBlocks == {"array", "id", "name", "mac"}

\* What else is allocated, and lost.
OtherBlocks == {"path", "reply", "connection", "items", "window"}

\* Where the devices are among the objects.
DevicesIn(objects) == {i \in DOMAIN objects : objects[i].device}

\* One pass over the objects: without an array it only counts, and frees the path of
\* each; with one it keeps those of the devices, as their ids.  A list is given by the
\* places its devices have in the answer, in that order.
DevicesIter(objects, hasArray) ==
  [count |-> Cardinality(DevicesIn(objects)),
   list  |-> IF hasArray THEN DevicesIn(objects) ELSE {},
   lost  |-> IF hasArray /\ DevicesIn(objects) # DOMAIN objects THEN {"path"} ELSE {}]

DeviceListGet(reply) ==
  IF reply.failed THEN [count |-> -1, list |-> {}, lost |-> {}]
  ELSE DevicesIter(reply.objects, DevicesIter(reply.objects, FALSE).count > 0)

\* The blocks that bt_device_list_free frees.
DeviceListFree == {"array", "id", "name", "mac"}

\* What bt_device_connect leaves: the answer, or the connection at an error of it.
DeviceConnectLoses == [succeeds |-> {"reply"}, fails |-> {"connection"}, noBus |-> {}]

\* Faulty IsConnected: the last device decides.
IsConnectedByLast(reply) ==
  LET listed == DeviceListGet(reply).list
  IN \E i \in listed : (\A j \in listed : j <= i) /\ reply.objects[i].connected

IsConnected(reply) == \E i \in DeviceListGet(reply).list : reply.objects[i].connected

IsConnectedLoses(reply) == DeviceListGet(reply).lost \cup (ListBlocks \ DeviceListFree)
=============================================================================
