-------------------------- MODULE VirtualAirwaves --------------------------
(***************************************************************************)
(* The in-memory broker of the archived prototype (driver/                 *)
(* virtual_airwaves.py): one queue for each registered address.  q is the  *)
(* function from the registered addresses to their queues.                 *)
(***************************************************************************)
LOCAL INSTANCE Sequences
LOCAL INSTANCE Functions
LOCAL INSTANCE TLC

Everyone == 65535

Register(q, address) ==
  IF address \in DOMAIN q THEN q ELSE (address :> <<>>) @@ q

Unregister(q, address) == Restrict(q, DOMAIN q \ {address})

(* A broadcast reaches all but its sender; a packet for an address that is *)
(* not registered is dropped.                                              *)
Transmit(q, packet, src) ==
  IF packet.dest = Everyone
  THEN [a \in DOMAIN q |-> IF a = src THEN q[a] ELSE Append(q[a], packet)]
  ELSE [a \in DOMAIN q |-> IF a = packet.dest THEN Append(q[a], packet) ELSE q[a]]

HasPacket(q, address) == address \in DOMAIN q /\ q[address] # <<>>

(* receive, when there is a packet *)
FirstPacket(q, address) == Head(q[address])
Received(q, address) == [q EXCEPT ![address] = Tail(@)]
=============================================================================
