------------------------------- MODULE UdpPath -------------------------------
(***************************************************************************)
(* The UDP path between the programmers and the targets (external: the     *)
(* operating systems' stacks and the network, reached through SocketUDP).  *)
(*                                                                         *)
(* A datagram stays in its set from the moment it is sent until it is too  *)
(* old. It may be received at any time, in any order, never (loss) or      *)
(* several times (duplication). Two constants restrict the path:           *)
(*   Ordered   requests of one programmer reach one target in the order    *)
(*             they were sent; loss and duplication remain.                *)
(*   Lifetime  a datagram is gone once its programmer has sent Lifetime    *)
(*             newer requests.                                             *)
(*                                                                         *)
(* Every datagram carries n, the number of the transmission it belongs to  *)
(* (a reply has the n of its request). n is not on the wire: no guard of   *)
(* the program reads it, only the path and the properties do.              *)
(***************************************************************************)
EXTENDS Protocol

CONSTANTS
  Programmers,  \* NetworkProgrammer instances, each with a socket of its own
  Targets,      \* devices on the network
  Broadcast,    \* INADDR_BROADCAST
  NoAddr,       \* the all-zero address of a programmer that never chose one
  Lifetime,
  Ordered

ASSUME PathAssumption ==
  /\ Broadcast \notin Targets
  /\ NoAddr \notin Targets
  /\ NoAddr # Broadcast
  /\ Lifetime \in Nat \ {0}
  /\ Ordered \in BOOLEAN

VARIABLES
  requests,     \* requests that may still arrive
  replies,      \* replies that may still arrive
  sent,         \* transmissions of each programmer so far
  heard         \* newest request of p that t has received, on an ordered path

pathVars == <<requests, replies, sent, heard>>

Destination == Targets \cup {Broadcast, NoAddr}

Request == [src : Programmers, dst : Targets \cup {Broadcast}, n : Nat, seq : SeqNo,
            op : Operation, addr : Nat, len : Length, body : Body]

Reply == [src : Targets, dst : Programmers, n : Nat, seq : SeqNo,
          op : Operation, status : Status, payload : Seq(Word \cup DeviceIds)]

PathInit ==
  /\ requests = {}
  /\ replies = {}
  /\ sent = [p \in Programmers |-> 0]
  /\ heard = [t \in Targets |-> [p \in Programmers |-> 0]]

\* What is left of the datagrams of p when p starts transmission n.
RequestsAfter(p, n) == {m \in requests : m.src = p => m.n + Lifetime > n}
RepliesAfter(p, n)  == {r \in replies : r.dst = p => r.n + Lifetime > n}

\* recvfrom() on the socket of target t may return request m.
Arrives(t, m) ==
  /\ m.dst \in {t, Broadcast}
  /\ Ordered => m.n >= heard[t][m.src]

Hear(t, m) ==
  heard' = IF Ordered THEN [heard EXCEPT ![t][m.src] = m.n] ELSE heard
=============================================================================
