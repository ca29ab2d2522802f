----------------------------- MODULE MCPeerLinks -----------------------------
(* Instances of PeerLinks for TLC. *)
EXTENDS PeerLinks, TLC

AllPairs == {{p, q} : p, q \in Peer}
AtHome == [p \in Peer |-> {p}]

(* Every machine dials every other, each at its own address. *)
DialAll == [p \in Peer |-> Peer \ {p}]

(* Machine 1 dials machine 2, and machine 3 dials machine 1. *)
DialChain == [p \in Peer |-> CASE p = 1 -> {2} [] p = 3 -> {1} [] OTHER -> {}]

(* Machines 1 and 2 dial each other, and machine 3, which is paired with
   machine 1, may have got the address that machine 1 recorded for machine 2. *)
DialStale == [p \in Peer |-> CASE p = 1 -> {2} [] p = 2 -> {1} [] OTHER -> {}]
AddressMoved == [p \in Peer |-> IF p = 2 THEN {2, 3} ELSE {p}]
StalePairs == {{1, 2}, {1, 3}}

ConnSymmetry == Permutations(Conn)
=============================================================================
