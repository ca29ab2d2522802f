----------------------------- MODULE MCDiscovery -----------------------------
(* Instances of Discovery: whose broadcasts get through to whom, and the
   addresses at first. *)
EXTENDS Discovery, TLC

CONSTANTS a, b

TwoAddresses == 1 :> a @@ 2 :> b

OneWay == [p \in Peer |-> {q \in Peer : q < p}]
BothWays == [p \in Peer |-> Peer \ {p}]
=============================================================================
