------------------------------ MODULE Discovery ------------------------------
(***************************************************************************)
(* Presence on the LAN and the addresses it keeps current (net/            *)
(* discovery_socket, net/discovery_table, platform/tray_win:               *)
(* discoveryProc): every machine broadcasts beacons, answers a beacon with *)
(* one of its own sent straight back, lists whom it has heard lately, and  *)
(* keeps the address it dials a paired machine at up to date.              *)
(*                                                                         *)
(* A beacon is the machine it is from and the address it came from; a      *)
(* datagram may be lost or overtaken, and a broadcast does not pass every  *)
(* firewall (Hears). The router may give a machine another address.        *)
(***************************************************************************)
EXTENDS Naturals, FiniteSets

CONSTANTS
  Peer,
  Addr,      \* the addresses the router hands out
  Start,     \* Start[p]: the address p has at first
  Private,   \* those that isPrivateAddr accepts
  Hears,     \* Hears[p]: the machines whose broadcasts get through to p
  MaxMoves,  \* bound: how often a machine is given another address
  MaxNet,    \* bound: datagrams in flight when a machine sends
  NoAddr

ASSUME DiscoveryAssumption ==
  /\ Private \subseteq Addr /\ NoAddr \notin Addr
  /\ Start \in [Peer -> Addr] /\ \A p, q \in Peer : Start[p] = Start[q] => p = q
  /\ Hears \in [Peer -> SUBSET Peer]
  /\ MaxMoves \in Nat /\ MaxNet \in Nat

VARIABLES
  addr,       \* addr[p]: the address p has
  moves,      \* how many addresses were given so far
  net,        \* the datagrams in flight
  recent,     \* recent[p][q]: lastReply of q is less than 700 ms ago
  table,      \* table[p][q]: the address in p's entry for q, NoAddr if none
  live,       \* live[p][q]: that entry was refreshed in the last 6 s
  paired,     \* paired[p]: the devices in p's configuration
  picked,     \* picked[p][q]: the address at which p dialed q to pair, while it does
  accepted,   \* accepted[p]: the machines that dialed p to pair, while it does
  lastIp      \* lastIp[p][q]: last_ip of q in p's configuration and its file

vars == <<addr, moves, net, recent, table, live, paired, picked, accepted, lastIp>>
deviceVars == <<paired, picked, accepted, lastIp>>
ownVars == <<recent, table, live>>

(* A broadcast is a datagram to each machine it reaches, an answer one to an
   address. *)
Cast == [from : Peer, src : Addr, to : Peer]
Answer == [from : Peer, src : Addr, to : Addr]

TypeOK ==
  /\ addr \in [Peer -> Addr]
  /\ moves \in 0..MaxMoves
  /\ net \subseteq Cast \cup Answer
  /\ recent \in [Peer -> [Peer -> BOOLEAN]]
  /\ table \in [Peer -> [Peer -> Addr \cup {NoAddr}]]
  /\ live \in [Peer -> [Peer -> BOOLEAN]]
  /\ paired \in [Peer -> SUBSET Peer]
  /\ picked \in [Peer -> [Peer -> Addr \cup {NoAddr}]]
  /\ accepted \in [Peer -> SUBSET Peer]
  /\ lastIp \in [Peer -> [Peer -> Addr \cup {NoAddr}]]
  /\ \A p, q \in Peer : live[p][q] => table[p][q] # NoAddr
  /\ \A p, q \in Peer : q \notin paired[p] => lastIp[p][q] = NoAddr
  /\ \A p \in Peer : p \notin paired[p] /\ table[p][p] = NoAddr

Everywhere(v) == [p \in Peer |-> [q \in Peer |-> v]]

Init ==
  /\ addr = Start
  /\ moves = 0
  /\ net = {}
  /\ recent = Everywhere(FALSE)
  /\ table = Everywhere(NoAddr)
  /\ live = Everywhere(FALSE)
  /\ paired = [p \in Peer |-> {}]
  /\ picked = Everywhere(NoAddr)
  /\ accepted = [p \in Peer |-> {}]
  /\ lastIp = Everywhere(NoAddr)
----------------------------------------------------------------------------
Casts(p) == [from : {p}, src : {addr[p]}, to : {q \in Peer : p \in Hears[q]}]

(* broadcastBeacon, every 400 ms. *)
Broadcast(p) ==
  /\ Cardinality(net) <= MaxNet
  /\ net' = net \cup Casts(p)
  /\ UNCHANGED <<addr, moves, ownVars, deviceVars>>

(* The datagram reaches the machine it was sent to, or the one that now has the
   address it was sent to. *)
Reaches(d, p) == d.to = p \/ d.to = addr[p]

(* Mutant: every beacon is answered. *)
Replies_Always(p, d) == {[from |-> p, src |-> addr[p], to |-> d.src]}

(* Mutant: only a device that is paired already is answered. *)
Replies_ToPaired(p, d) ==
  IF recent[p][d.from] \/ d.from \notin paired[p] THEN {}
  ELSE {[from |-> p, src |-> addr[p], to |-> d.src]}

(* The unicast answer: throttled per machine, and only to a private address. *)
Replies(p, d) ==
  IF recent[p][d.from] \/ d.src \notin Private THEN {}
  ELSE {[from |-> p, src |-> addr[p], to |-> d.src]}

(* Mutant: the address is set once, when the configuration has none. *)
Refreshed_Once(p, d) ==
  IF d.from \in paired[p] /\ lastIp[p][d.from] = NoAddr
  THEN [lastIp EXCEPT ![p][d.from] = d.src] ELSE lastIp

(* Mutant: whoever beacons is given an address. *)
Refreshed_Anyone(p, d) == [lastIp EXCEPT ![p][d.from] = d.src]

(* The reconnect refresh, under stateMutex, with the save of the file. *)
Refreshed(p, d) ==
  IF d.from \in paired[p] THEN [lastIp EXCEPT ![p][d.from] = d.src] ELSE lastIp

(* discoveryProc on a beacon that is not its own. *)
RecvBeacon(p, d) ==
  /\ d \in net /\ Reaches(d, p) /\ d.from # p
  /\ table' = [table EXCEPT ![p][d.from] = d.src]
  /\ live' = [live EXCEPT ![p][d.from] = TRUE]
  /\ lastIp' = Refreshed(p, d)
  /\ recent' = [recent EXCEPT ![p][d.from] = TRUE]
  /\ net' = (net \ {d}) \cup Replies(p, d)
  /\ UNCHANGED <<addr, moves, paired, picked, accepted>>

(* A datagram that is dropped, or that only its sender is there to receive. *)
Vanishes(d) ==
  /\ d \in net
  /\ net' = net \ {d}
  /\ UNCHANGED <<addr, moves, ownVars, deviceVars>>

(* 700 ms without an answer to q. *)
WindowEnds(p, q) ==
  /\ recent[p][q]
  /\ recent' = [recent EXCEPT ![p][q] = FALSE]
  /\ UNCHANGED <<addr, moves, net, table, live, deviceVars>>

(* 6 s without a beacon of q: DiscoveryTable::live no longer lists it. *)
Ages(p, q) ==
  /\ live[p][q]
  /\ live' = [live EXCEPT ![p][q] = FALSE]
  /\ UNCHANGED <<addr, moves, net, recent, table, deviceVars>>
----------------------------------------------------------------------------
(* A machine pairs with one other at a time (pairEngaged). *)
Engaged(p) == accepted[p] # {} \/ \E q \in Peer : picked[p][q] # NoAddr

(* The picker lists who is live and not paired yet, with the address of the entry;
   a thread of p dials it, and one of q takes the connection.  A dial that q is too
   busy to take comes to nothing. *)
Pick(p, q) ==
  /\ live[p][q]
  /\ q \notin paired[p]
  /\ ~Engaged(p) /\ ~Engaged(q)
  /\ picked' = [picked EXCEPT ![p][q] = table[p][q]]
  /\ accepted' = [accepted EXCEPT ![q] = @ \cup {p}]
  /\ UNCHANGED <<addr, moves, net, ownVars, paired, lastIp>>

(* Each side stores the device once its own user has confirmed (runPairingSession):
   the one that dialed with the address it dialed, the other with none. *)
StoreDialed(p, q) ==
  /\ picked[p][q] # NoAddr
  /\ paired' = [paired EXCEPT ![p] = @ \cup {q}]
  /\ lastIp' = [lastIp EXCEPT ![p][q] = picked[p][q]]
  /\ picked' = [picked EXCEPT ![p][q] = NoAddr]
  /\ UNCHANGED <<addr, moves, net, ownVars, accepted>>

StoreAccepted(p, q) ==
  /\ q \in accepted[p]
  /\ paired' = [paired EXCEPT ![p] = @ \cup {q}]
  /\ lastIp' = [lastIp EXCEPT ![p][q] = NoAddr]
  /\ accepted' = [accepted EXCEPT ![p] = @ \ {q}]
  /\ UNCHANGED <<addr, moves, net, ownVars, picked>>

(* The pairing comes to nothing on one side, whatever it comes to on the other. *)
PairingFails(p, q) ==
  /\ \/ /\ picked[p][q] # NoAddr
        /\ picked' = [picked EXCEPT ![p][q] = NoAddr]
        /\ UNCHANGED accepted
     \/ /\ q \in accepted[p]
        /\ accepted' = [accepted EXCEPT ![p] = @ \ {q}]
        /\ UNCHANGED picked
  /\ UNCHANGED <<addr, moves, net, ownVars, paired, lastIp>>

(* The router gives p an address no one has. *)
Moves(p, a) ==
  /\ moves < MaxMoves
  /\ \A q \in Peer : addr[q] # a
  /\ addr' = [addr EXCEPT ![p] = a]
  /\ moves' = moves + 1
  /\ UNCHANGED <<net, ownVars, deviceVars>>

(* The program is started again: its file is all it has. *)
Restart(p) ==
  /\ table' = [table EXCEPT ![p] = [q \in Peer |-> NoAddr]]
  /\ live' = [live EXCEPT ![p] = [q \in Peer |-> FALSE]]
  /\ recent' = [recent EXCEPT ![p] = [q \in Peer |-> FALSE]]
  /\ picked' = [picked EXCEPT ![p] = [q \in Peer |-> NoAddr]]
  /\ accepted' = [accepted EXCEPT ![p] = {}]
  /\ UNCHANGED <<addr, moves, net, paired, lastIp>>

Listen(p) ==
  \/ \E d \in net : RecvBeacon(p, d)
  \/ \E q \in Peer : WindowEnds(p, q) \/ Ages(p, q)

PairUp(p) == \E q \in Peer :
  Pick(p, q) \/ StoreDialed(p, q) \/ StoreAccepted(p, q) \/ PairingFails(p, q)

Next ==
  \/ \E p \in Peer : Broadcast(p) \/ Listen(p) \/ PairUp(p) \/ Restart(p)
  \/ \E d \in net : Vanishes(d)
  \/ \E p \in Peer, a \in Addr : Moves(p, a)

Spec == Init /\ [][Next]_vars

(* The program broadcasts and listens for ever. A path loses some datagrams, never
   all; one from or to an address that is nobody's any more does not stay. *)
Hear(p, q) == \E d \in net :
  d.from = q /\ d.src = addr[q] /\ RecvBeacon(p, d)
Clear == \E d \in net :
  /\ d.src # addr[d.from] \/ \A p \in Peer : ~Reaches(d, p)
  /\ Vanishes(d)

FairSpec ==
  /\ Spec
  /\ \A p \in Peer : WF_vars(Broadcast(p))
  /\ \A p, q \in Peer : WF_vars(WindowEnds(p, q))
  /\ \A p, q \in Peer : SF_vars(Hear(p, q))
  /\ WF_vars(Clear)

(* One round of broadcasts and none after it. 700 ms are far longer than datagrams
   take: a window does not end while those two machines' are in flight. *)
RoundNext == \E p \in Peer :
  \/ PairUp(p)
  \/ \E d \in net : RecvBeacon(p, d) \/ Vanishes(d)
  \/ \E q \in Peer : Ages(p, q)
  \/ \E q \in Peer : (\A d \in net : d.from \notin {p, q}) /\ WindowEnds(p, q)

RoundSpec ==
  /\ addr = Start
  /\ moves = 0
  /\ net = UNION {Casts(p) : p \in Peer}
  /\ recent = Everywhere(FALSE)
  /\ table = Everywhere(NoAddr)
  /\ live = Everywhere(FALSE)
  /\ paired = [p \in Peer |-> {}]
  /\ picked = Everywhere(NoAddr)
  /\ accepted = [p \in Peer |-> {}]
  /\ lastIp = Everywhere(NoAddr)
  /\ [][RoundNext]_vars
  /\ \A p \in Peer : WF_vars(\E d \in net : RecvBeacon(p, d))
----------------------------------------------------------------------------
(* Properties *)

(* "a machine whose own broadcast can't reach us ... still becomes visible the
   moment ONE direction's broadcast gets through" (discoveryProc): each of two
   machines comes to list the other when either one hears the other. *)
OneDirectionSuffices == \A p, q \in Peer :
  p # q /\ (p \in Hears[q] \/ q \in Hears[p]) => []<>(live[p][q])

(* A paired machine's dial address follows the address it has (the reconnect
   refresh): when the router and the users are done, every paired device is stored
   under its current address and stays so, whatever was lost, overtaken or paired
   with an old address before. *)
AddressIsFollowed ==
  <>[](picked = Everywhere(NoAddr) /\ accepted = [p \in Peer |-> {}]) =>
    \A p, q \in Peer : <>[](q \in paired[p] => lastIp[p][q] = addr[q])

(* The answers to answers die out (lastReply): a round of beacons does not keep
   two machines answering each other. *)
AnswersDieOut == <>(net = {})
=============================================================================
