------------------------------- MODULE MeshNode -------------------------------
(***************************************************************************)
(* The peer mesh: one MeshNode (app/mesh_node) per machine, and the links  *)
(* between them.  The module has the part of MeshNode that decides who     *)
(* owns input: ownership claims, the heartbeat watchdog, the fail-safe     *)
(* revert, the one-time online/offline notifications and the coordinator   *)
(* election.  A message that carries input, clipboard text or a file       *)
(* announcement has, for this part, the effect of a heartbeat.             *)
(*                                                                         *)
(* Granularity.  All methods of one MeshNode run on one thread, so each    *)
(* is one action, except poll: other machines run while it drains its      *)
(* links, so one received message is one step (PollRecv) and the rest of   *)
(* poll, the liveness refresh with the fail-safe, is another (PollEnd).    *)
(* In between, fresh[p] is not empty and nothing else happens at p.        *)
(*                                                                         *)
(* Time is not a number.  heartbeat_ is kept as the set alive[p] of peers  *)
(* whose last message is younger than the time-out at the node's last      *)
(* now_; at the end of a poll, which reads a new now_, any peers that were *)
(* not heard during that poll may have expired.                            *)
(*                                                                         *)
(* Links are the environment of this module (PeerLinks has them): a wire   *)
(* comes up, each end adds its peer when it has seen the other's hello,    *)
(* the wire breaks, each end removes its peer.  A wire is FIFO; a broken   *)
(* one delivers what was sent before up to the moment the receiving end    *)
(* notices, and loses the rest.                                            *)
(***************************************************************************)
EXTENDS OwnershipState, ServerElection

CONSTANTS
  ConfigPriority,  \* the priority list each machine's configuration holds
  Switcher,        \* the machines whose users ask for a switch
  MaxSeq,          \* bound: the largest logical time of a requested switch
  MaxInFlight,     \* bound: a claim is sent only on wires with fewer messages on them
  MaxBeats         \* bound: a heartbeat is sent only on wires with fewer messages on them

ASSUME BoundsAssumption == MaxSeq \in Nat /\ MaxInFlight \in Nat /\ MaxBeats \in Nat
ASSUME SwitcherAssumption == Switcher \subseteq Peer
ASSUME PriorityAssumption == ConfigPriority \in [Peer -> Seq(Peer)]

VARIABLES
  own,          \* ownership_: the claim held and the logical clock
  peers,        \* the keys of peers_
  alive,        \* heartbeat_: the peers alive at the node's now_
  fresh,        \* the peers a message was handled from in the poll under way
  peerOnline,   \* peerOnline_: the peers last reported online
  priority,     \* election_: the priority list
  online,       \* election_: the online set
  wire,         \* the pairs of machines whose connection works
  chan,         \* chan[p][q]: the messages on the way from p to q
  issued        \* history: every claim ever issued

vars == <<own, peers, alive, fresh, peerOnline, priority, online, wire, chan, issued>>

Heartbeat == [type |-> "Heartbeat"]
SwitchOwner(c) == [type |-> "SwitchOwner", claim |-> c]
Message == [type : {"Heartbeat"}] \cup [type : {"SwitchOwner"}, claim : Claim]

Owner(p) == own[p].current.target
Wired(p, q) == {p, q} \in wire
Wires == {{p, q} : p, q \in Peer} \ {{p} : p \in Peer}

(* The thread of p is not inside poll. *)
AtRest(p) == fresh[p] = {}
----------------------------------------------------------------------------
TypeOK ==
  /\ own \in [Peer -> OwnState]
  /\ peers \in [Peer -> SUBSET Peer]
  /\ alive \in [Peer -> SUBSET Peer]
  /\ fresh \in [Peer -> SUBSET Peer]
  /\ peerOnline \in [Peer -> SUBSET Peer]
  /\ priority \in [Peer -> Seq(Peer)]
  /\ online \in [Peer -> SUBSET Peer]
  /\ wire \in SUBSET Wires
  /\ chan \in [Peer -> [Peer -> Seq(Message)]]
  /\ issued \in SUBSET Claim

(* Every machine has just started: the constructor makes the machine
   eligible, and setPriority then replaces the list by the configured one. *)
Init ==
  /\ own = [p \in Peer |-> BootState(p)]
  /\ peers = [p \in Peer |-> {}]
  /\ alive = [p \in Peer |-> {}]
  /\ fresh = [p \in Peer |-> {}]
  /\ peerOnline = [p \in Peer |-> {}]
  /\ priority = ConfigPriority
  /\ online = [p \in Peer |-> {}]
  /\ wire = {}
  /\ chan = [p \in Peer |-> [q \in Peer |-> <<>>]]
  /\ issued = {BootClaim(p) : p \in Peer}
----------------------------------------------------------------------------
(* The wires, as the environment of the nodes. *)

(* A connection is established that both ends are going to keep: each end keeps
   at most one link per peer (connection_manager drops a second one), so both
   have let go of the old one. *)
WireUp(p, q) ==
  /\ p # q
  /\ ~Wired(p, q)
  /\ q \notin peers[p] /\ p \notin peers[q]
  /\ wire' = wire \cup {{p, q}}
  /\ chan' = [chan EXCEPT ![p][q] = <<>>, ![q][p] = <<>>]
  /\ UNCHANGED <<own, peers, alive, fresh, peerOnline, priority, online, issued>>

(* A connection breaks: nothing that is sent from now on arrives. *)
WireDown(p, q) ==
  /\ Wired(p, q)
  /\ wire' = wire \ {{p, q}}
  /\ UNCHANGED <<own, peers, alive, fresh, peerOnline, priority, online, chan, issued>>
----------------------------------------------------------------------------
(* The methods of MeshNode. *)

HasRoom(p, bound) == \A q \in peers[p] : Wired(p, q) => Len(chan[p][q]) < bound

(* broadcast: to every peer of p; what is sent on a broken wire is lost. *)
Broadcast(p, m) ==
  chan' = [chan EXCEPT ![p] =
             [q \in Peer |-> IF q \in peers[p] /\ Wired(p, q)
                             THEN Append(chan[p][q], m)
                             ELSE chan[p][q]]]

(* addPeer, on the hello of q.  The other end may have dropped the link since,
   as a duplicate or because it crashed: then p adds q without a wire. *)
AddPeer(p, q) ==
  /\ AtRest(p)
  /\ q # p
  /\ q \notin peers[p]
  /\ peers' = [peers EXCEPT ![p] = @ \cup {q}]
  /\ priority' = [priority EXCEPT ![p] = addToPriority(@, q)]
  /\ UNCHANGED <<own, alive, fresh, peerOnline, online, wire, chan, issued>>

(* refreshOnlineAndFailSafe, given the peers that remain and those of them
   that are alive: the one-time notifications (peerOnline follows alive), the
   election's online set and, when the owner is remote and silent, the revert
   to local control.  The revert is a claim that is applied and never sent. *)
Reverts(p, living) == Owner(p) # p /\ Owner(p) \notin living

(* Mutant: the revert is issued at the time of the claim that is held. *)
RevertClaim_SameTime(p) == [SwitchClaim(p, own[p], p) EXCEPT !.sequence = own[p].clock]
RevertClaim(p) == SwitchClaim(p, own[p], p)

(* Mutant: the owner is examined in the loop over peers_, so that an owner that
   is no peer any more is overlooked. *)
RefreshOnlineAndFailSafe_PeersOnly(p, remaining, living) ==
  /\ peerOnline' = [peerOnline EXCEPT ![p] = remaining \cap living]
  /\ online' = [online EXCEPT ![p] = {p} \cup (remaining \cap living)]
  /\ IF Reverts(p, living) /\ Owner(p) \in remaining
     THEN /\ own' = [own EXCEPT ![p] = applyClaim(@, RevertClaim(p))]
          /\ issued' = issued \cup {RevertClaim(p)}
     ELSE UNCHANGED <<own, issued>>

RefreshOnlineAndFailSafe(p, remaining, living) ==
  /\ peerOnline' = [peerOnline EXCEPT ![p] = remaining \cap living]
  /\ online' = [online EXCEPT ![p] = {p} \cup (remaining \cap living)]
  /\ IF Reverts(p, living)
     THEN /\ own' = [own EXCEPT ![p] = applyClaim(@, RevertClaim(p))]
          /\ issued' = issued \cup {RevertClaim(p)}
     ELSE UNCHANGED <<own, issued>>

(* Mutant: the watchdog does not forget a peer that is removed. *)
RemovePeer_KeepsBeat(p, q) ==
  /\ AtRest(p)
  /\ q \in peers[p]
  /\ ~Wired(p, q)
  /\ peers' = [peers EXCEPT ![p] = @ \ {q}]
  /\ RefreshOnlineAndFailSafe(p, peers[p] \ {q}, alive[p])
  /\ chan' = [chan EXCEPT ![q][p] = <<>>]
  /\ UNCHANGED <<alive, fresh, priority, wire>>

(* removePeer: called when the transport reports the connection closed. *)
RemovePeer(p, q) ==
  /\ AtRest(p)
  /\ q \in peers[p]
  /\ ~Wired(p, q)
  /\ peers' = [peers EXCEPT ![p] = @ \ {q}]
  /\ alive' = [alive EXCEPT ![p] = @ \ {q}]
  /\ RefreshOnlineAndFailSafe(p, peers[p] \ {q}, alive[p] \ {q})
  /\ chan' = [chan EXCEPT ![q][p] = <<>>]
  /\ UNCHANGED <<fresh, priority, wire>>

(* requestSwitchTo.  A target that is not online is refused with a callback
   and no change of state. *)
RequestSwitchTo(p, target) ==
  LET claim == SwitchClaim(p, own[p], target)
  IN  /\ p \in Switcher
      /\ AtRest(p)
      /\ target = p \/ target \in alive[p]
      /\ own[p].clock < MaxSeq
      /\ HasRoom(p, MaxInFlight)
      /\ own' = [own EXCEPT ![p] = applyClaim(@, claim)]
      /\ Broadcast(p, SwitchOwner(claim))
      /\ issued' = issued \cup {claim}
      /\ UNCHANGED <<peers, alive, fresh, peerOnline, priority, online, wire>>

(* sendHeartbeats, when the interval has elapsed. *)
SendHeartbeats(p) ==
  /\ AtRest(p)
  /\ HasRoom(p, MaxBeats)
  /\ Broadcast(p, Heartbeat)
  /\ UNCHANGED <<own, peers, alive, fresh, peerOnline, priority, online, wire, issued>>

(* Mutant: poll stops at the first peer instead of going on to the next. *)
PollRecv_FirstPeerOnly(p, q) ==
  /\ q \in peers[p]
  /\ \A r \in peers[p] : q <= r
  /\ chan[q][p] # <<>>
  /\ LET m == Head(chan[q][p])
     IN  own' = IF m.type = "SwitchOwner"
                THEN [own EXCEPT ![p] = applyClaim(@, m.claim)]
                ELSE own
  /\ alive' = [alive EXCEPT ![p] = @ \cup {q}]
  /\ fresh' = [fresh EXCEPT ![p] = @ \cup {q}]
  /\ chan' = [chan EXCEPT ![q][p] = Tail(@)]
  /\ UNCHANGED <<peers, peerOnline, priority, online, wire, issued>>

(* One turn of poll's inner loop: handle.  Peers are drained in the order of
   their ids.  Any message proves the sender alive. *)
PollRecv(p, q) ==
  /\ q \in peers[p]
  /\ \A r \in fresh[p] : r <= q
  /\ chan[q][p] # <<>>
  /\ LET m == Head(chan[q][p])
     IN  own' = IF m.type = "SwitchOwner"
                THEN [own EXCEPT ![p] = applyClaim(@, m.claim)]
                ELSE own
  /\ alive' = [alive EXCEPT ![p] = @ \cup {q}]
  /\ fresh' = [fresh EXCEPT ![p] = @ \cup {q}]
  /\ chan' = [chan EXCEPT ![q][p] = Tail(@)]
  /\ UNCHANGED <<peers, peerOnline, priority, online, wire, issued>>

(* The rest of poll.  The peers in `silent' have not been heard for longer
   than the time-out. *)
PollEnd(p, silent) ==
  /\ silent \subseteq alive[p] \ fresh[p]
  /\ alive' = [alive EXCEPT ![p] = @ \ silent]
  /\ fresh' = [fresh EXCEPT ![p] = {}]
  /\ RefreshOnlineAndFailSafe(p, peers[p], alive[p] \ silent)
  /\ UNCHANGED <<peers, priority, wire, chan>>

Next ==
  \/ \E p, q \in Peer : \/ WireUp(p, q) \/ WireDown(p, q)
                        \/ AddPeer(p, q) \/ RemovePeer(p, q)
                        \/ PollRecv(p, q) \/ RequestSwitchTo(p, q)
  \/ \E p \in Peer : \/ SendHeartbeats(p)
                     \/ \E silent \in SUBSET alive[p] : PollEnd(p, silent)

Spec == Init /\ [][Next]_vars

(* The fairness of the pump: poll runs every few milliseconds for as long as
   the application does, so what has arrived is handled, a closed connection
   is noticed, and a peer that can no longer be heard is found silent. *)
Gone(p) == {q \in alive[p] \ fresh[p] : ~Wired(p, q) /\ chan[q][p] = <<>>}

PumpFairness ==
  \A p \in Peer :
    /\ WF_vars(PollEnd(p, Gone(p)))
    /\ \A q \in Peer : WF_vars(PollRecv(p, q)) /\ WF_vars(RemovePeer(p, q))

FairSpec == Spec /\ PumpFairness
----------------------------------------------------------------------------
(* A stable mesh: every machine is linked to every other, nothing breaks and
   nobody is found silent.  It starts from the state in which all links have
   come up and nobody has switched yet; every machine was in the priority
   list of every other when they were paired. *)
Others(p) == Peer \ {p}

StableInit ==
  /\ \A p \in Peer : Others(p) \subseteq Elements(ConfigPriority[p])
  /\ own = [p \in Peer |-> BootState(p)]
  /\ peers = [p \in Peer |-> Others(p)]
  /\ alive = [p \in Peer |-> Others(p)]
  /\ fresh = [p \in Peer |-> {}]
  /\ peerOnline = [p \in Peer |-> Others(p)]
  /\ priority = ConfigPriority
  /\ online = [p \in Peer |-> Peer]
  /\ wire = Wires
  /\ chan = [p \in Peer |-> [q \in Peer |-> <<>>]]
  /\ issued = {BootClaim(p) : p \in Peer}

StableNext ==
  \/ \E p, q \in Peer : PollRecv(p, q) \/ RequestSwitchTo(p, q)
  \/ \E p \in Peer : SendHeartbeats(p) \/ PollEnd(p, {})

StableSpec == StableInit /\ [][StableNext]_vars

FairStableSpec ==
  /\ StableSpec
  /\ \A p \in Peer : /\ WF_vars(PollEnd(p, {}))
                     /\ \A q \in Peer : WF_vars(PollRecv(p, q))
----------------------------------------------------------------------------
(* Properties *)

ClaimsOn(msgs) == {msgs[i].claim : i \in {j \in DOMAIN msgs : msgs[j].type = "SwitchOwner"}}
InFlight(p, q) == ClaimsOn(chan[p][q])

ClaimsInMesh == {own[p].current : p \in Peer}
                  \cup UNION {InFlight(p, q) : p, q \in Peer}

(* (sequence, origin) identifies a claim among those held or on the way, so
   claimSupersedes orders them totally and no two machines can settle on
   different claims that neither supersedes (ownership_state.h, claimSupersedes;
   mesh_node.cpp, requestSwitchTo and the unsent revert of the fail-safe). *)
StampIdentifiesClaim ==
  \A c, d \in ClaimsInMesh :
    c.origin = d.origin /\ c.sequence = d.sequence => c = d

(* The inductive strengthening of StampIdentifiesClaim: a machine's clock is
   the time of the claim it holds; what is held or on the way was issued; an
   issuer's clock covers everything it issued, so its next stamp is new; only
   requested switches travel, and only they hand input to somebody else. *)
ClockIsHeldTime == \A p \in Peer : own[p].clock = own[p].current.sequence

HeldWasIssued == \A p \in Peer :
  /\ own[p].current \in issued
  /\ Owner(p) # p => own[p].clock <= MaxSeq

SentWasIssued == \A p, q \in Peer : \A c \in InFlight(p, q) :
  c \in issued /\ c.sequence <= MaxSeq

IssuerClockCovers == \A c \in issued : c.sequence <= own[c.origin].clock

StampsAreUnique == \A c, d \in issued :
  c.origin = d.origin /\ c.sequence = d.sequence => c = d

OwnershipInv ==
  /\ ClockIsHeldTime
  /\ HeldWasIssued
  /\ SentWasIssued
  /\ IssuerClockCovers
  /\ StampsAreUnique

(* The fail-safe: whenever a machine is not in the middle of a poll, the
   machine it takes for the owner is itself or a peer it has heard within the
   time-out; no lost link, late claim or removed peer leaves its input with a
   machine it cannot hear (mesh_node.cpp, refreshOnlineAndFailSafe). *)
NoSilentOwner ==
  \A p \in Peer : AtRest(p) => Owner(p) = p \/ Owner(p) \in alive[p]

(* What was last reported for a peer (onPeerOnline / onPeerOffline, each fired
   once per change) and what the election counts as online both match the
   watchdog, through removal and return of peers (mesh_node.cpp, removePeer and
   refreshOnlineAndFailSafe). *)
ReportedLivenessIsCurrent ==
  \A p \in Peer : AtRest(p) =>
    /\ peerOnline[p] = alive[p]
    /\ online[p] \ {p} = alive[p]
    /\ alive[p] \subseteq peers[p]

(* The mesh, with links that come and go and peers found silent, implements
   the replicated register: every machine only ever moves up, in one total
   order, to claims that somebody issued under a stamp never used before. *)
Reg == INSTANCE OwnershipRegister WITH
         Times <- 0..(MaxSeq + 1),
         view  <- [p \in Peer |-> own[p].current]

ImplementsRegister == Reg!RegSpec

Quiet == \A p, q \in Peer : InFlight(p, q) = {}

(* In a stable mesh, as soon as somebody has switched and no claim is on the
   way, all machines hold the same claim, however many switches raced
   (ownership_state.h: all peers converge on a single winner). *)
StableAgreement ==
  Quiet /\ (\E p \in Peer : own[p].clock > 0)
    => \A p, q \in Peer : own[p].current = own[q].current

(* In a stable mesh the machines do come to agree, and stay in agreement once
   the switching ends; the switches are finitely many here (MaxSeq). *)
StableConvergence ==
  <>[](\E p \in Peer : own[p].clock > 0)
    => <>[](\A p, q \in Peer : own[p].current = own[q].current)

(* A machine that lost its link to the owner for good does not stay under that
   owner: again and again it is found with another one (spec 15, fail-safe). *)
LostOwnerIsReleased ==
  \A p, q \in Peer : <>[](~Wired(p, q)) => []<>(Owner(p) # q \/ p = q)
=============================================================================
