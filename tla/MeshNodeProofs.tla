---------------------------- MODULE MeshNodeProofs ----------------------------
(***************************************************************************)
(* What MeshNode guarantees for any set of machines and any bounds: types, *)
(* the uniqueness of stamps, the fail-safe, the agreement of the three     *)
(* records of who is alive, the refinement of the register, and at the end *)
(* why the machines of a stable mesh agree on the owner.                   *)
(***************************************************************************)
EXTENDS MeshNode, SequenceTheorems, TLAPS

(* applyClaim keeps a state a state. *)
LEMMA ApplyClaimType ==
  ASSUME NEW st \in OwnState, NEW c \in Claim
  PROVE  applyClaim(st, c) \in OwnState
BY DEF applyClaim, OwnState, Claim

(* The claim a machine issues is a claim. *)
LEMMA SwitchClaimType ==
  ASSUME NEW p \in Peer, NEW st \in OwnState, NEW t \in Peer
  PROVE  SwitchClaim(p, st, t) \in Claim
BY DEF SwitchClaim, OwnState, Claim

LEMMA BootType ==
  ASSUME NEW p \in Peer
  PROVE  BootClaim(p) \in Claim /\ BootState(p) \in OwnState
BY DEF BootClaim, BootState, OwnState, Claim

(* Adding a machine to a priority list leaves a list of machines. *)
LEMMA AddToPriorityType ==
  ASSUME NEW list \in Seq(Peer), NEW id \in Peer
  PROVE  addToPriority(list, id) \in Seq(Peer)
BY DEF addToPriority

LEMMA MessageType ==
  /\ Heartbeat \in Message
  /\ \A c \in Claim : SwitchOwner(c) \in Message
  /\ \A m \in Message : m.type = "SwitchOwner" => m.claim \in Claim
BY DEF Heartbeat, SwitchOwner, Message

(* Broadcasting a message keeps every wire a sequence of messages. *)
LEMMA BroadcastType ==
  ASSUME TypeOK, NEW p \in Peer, NEW m \in Message, Broadcast(p, m)
  PROVE  chan' \in [Peer -> [Peer -> Seq(Message)]]
<1>1. \A q \in Peer : chan[p][q] \in Seq(Message) /\ Append(chan[p][q], m) \in Seq(Message)
  BY DEF TypeOK
<1> QED BY <1>1 DEF TypeOK, Broadcast

(* The refresh keeps the types of what it assigns. *)
LEMMA RefreshType ==
  ASSUME TypeOK, NEW p \in Peer, NEW remaining \in SUBSET Peer, NEW living,
         RefreshOnlineAndFailSafe(p, remaining, living)
  PROVE  /\ own' \in [Peer -> OwnState]
         /\ peerOnline' \in [Peer -> SUBSET Peer]
         /\ online' \in [Peer -> SUBSET Peer]
         /\ issued' \in SUBSET Claim
<1>1. own[p] \in OwnState
  BY DEF TypeOK
<1>2. RevertClaim(p) \in Claim
  BY <1>1, SwitchClaimType DEF RevertClaim
<1>3. applyClaim(own[p], RevertClaim(p)) \in OwnState
  BY <1>1, <1>2, ApplyClaimType
<1>4. CASE Reverts(p, living)
  BY <1>2, <1>3, <1>4 DEF TypeOK, RefreshOnlineAndFailSafe
<1>5. CASE ~Reverts(p, living)
  BY <1>5 DEF TypeOK, RefreshOnlineAndFailSafe
<1> QED BY <1>4, <1>5

LEMMA InitType == Init => TypeOK
BY BootType, PriorityAssumption DEF Init, TypeOK

LEMMA NextType == TypeOK /\ [Next]_vars => TypeOK'
<1> SUFFICES ASSUME TypeOK, [Next]_vars PROVE TypeOK'
  OBVIOUS
<1>1. ASSUME NEW p \in Peer, NEW q \in Peer, WireUp(p, q) PROVE TypeOK'
  <2>1. {p, q} \in Wires
    BY <1>1 DEF WireUp, Wires
  <2>2. wire' \in SUBSET Wires
    BY <1>1, <2>1 DEF WireUp, TypeOK
  <2>3. <<>> \in Seq(Message)
    OBVIOUS
  <2>4. chan' \in [Peer -> [Peer -> Seq(Message)]]
    BY <1>1, <2>3 DEF WireUp, TypeOK
  <2> QED BY <1>1, <2>2, <2>4 DEF WireUp, TypeOK
<1>2. ASSUME NEW p \in Peer, NEW q \in Peer, WireDown(p, q) PROVE TypeOK'
  BY <1>2 DEF WireDown, TypeOK
<1>3. ASSUME NEW p \in Peer, NEW q \in Peer, AddPeer(p, q) PROVE TypeOK'
  <2>1. addToPriority(priority[p], q) \in Seq(Peer)
    BY AddToPriorityType DEF TypeOK
  <2> QED BY <1>3, <2>1 DEF AddPeer, TypeOK
<1>4. ASSUME NEW p \in Peer, NEW q \in Peer, RemovePeer(p, q) PROVE TypeOK'
  <2>1. peers[p] \ {q} \in SUBSET Peer
    BY DEF TypeOK
  <2>2. RefreshOnlineAndFailSafe(p, peers[p] \ {q}, alive[p] \ {q})
    BY <1>4 DEF RemovePeer
  <2>3. /\ own' \in [Peer -> OwnState] /\ issued' \in SUBSET Claim
        /\ peerOnline' \in [Peer -> SUBSET Peer] /\ online' \in [Peer -> SUBSET Peer]
    BY <2>1, <2>2, RefreshType
  <2>4. chan' \in [Peer -> [Peer -> Seq(Message)]]
    <3>1. <<>> \in Seq(Message)
      OBVIOUS
    <3> QED BY <1>4, <3>1 DEF RemovePeer, TypeOK
  <2> QED BY <1>4, <2>3, <2>4 DEF RemovePeer, TypeOK
<1>5. ASSUME NEW p \in Peer, NEW q \in Peer, PollRecv(p, q) PROVE TypeOK'
  <2> DEFINE m == Head(chan[q][p])
  <2>1. chan[q][p] \in Seq(Message) /\ chan[q][p] # <<>>
    BY <1>5 DEF PollRecv, TypeOK
  <2>2. m \in Message /\ Tail(chan[q][p]) \in Seq(Message)
    BY <2>1, HeadTailProperties
  <2>3. m.type = "SwitchOwner" => applyClaim(own[p], m.claim) \in OwnState
    BY <2>2, MessageType, ApplyClaimType DEF TypeOK
  <2>4. own' \in [Peer -> OwnState]
    BY <1>5, <2>3 DEF PollRecv, TypeOK
  <2>5. chan' = [chan EXCEPT ![q][p] = Tail(chan[q][p])]
    BY <1>5 DEF PollRecv
  <2>6. chan' \in [Peer -> [Peer -> Seq(Message)]]
    BY <2>2, <2>5 DEF TypeOK
  <2>7. alive' \in [Peer -> SUBSET Peer] /\ fresh' \in [Peer -> SUBSET Peer]
    BY <1>5 DEF PollRecv, TypeOK
  <2> QED BY <1>5, <2>4, <2>6, <2>7 DEF PollRecv, TypeOK
<1>6. ASSUME NEW p \in Peer, NEW t \in Peer, RequestSwitchTo(p, t) PROVE TypeOK'
  <2> DEFINE claim == SwitchClaim(p, own[p], t)
  <2>1. claim \in Claim /\ applyClaim(own[p], claim) \in OwnState
    BY SwitchClaimType, ApplyClaimType DEF TypeOK
  <2>2. chan' \in [Peer -> [Peer -> Seq(Message)]]
    BY <1>6, <2>1, MessageType, BroadcastType DEF RequestSwitchTo
  <2> QED BY <1>6, <2>1, <2>2 DEF RequestSwitchTo, TypeOK
<1>7. ASSUME NEW p \in Peer, SendHeartbeats(p) PROVE TypeOK'
  <2>1. chan' \in [Peer -> [Peer -> Seq(Message)]]
    BY <1>7, MessageType, BroadcastType DEF SendHeartbeats
  <2> QED BY <1>7, <2>1 DEF SendHeartbeats, TypeOK
<1>8. ASSUME NEW p \in Peer, NEW silent \in SUBSET alive[p], PollEnd(p, silent) PROVE TypeOK'
  <2>1. peers[p] \in SUBSET Peer
    BY DEF TypeOK
  <2>2. RefreshOnlineAndFailSafe(p, peers[p], alive[p] \ silent)
    BY <1>8 DEF PollEnd
  <2>3. /\ own' \in [Peer -> OwnState] /\ issued' \in SUBSET Claim
        /\ peerOnline' \in [Peer -> SUBSET Peer] /\ online' \in [Peer -> SUBSET Peer]
    BY <2>1, <2>2, RefreshType
  <2> QED BY <1>8, <2>3 DEF PollEnd, TypeOK
<1>9. CASE UNCHANGED vars
  BY <1>9 DEF vars, TypeOK
<1> QED BY <1>1, <1>2, <1>3, <1>4, <1>5, <1>6, <1>7, <1>8, <1>9 DEF Next

(* Every machine's fields, the wires and what they carry keep their types,
   whatever links come and go (mesh_node.h, the members of MeshNode). *)
THEOREM TypeCorrect == Spec => []TypeOK
BY InitType, NextType, PTL DEF Spec
----------------------------------------------------------------------------
(* The claims on a wire, as messages are sent and received. *)
LEMMA ClaimsOnEmpty == ClaimsOn(<<>>) = {}
BY DEF ClaimsOn

LEMMA ClaimsOnAppend ==
  ASSUME NEW s \in Seq(Message), NEW m \in Message
  PROVE  /\ m.type # "SwitchOwner" => ClaimsOn(Append(s, m)) \subseteq ClaimsOn(s)
         /\ m.type = "SwitchOwner" => ClaimsOn(Append(s, m)) \subseteq ClaimsOn(s) \cup {m.claim}
<1> DEFINE t == Append(s, m)
<1>1. /\ DOMAIN t = 1..(Len(s) + 1)
      /\ DOMAIN s = 1..Len(s)
      /\ Len(s) \in Nat
      /\ \A i \in 1..Len(s) : t[i] = s[i]
      /\ t[Len(s) + 1] = m
  BY AppendProperties
<1> HIDE DEF t
<1>2. \A j \in DOMAIN t : j \in DOMAIN s \/ j = Len(s) + 1
  BY <1>1
<1> QED BY <1>1, <1>2 DEF ClaimsOn, t

LEMMA ClaimsOnTail ==
  ASSUME NEW s \in Seq(Message), s # <<>>
  PROVE  ClaimsOn(Tail(s)) \subseteq ClaimsOn(s)
<1> DEFINE t == Tail(s)
<1>1. /\ Len(s) \in Nat \ {0}
      /\ DOMAIN t = 1..(Len(s) - 1)
      /\ DOMAIN s = 1..Len(s)
      /\ \A i \in 1..(Len(s) - 1) : t[i] = s[i + 1]
  BY HeadTailProperties, EmptySeq, LenProperties
<1> HIDE DEF t
<1>2. \A j \in DOMAIN t : (j + 1) \in DOMAIN s /\ t[j] = s[j + 1]
  BY <1>1
<1> QED BY <1>2 DEF ClaimsOn, t

LEMMA ClaimsOnHead ==
  ASSUME NEW s \in Seq(Message), s # <<>>, Head(s).type = "SwitchOwner"
  PROVE  Head(s).claim \in ClaimsOn(s)
<1>1. 1 \in DOMAIN s /\ Head(s) = s[1]
  BY EmptySeq, LenProperties
<1> QED BY <1>1 DEF ClaimsOn

LEMMA BroadcastInFlight ==
  ASSUME TypeOK, NEW p \in Peer, NEW m \in Message, Broadcast(p, m),
         NEW a \in Peer, NEW b \in Peer
  PROVE  /\ m.type # "SwitchOwner" => InFlight(a, b)' \subseteq InFlight(a, b)
         /\ m.type = "SwitchOwner" => InFlight(a, b)' \subseteq InFlight(a, b) \cup {m.claim}
<1>1. chan[a][b] \in Seq(Message)
  BY DEF TypeOK
<1>2. chan'[a][b] = chan[a][b] \/ chan'[a][b] = Append(chan[a][b], m)
  BY DEF Broadcast, TypeOK
<1> QED BY <1>1, <1>2, ClaimsOnAppend DEF InFlight
----------------------------------------------------------------------------
(* The three ways a step touches ownership. *)

NoNewClaims == \A a, b \in Peer : InFlight(a, b)' \subseteq InFlight(a, b)

(* A step that leaves ownership alone. *)
LEMMA IdleStep ==
  ASSUME TypeOK, OwnershipInv, UNCHANGED <<own, issued>>, NoNewClaims
  PROVE  OwnershipInv'
BY DEF OwnershipInv, ClockIsHeldTime, HeldWasIssued, SentWasIssued, IssuerClockCovers,
       StampsAreUnique, NoNewClaims, Owner

(* Adopting, or ignoring, a claim that travelled. *)
LEMMA AdoptStep ==
  ASSUME TypeOK, OwnershipInv, NEW p \in Peer, NEW c \in issued, c.sequence <= MaxSeq,
         own' = [own EXCEPT ![p] = applyClaim(own[p], c)],
         issued' = issued, NoNewClaims
  PROVE  OwnershipInv'
<1> USE BoundsAssumption
<1>1. c \in Claim /\ own[p] \in OwnState /\ own[p].current \in Claim /\ own \in [Peer -> OwnState]
  BY DEF TypeOK, OwnState
<1>2. /\ own'[p].clock = own'[p].current.sequence
      /\ own'[p].clock >= own[p].clock
      /\ own'[p].current \in {own[p].current, c}
      /\ own'[p].current = own[p].current => own'[p].clock = own[p].clock
      /\ own'[p].current = c => own'[p].clock = c.sequence
  BY <1>1, SMTT(30) DEF OwnershipInv, ClockIsHeldTime, applyClaim, claimSupersedes, Claim, OwnState
<1>3. \A r \in Peer : r # p => own'[r] = own[r]
  BY <1>1
<1>4. ClockIsHeldTime'
  BY <1>2, <1>3 DEF OwnershipInv, ClockIsHeldTime
<1>5. HeldWasIssued'
  BY <1>2, <1>3 DEF OwnershipInv, HeldWasIssued, Owner
<1>6. SentWasIssued'
  BY DEF OwnershipInv, SentWasIssued, NoNewClaims
<1>7. IssuerClockCovers'
  <2> SUFFICES ASSUME NEW d \in issued PROVE d.sequence <= own'[d.origin].clock
    BY DEF IssuerClockCovers
  <2>1. d \in Claim /\ d.origin \in Peer /\ d.sequence \in Nat
    BY DEF TypeOK, Claim
  <2>2. own[d.origin].clock \in Nat /\ own'[p].clock \in Nat /\ own[p].clock \in Nat
    BY <1>1, <1>2, <2>1 DEF Claim, OwnState
  <2>3. d.sequence <= own[d.origin].clock
    BY DEF OwnershipInv, IssuerClockCovers
  <2> QED BY <1>2, <1>3, <2>1, <2>2, <2>3
<1>8. StampsAreUnique'
  BY DEF OwnershipInv, StampsAreUnique
<1> QED BY <1>4, <1>5, <1>6, <1>7, <1>8 DEF OwnershipInv

(* Issuing a claim: a requested switch, or the revert to local control. *)
LEMMA IssueStep ==
  ASSUME TypeOK, OwnershipInv, NEW p \in Peer, NEW t \in Peer, NEW c,
         c = SwitchClaim(p, own[p], t),
         own' = [own EXCEPT ![p] = applyClaim(own[p], c)],
         issued' = issued \cup {c},
         \/ t = p /\ NoNewClaims
         \/ /\ own[p].clock < MaxSeq
            /\ \A a, b \in Peer : InFlight(a, b)' \subseteq InFlight(a, b) \cup {c}
  PROVE  OwnershipInv'
<1> USE BoundsAssumption
<1>1. c \in Claim /\ own[p] \in OwnState /\ own[p].current \in Claim /\ own \in [Peer -> OwnState]
  BY SwitchClaimType DEF TypeOK, OwnState
<1>2. /\ c.origin = p /\ c.target = t /\ c.sequence = own[p].clock + 1
      /\ own[p].clock \in Nat
  BY <1>1 DEF SwitchClaim, OwnState
<1>3. own'[p].current = c /\ own'[p].clock = c.sequence
  BY <1>1, <1>2 DEF OwnershipInv, ClockIsHeldTime, applyClaim, claimSupersedes, Claim, OwnState
<1>4. \A r \in Peer : r # p => own'[r] = own[r]
  BY <1>1
<1>5. ClockIsHeldTime'
  BY <1>3, <1>4 DEF OwnershipInv, ClockIsHeldTime
<1>6. HeldWasIssued'
  BY <1>2, <1>3, <1>4 DEF OwnershipInv, HeldWasIssued, Owner
<1>7. SentWasIssued'
  BY <1>2 DEF OwnershipInv, SentWasIssued, NoNewClaims
<1>8. \A d \in issued : /\ d \in Claim /\ d.origin \in Peer /\ d.sequence \in Nat
                        /\ own[d.origin].clock \in Nat
                        /\ d.sequence <= own[d.origin].clock
  BY <1>1 DEF OwnershipInv, IssuerClockCovers, TypeOK, Claim, OwnState
<1>9. IssuerClockCovers'
  BY <1>2, <1>3, <1>4, <1>8 DEF IssuerClockCovers
<1>10. \A d \in issued : d.origin = c.origin => d.sequence < c.sequence
  BY <1>2, <1>8
<1>11. StampsAreUnique'
  BY <1>2, <1>8, <1>10 DEF OwnershipInv, StampsAreUnique
<1> QED BY <1>5, <1>6, <1>7, <1>9, <1>11 DEF OwnershipInv
----------------------------------------------------------------------------
(* Every step is of one of the three kinds. *)
Idle == UNCHANGED <<own, issued>> /\ NoNewClaims

Adopts(p, c) ==
  /\ c \in issued
  /\ c.sequence <= MaxSeq
  /\ own' = [own EXCEPT ![p] = applyClaim(own[p], c)]
  /\ issued' = issued
  /\ NoNewClaims

Issues(p, t) ==
  LET c == SwitchClaim(p, own[p], t)
  IN  /\ own' = [own EXCEPT ![p] = applyClaim(own[p], c)]
      /\ issued' = issued \cup {c}
      /\ \/ t = p /\ Owner(p) # p /\ NoNewClaims
         \/ /\ own[p].clock < MaxSeq
            /\ \A a, b \in Peer : InFlight(a, b)' \subseteq InFlight(a, b) \cup {c}

LEMMA RefreshKinds ==
  ASSUME NEW p \in Peer, NEW remaining, NEW living, NoNewClaims,
         RefreshOnlineAndFailSafe(p, remaining, living)
  PROVE  Idle \/ Issues(p, p)
<1>1. CASE Reverts(p, living)
  BY <1>1 DEF RefreshOnlineAndFailSafe, Reverts, RevertClaim, Issues
<1>2. CASE ~Reverts(p, living)
  BY <1>2 DEF RefreshOnlineAndFailSafe, Idle
<1> QED BY <1>1, <1>2

LEMMA StepKinds ==
  ASSUME TypeOK, OwnershipInv, [Next]_vars
  PROVE  \/ Idle
         \/ \E p \in Peer : \E c \in issued : Adopts(p, c)
         \/ \E p, t \in Peer : Issues(p, t)
<1> USE DEF InFlight
<1>1. ASSUME NEW p \in Peer, NEW q \in Peer, WireUp(p, q) PROVE Idle
  <2>1. \A a, b \in Peer : chan'[a][b] \in {chan[a][b], <<>>}
    BY <1>1 DEF WireUp, TypeOK
  <2> QED BY <1>1, <2>1, ClaimsOnEmpty DEF WireUp, Idle, NoNewClaims
<1>2. ASSUME NEW p \in Peer, NEW q \in Peer, WireDown(p, q) PROVE Idle
  BY <1>2 DEF WireDown, Idle, NoNewClaims
<1>3. ASSUME NEW p \in Peer, NEW q \in Peer, AddPeer(p, q) PROVE Idle
  BY <1>3 DEF AddPeer, Idle, NoNewClaims
<1>4. ASSUME NEW p \in Peer, NEW q \in Peer, RemovePeer(p, q) PROVE Idle \/ Issues(p, p)
  <2>1. \A a, b \in Peer : chan'[a][b] \in {chan[a][b], <<>>}
    BY <1>4 DEF RemovePeer, TypeOK
  <2>2. NoNewClaims
    BY <2>1, ClaimsOnEmpty DEF NoNewClaims
  <2> QED BY <1>4, <2>2, RefreshKinds DEF RemovePeer
<1>5. ASSUME NEW p \in Peer, NEW q \in Peer, PollRecv(p, q)
      PROVE  Idle \/ \E c \in issued : Adopts(p, c)
  <2> DEFINE m == Head(chan[q][p])
  <2>1. chan[q][p] \in Seq(Message) /\ chan[q][p] # <<>>
    BY <1>5 DEF PollRecv, TypeOK
  <2>2. \A a, b \in Peer : chan'[a][b] = chan[a][b] \/ (a = q /\ b = p /\ chan'[a][b] = Tail(chan[q][p]))
    BY <1>5 DEF PollRecv, TypeOK
  <2>3. NoNewClaims
    BY <2>1, <2>2, ClaimsOnTail DEF NoNewClaims
  <2>4. CASE m.type = "SwitchOwner"
    <3>1. m.claim \in InFlight(q, p)
      BY <2>1, <2>4, ClaimsOnHead
    <3>2. m.claim \in issued /\ m.claim.sequence <= MaxSeq
      BY <3>1 DEF OwnershipInv, SentWasIssued
    <3>3. Adopts(p, m.claim)
      BY <1>5, <2>3, <2>4, <3>2 DEF PollRecv, Adopts
    <3> QED BY <3>2, <3>3
  <2>5. CASE m.type # "SwitchOwner"
    BY <1>5, <2>3, <2>5 DEF PollRecv, Idle
  <2> QED BY <2>4, <2>5
<1>6. ASSUME NEW p \in Peer, NEW t \in Peer, RequestSwitchTo(p, t) PROVE Issues(p, t)
  <2> DEFINE c == SwitchClaim(p, own[p], t)
  <2>1. c \in Claim
    BY SwitchClaimType DEF TypeOK
  <2>2. SwitchOwner(c) \in Message /\ SwitchOwner(c).type = "SwitchOwner" /\ SwitchOwner(c).claim = c
    BY <2>1, MessageType DEF SwitchOwner
  <2>3. Broadcast(p, SwitchOwner(c))
    BY <1>6 DEF RequestSwitchTo
  <2>4. \A a, b \in Peer : InFlight(a, b)' \subseteq InFlight(a, b) \cup {c}
    BY <2>2, <2>3, BroadcastInFlight
  <2> QED BY <1>6, <2>4 DEF RequestSwitchTo, Issues
<1>7. ASSUME NEW p \in Peer, SendHeartbeats(p) PROVE Idle
  <2>1. Heartbeat \in Message /\ Heartbeat.type # "SwitchOwner" /\ Broadcast(p, Heartbeat)
    BY <1>7, MessageType DEF SendHeartbeats, Heartbeat
  <2>2. NoNewClaims
    BY <2>1, BroadcastInFlight DEF NoNewClaims
  <2> QED BY <1>7, <2>2 DEF SendHeartbeats, Idle
<1>8. ASSUME NEW p \in Peer, NEW silent \in SUBSET alive[p], PollEnd(p, silent)
      PROVE  Idle \/ Issues(p, p)
  <2>1. NoNewClaims
    BY <1>8 DEF PollEnd, NoNewClaims
  <2> QED BY <1>8, <2>1, RefreshKinds DEF PollEnd
<1>9. CASE UNCHANGED vars
  BY <1>9 DEF vars, Idle, NoNewClaims
<1> QED BY <1>1, <1>2, <1>3, <1>4, <1>5, <1>6, <1>7, <1>8, <1>9 DEF Next

(* Before anybody has switched. *)
LEMMA BootOwnership ==
  ASSUME own = [p \in Peer |-> BootState(p)],
         chan = [p \in Peer |-> [q \in Peer |-> <<>>]],
         issued = {BootClaim(p) : p \in Peer}
  PROVE  OwnershipInv
<1> USE BoundsAssumption
<1>1. \A p, q \in Peer : InFlight(p, q) = {}
  BY ClaimsOnEmpty DEF InFlight
<1>2. \A p \in Peer : /\ own[p].current = BootClaim(p) /\ own[p].clock = 0
                      /\ BootClaim(p).sequence = 0 /\ BootClaim(p).origin = p
                      /\ Owner(p) = p
  BY DEF BootState, BootClaim, Owner
<1>3. issued = {BootClaim(p) : p \in Peer}
  OBVIOUS
<1>4. ClockIsHeldTime /\ HeldWasIssued
  <2>1. ClockIsHeldTime
    BY <1>2 DEF ClockIsHeldTime
  <2>2. HeldWasIssued
    BY <1>2, <1>3 DEF HeldWasIssued
  <2> QED BY <2>1, <2>2
<1>5. SentWasIssued
  BY <1>1 DEF SentWasIssued
<1>6. IssuerClockCovers /\ StampsAreUnique
  <2>1. \A c \in issued : c.origin \in Peer /\ c = BootClaim(c.origin) /\ c.sequence = 0
    BY <1>2, <1>3
  <2>2. IssuerClockCovers
    BY <1>2, <2>1 DEF IssuerClockCovers
  <2>3. StampsAreUnique
    BY <2>1 DEF StampsAreUnique
  <2> QED BY <2>2, <2>3
<1> QED BY <1>4, <1>5, <1>6 DEF OwnershipInv

LEMMA OwnershipInit == Init => OwnershipInv
BY BootOwnership DEF Init

LEMMA OwnershipNext == TypeOK /\ OwnershipInv /\ [Next]_vars => OwnershipInv'
<1> SUFFICES ASSUME TypeOK, OwnershipInv, [Next]_vars PROVE OwnershipInv'
  OBVIOUS
<1>1. CASE Idle
  BY <1>1, IdleStep DEF Idle
<1>2. ASSUME NEW p \in Peer, NEW c \in issued, Adopts(p, c) PROVE OwnershipInv'
  BY <1>2, AdoptStep DEF Adopts
<1>3. ASSUME NEW p \in Peer, NEW t \in Peer, Issues(p, t) PROVE OwnershipInv'
  BY <1>3, IssueStep DEF Issues
<1> QED BY <1>1, <1>2, <1>3, StepKinds

(* The strengthened invariant of the claims, for every mesh. *)
THEOREM OwnershipInvariant == Spec => [](TypeOK /\ OwnershipInv)
<1>1. Init => TypeOK /\ OwnershipInv
  BY InitType, OwnershipInit
<1>2. TypeOK /\ OwnershipInv /\ [Next]_vars => (TypeOK /\ OwnershipInv)'
  BY NextType, OwnershipNext
<1> QED BY <1>1, <1>2, PTL DEF Spec

(* No two different claims in the mesh, held or on the way, carry the same
   issuer and logical time (ownership_state.h, claimSupersedes): the order by
   which machines choose between claims decides every pair. *)
THEOREM StampsIdentify == Spec => []StampIdentifiesClaim
<1>1. OwnershipInv => StampIdentifiesClaim
  <2>1. OwnershipInv => ClaimsInMesh \subseteq issued
    BY DEF OwnershipInv, HeldWasIssued, SentWasIssued, ClaimsInMesh
  <2> QED BY <2>1 DEF OwnershipInv, StampsAreUnique, StampIdentifiesClaim
<1> QED BY <1>1, OwnershipInvariant, PTL
----------------------------------------------------------------------------
(* The fail-safe. *)

(* After the refresh the owner is the machine itself or one of the living. *)
LEMMA RefreshOwner ==
  ASSUME TypeOK, OwnershipInv, NEW p \in Peer, NEW remaining, NEW living,
         RefreshOnlineAndFailSafe(p, remaining, living)
  PROVE  /\ Owner(p)' = p \/ Owner(p)' \in living
         /\ \A r \in Peer : r # p => Owner(r)' = Owner(r)
<1>1. own[p] \in OwnState /\ own[p].current \in Claim
  BY DEF TypeOK, OwnState
<1>2. CASE Reverts(p, living)
  <2>1. claimSupersedes(RevertClaim(p), own[p].current)
    BY <1>1 DEF RevertClaim, SwitchClaim, claimSupersedes, OwnershipInv, ClockIsHeldTime,
                OwnState, Claim
  <2>2. own'[p].current = RevertClaim(p)
    BY <1>2, <2>1 DEF RefreshOnlineAndFailSafe, applyClaim, TypeOK
  <2> QED BY <1>2, <2>2 DEF RefreshOnlineAndFailSafe, RevertClaim, SwitchClaim, Owner, TypeOK
<1>3. CASE ~Reverts(p, living)
  BY <1>3 DEF RefreshOnlineAndFailSafe, Reverts, Owner
<1> QED BY <1>2, <1>3

LEMMA NoSilentOwnerNext ==
  TypeOK /\ OwnershipInv /\ NoSilentOwner /\ [Next]_vars => NoSilentOwner'
<1> SUFFICES ASSUME TypeOK, OwnershipInv, NoSilentOwner, [Next]_vars PROVE NoSilentOwner'
  OBVIOUS
<1> USE DEF NoSilentOwner, AtRest
<1>1. ASSUME NEW p \in Peer, NEW q \in Peer, WireUp(p, q) \/ WireDown(p, q) \/ AddPeer(p, q)
      PROVE  NoSilentOwner'
  BY <1>1 DEF WireUp, WireDown, AddPeer, Owner
<1>2. ASSUME NEW p \in Peer, NEW q \in Peer, RemovePeer(p, q) PROVE NoSilentOwner'
  <2>1. alive'[p] = alive[p] \ {q} /\ \A r \in Peer : r # p => alive'[r] = alive[r]
    BY <1>2 DEF RemovePeer, TypeOK
  <2>2. /\ Owner(p)' = p \/ Owner(p)' \in alive'[p]
        /\ \A r \in Peer : r # p => Owner(r)' = Owner(r)
    BY <1>2, <2>1, RefreshOwner DEF RemovePeer
  <2> QED BY <1>2, <2>1, <2>2 DEF RemovePeer
<1>3. ASSUME NEW p \in Peer, NEW q \in Peer, PollRecv(p, q) PROVE NoSilentOwner'
  <2>1. fresh'[p] # {}
    BY <1>3 DEF PollRecv, TypeOK
  <2>2. \A r \in Peer : r # p => own'[r] = own[r] /\ alive'[r] = alive[r] /\ fresh'[r] = fresh[r]
    BY <1>3 DEF PollRecv, TypeOK
  <2> QED BY <2>1, <2>2 DEF Owner
<1>4. ASSUME NEW p \in Peer, NEW t \in Peer, RequestSwitchTo(p, t) PROVE NoSilentOwner'
  <2> DEFINE c == SwitchClaim(p, own[p], t)
  <2>1. own[p] \in OwnState /\ own[p].current \in Claim
    BY DEF TypeOK, OwnState
  <2>2. claimSupersedes(c, own[p].current)
    BY <2>1 DEF SwitchClaim, claimSupersedes, OwnershipInv, ClockIsHeldTime, OwnState, Claim
  <2>3. own' = [own EXCEPT ![p] = applyClaim(own[p], c)]
    BY <1>4 DEF RequestSwitchTo
  <2>4. own'[p].current = c /\ \A r \in Peer : r # p => own'[r] = own[r]
    BY <2>2, <2>3 DEF applyClaim, TypeOK
  <2>5. Owner(p)' = t
    BY <2>4 DEF Owner, SwitchClaim
  <2> QED BY <1>4, <2>4, <2>5 DEF RequestSwitchTo, Owner
<1>5. ASSUME NEW p \in Peer, SendHeartbeats(p) PROVE NoSilentOwner'
  BY <1>5 DEF SendHeartbeats, Owner
<1>6. ASSUME NEW p \in Peer, NEW silent \in SUBSET alive[p], PollEnd(p, silent)
      PROVE  NoSilentOwner'
  <2>1. /\ alive'[p] = alive[p] \ silent
        /\ \A r \in Peer : r # p => alive'[r] = alive[r] /\ fresh'[r] = fresh[r]
    BY <1>6 DEF PollEnd, TypeOK
  <2>2. /\ Owner(p)' = p \/ Owner(p)' \in alive'[p]
        /\ \A r \in Peer : r # p => Owner(r)' = Owner(r)
    BY <1>6, <2>1, RefreshOwner DEF PollEnd
  <2> QED BY <2>1, <2>2
<1>7. CASE UNCHANGED vars
  BY <1>7 DEF vars, Owner
<1> QED BY <1>1, <1>2, <1>3, <1>4, <1>5, <1>6, <1>7 DEF Next

(* No machine, between two polls, leaves its input with a machine it has not
   heard within the time-out (mesh_node.cpp, refreshOnlineAndFailSafe). *)
THEOREM FailSafe == Spec => []NoSilentOwner
<1>1. Init => NoSilentOwner
  BY DEF Init, NoSilentOwner, Owner, BootState, BootClaim
<1> QED BY <1>1, NoSilentOwnerNext, OwnershipInvariant, PTL DEF Spec
----------------------------------------------------------------------------
(* The records of who is alive.  Only peers are, and no machine is a peer of
   its own; outside of a poll what was reported and what the election counts
   are what the watchdog says. *)
LivenessInv ==
  /\ \A p \in Peer : alive[p] \subseteq peers[p] /\ p \notin peers[p]
  /\ ReportedLivenessIsCurrent

(* The refresh brings both records of p to what is alive, and leaves those of
   the others alone. *)
LEMMA RefreshReports ==
  ASSUME TypeOK, NEW p \in Peer, NEW remaining, NEW living,
         living \subseteq remaining, p \notin remaining,
         RefreshOnlineAndFailSafe(p, remaining, living)
  PROVE  /\ peerOnline'[p] = living /\ online'[p] \ {p} = living
         /\ \A r \in Peer : r # p => peerOnline'[r] = peerOnline[r] /\ online'[r] = online[r]
BY DEF RefreshOnlineAndFailSafe, TypeOK

LEMMA LivenessNext == TypeOK /\ LivenessInv /\ [Next]_vars => LivenessInv'
<1> SUFFICES ASSUME TypeOK, LivenessInv, [Next]_vars PROVE LivenessInv'
  OBVIOUS
<1> USE DEF LivenessInv, ReportedLivenessIsCurrent, AtRest
<1>1. ASSUME NEW p \in Peer, NEW q \in Peer, WireUp(p, q) \/ WireDown(p, q) PROVE LivenessInv'
  BY <1>1 DEF WireUp, WireDown
<1>2. ASSUME NEW p \in Peer, NEW q \in Peer, AddPeer(p, q) PROVE LivenessInv'
  BY <1>2 DEF AddPeer, TypeOK
<1>3. ASSUME NEW p \in Peer, NEW q \in Peer, RemovePeer(p, q) PROVE LivenessInv'
  <2>1. /\ RefreshOnlineAndFailSafe(p, peers[p] \ {q}, alive[p] \ {q})
        /\ alive'[p] = alive[p] \ {q} /\ peers'[p] = peers[p] \ {q} /\ fresh' = fresh
        /\ \A r \in Peer : r # p => alive'[r] = alive[r] /\ peers'[r] = peers[r]
    BY <1>3 DEF RemovePeer, TypeOK
  <2>2. /\ peerOnline'[p] = alive'[p] /\ online'[p] \ {p} = alive'[p]
        /\ \A r \in Peer : r # p => peerOnline'[r] = peerOnline[r] /\ online'[r] = online[r]
    BY <2>1, RefreshReports
  <2> QED BY <2>1, <2>2
<1>4. ASSUME NEW p \in Peer, NEW q \in Peer, PollRecv(p, q) PROVE LivenessInv'
  <2>1. /\ q \in peers[p] /\ alive'[p] = alive[p] \cup {q} /\ fresh'[p] # {}
        /\ \A r \in Peer : r # p => alive'[r] = alive[r] /\ fresh'[r] = fresh[r]
        /\ UNCHANGED <<peers, peerOnline, online>>
    BY <1>4 DEF PollRecv, TypeOK
  <2> QED BY <2>1
<1>5. ASSUME NEW p \in Peer, NEW t \in Peer, RequestSwitchTo(p, t) \/ SendHeartbeats(p)
      PROVE  LivenessInv'
  BY <1>5 DEF RequestSwitchTo, SendHeartbeats
<1>6. ASSUME NEW p \in Peer, NEW silent \in SUBSET alive[p], PollEnd(p, silent)
      PROVE  LivenessInv'
  <2>1. /\ RefreshOnlineAndFailSafe(p, peers[p], alive[p] \ silent)
        /\ alive'[p] = alive[p] \ silent /\ peers' = peers
        /\ \A r \in Peer : r # p => alive'[r] = alive[r] /\ fresh'[r] = fresh[r]
    BY <1>6 DEF PollEnd, TypeOK
  <2>2. /\ peerOnline'[p] = alive'[p] /\ online'[p] \ {p} = alive'[p]
        /\ \A r \in Peer : r # p => peerOnline'[r] = peerOnline[r] /\ online'[r] = online[r]
    BY <2>1, RefreshReports
  <2> QED BY <2>1, <2>2
<1>7. CASE UNCHANGED vars
  BY <1>7 DEF vars
<1> QED BY <1>1, <1>2, <1>3, <1>4, <1>5, <1>6, <1>7 DEF Next

(* What was last reported of each peer and what the election counts as online
   are what the watchdog says, through removal and return of peers
   (removePeer, refreshOnlineAndFailSafe). *)
THEOREM ReportsAgree == Spec => []ReportedLivenessIsCurrent
<1>1. Init => LivenessInv
  BY DEF Init, LivenessInv, ReportedLivenessIsCurrent
<1>2. LivenessInv => ReportedLivenessIsCurrent
  BY DEF LivenessInv
<1> QED BY <1>1, <1>2, LivenessNext, TypeCorrect, PTL DEF Spec
----------------------------------------------------------------------------
(* The refinement. *)

LEMMA RegisterStep ==
  TypeOK /\ OwnershipInv /\ [Next]_vars => [Reg!RegNext]_(Reg!regVars)
<1> SUFFICES ASSUME TypeOK, OwnershipInv, [Next]_vars
             PROVE  [Reg!RegNext]_(Reg!regVars)
  OBVIOUS
<1> USE BoundsAssumption
<1> DEFINE view == [p \in Peer |-> own[p].current]
<1>1. CASE Idle
  BY <1>1 DEF Idle, Reg!regVars
<1>2. ASSUME NEW p \in Peer, NEW c \in issued, Adopts(p, c)
      PROVE  [Reg!RegNext]_(Reg!regVars)
  <2>1. CASE claimSupersedes(c, own[p].current)
    <3>1. view' = [view EXCEPT ![p] = c]
      BY <1>2, <2>1 DEF Adopts, applyClaim, TypeOK
    <3>2. Reg!Adopt(p, c)
      BY <1>2, <2>1, <3>1 DEF Adopts, Reg!Adopt, Reg!claimSupersedes, claimSupersedes
    <3> QED BY <3>2 DEF Reg!RegNext
  <2>2. CASE ~claimSupersedes(c, own[p].current)
    <3>1. view' = view
      BY <1>2, <2>2 DEF Adopts, applyClaim, TypeOK
    <3> QED BY <1>2, <3>1 DEF Adopts, Reg!regVars
  <2> QED BY <2>1, <2>2
<1>3. ASSUME NEW p \in Peer, NEW t \in Peer, Issues(p, t)
      PROVE  [Reg!RegNext]_(Reg!regVars)
  <2> DEFINE c == SwitchClaim(p, own[p], t)
  <2>1. own[p] \in OwnState /\ own[p].current \in Claim /\ own[p].clock \in Nat
    BY DEF TypeOK, OwnState
  <2>2. c = [target |-> t, origin |-> p, sequence |-> own[p].clock + 1]
    BY DEF SwitchClaim
  <2>3. claimSupersedes(c, own[p].current)
    BY <2>1, <2>2 DEF claimSupersedes, OwnershipInv, ClockIsHeldTime, Claim
  <2>4. view' = [view EXCEPT ![p] = c]
    BY <1>3, <2>3 DEF Issues, applyClaim, TypeOK
  <2>5. own[p].clock + 1 \in 0..(MaxSeq + 1)
    BY <1>3, <2>1 DEF Issues, OwnershipInv, HeldWasIssued
  <2>6. \A d \in issued : <<d.origin, d.sequence>> # <<c.origin, c.sequence>>
    <3> SUFFICES ASSUME NEW d \in issued, d.origin = p, d.sequence = own[p].clock + 1
                 PROVE  FALSE
      BY <2>2
    <3>1. d.sequence \in Nat /\ d.sequence <= own[p].clock
      BY DEF OwnershipInv, IssuerClockCovers, TypeOK, Claim
    <3> QED BY <2>1, <3>1
  <2>7. Reg!Issue(p, [target |-> t, origin |-> p, sequence |-> own[p].clock + 1])
    BY <1>3, <2>2, <2>3, <2>4, <2>6
       DEF Issues, Reg!Issue, Reg!NewStamp, Reg!claimSupersedes, claimSupersedes
  <2>8. \E q \in Peer, s \in 0..(MaxSeq + 1) :
          Reg!Issue(p, [target |-> q, origin |-> p, sequence |-> s])
    BY <2>5, <2>7 DEF Reg!Issue
  <2> QED BY <2>8 DEF Reg!RegNext
<1> QED BY <1>1, <1>2, <1>3, StepKinds

(* The mesh, whatever its links do, implements the replicated register of
   OwnershipRegister: claims under fresh stamps, and views that only move up. *)
THEOREM MeshImplementsRegister == Spec => ImplementsRegister
<1>1. Init => Reg!RegInit
  BY DEF Init, Reg!RegInit, BootState, Reg!BootClaim, BootClaim
<1> QED BY <1>1, RegisterStep, OwnershipInvariant, PTL DEF Spec, ImplementsRegister, Reg!RegSpec
----------------------------------------------------------------------------
(* Agreement in a stable mesh: a claim stays on its wire until the machine at
   the other end holds it or a better one. *)

(* d is at least as new as c. *)
AtLeast(d, c) == d = c \/ claimSupersedes(d, c)

Switched(p) == {c \in issued : c.origin = p /\ c.sequence > 0}

FullMesh ==
  /\ wire = Wires
  /\ \A p \in Peer : peers[p] = Others(p) /\ alive[p] = Others(p)

(* Every requested switch is known to its issuer and known to, or on the way
   to, everybody else; and nobody holds a silent owner. *)
Delivered ==
  /\ \A p \in Peer : \A c \in Switched(p) : AtLeast(own[p].current, c)
  /\ \A p, q \in Peer : p # q =>
       \A c \in Switched(p) : c \in InFlight(p, q) \/ AtLeast(own[q].current, c)

StableInv == TypeOK /\ OwnershipInv /\ FullMesh /\ Delivered
----------------------------------------------------------------------------
LEMMA SupersedesIsOrder ==
  ASSUME NEW c \in Claim, NEW d \in Claim, NEW e \in Claim
  PROVE  /\ AtLeast(d, c) /\ AtLeast(e, d) => AtLeast(e, c)
         /\ claimSupersedes(c, d) => ~claimSupersedes(d, c)
         /\ AtLeast(d, c) => d.sequence >= c.sequence
<1> USE PeerAssumption DEF AtLeast, claimSupersedes, Claim
<1>1. /\ c.origin \in Nat /\ d.origin \in Nat /\ e.origin \in Nat
      /\ c.sequence \in Nat /\ d.sequence \in Nat /\ e.sequence \in Nat
  OBVIOUS
<1> QED BY <1>1

(* What a machine holds after applying a claim is at least the claim and at
   least what it held before. *)
LEMMA ApplyRaises ==
  ASSUME NEW st \in OwnState, NEW c \in Claim
  PROVE  /\ AtLeast(applyClaim(st, c).current, st.current)
         /\ claimSupersedes(c, st.current) => applyClaim(st, c).current = c
         /\ ~claimSupersedes(c, st.current) => applyClaim(st, c).current = st.current
BY DEF applyClaim, AtLeast

(* The order is total on claims under unique stamps. *)
LEMMA Comparable ==
  ASSUME TypeOK, OwnershipInv, NEW c \in issued, NEW d \in issued
  PROVE  AtLeast(c, d) \/ claimSupersedes(d, c)
<1>1. c \in Claim /\ d \in Claim
  BY DEF TypeOK
<1>2. c.origin \in Nat /\ d.origin \in Nat /\ c.sequence \in Nat /\ d.sequence \in Nat
  BY <1>1, PeerAssumption DEF Claim
<1>3. c.origin = d.origin /\ c.sequence = d.sequence => c = d
  BY DEF OwnershipInv, StampsAreUnique
<1> QED BY <1>2, <1>3 DEF AtLeast, claimSupersedes

LEMMA ClaimsOnAppendKeeps ==
  ASSUME NEW s \in Seq(Message), NEW m \in Message
  PROVE  /\ ClaimsOn(s) \subseteq ClaimsOn(Append(s, m))
         /\ m.type = "SwitchOwner" => m.claim \in ClaimsOn(Append(s, m))
<1> DEFINE t == Append(s, m)
<1>1. /\ DOMAIN t = 1..(Len(s) + 1)
      /\ DOMAIN s = 1..Len(s)
      /\ Len(s) \in Nat
      /\ \A i \in 1..Len(s) : t[i] = s[i]
      /\ t[Len(s) + 1] = m
  BY AppendProperties
<1> HIDE DEF t
<1>2. \A i \in DOMAIN s : i \in DOMAIN t /\ t[i] = s[i]
  BY <1>1
<1>3. (Len(s) + 1) \in DOMAIN t /\ t[Len(s) + 1] = m
  BY <1>1
<1> QED BY <1>2, <1>3 DEF ClaimsOn, t

LEMMA ClaimsOnTailKeeps ==
  ASSUME NEW s \in Seq(Message), s # <<>>
  PROVE  \A c \in ClaimsOn(s) : \/ c \in ClaimsOn(Tail(s))
                                \/ Head(s).type = "SwitchOwner" /\ c = Head(s).claim
<1> DEFINE t == Tail(s)
<1>1. /\ Len(s) \in Nat \ {0}
      /\ DOMAIN t = 1..(Len(s) - 1)
      /\ DOMAIN s = 1..Len(s)
      /\ \A i \in 1..(Len(s) - 1) : t[i] = s[i + 1]
      /\ Head(s) = s[1]
  BY HeadTailProperties, EmptySeq, LenProperties
<1> HIDE DEF t
<1>2. ASSUME NEW j \in DOMAIN s, j # 1 PROVE (j - 1) \in DOMAIN t /\ t[j - 1] = s[j]
  BY <1>1, <1>2
<1>3. ASSUME NEW c \in ClaimsOn(s), ~(s[1].type = "SwitchOwner" /\ c = s[1].claim)
      PROVE  c \in ClaimsOn(t)
  <2>1. PICK j \in DOMAIN s : s[j].type = "SwitchOwner" /\ c = s[j].claim
    BY DEF ClaimsOn
  <2>2. (j - 1) \in DOMAIN t /\ t[j - 1] = s[j]
    BY <1>2, <1>3, <2>1
  <2> QED BY <2>1, <2>2 DEF ClaimsOn
<1> QED BY <1>1, <1>3 DEF t
----------------------------------------------------------------------------
LEMMA StableStart == StableInit => StableInv
<1> SUFFICES ASSUME StableInit PROVE StableInv
  OBVIOUS
<1>1. TypeOK
  BY BootType, PriorityAssumption DEF StableInit, TypeOK, Others
<1>2. OwnershipInv
  BY BootOwnership DEF StableInit
<1>3. FullMesh
  BY DEF StableInit, FullMesh
<1>4. \A p \in Peer : Switched(p) = {}
  <2>1. \A c \in issued : c.sequence = 0
    BY DEF StableInit, BootClaim
  <2> QED BY <2>1 DEF Switched
<1>5. Delivered
  BY <1>4 DEF Delivered
<1> QED BY <1>1, <1>2, <1>3, <1>5 DEF StableInv

LEMMA StableIsNext == StableNext => Next
BY DEF StableNext, Next

(* The parts of Delivered that a step can break: what is held only moves up,
   what is on the way only leaves by being applied, and a new claim is held by
   its issuer and sent to everybody else. *)
HeldRises == \A p \in Peer : AtLeast(own'[p].current, own[p].current)

SentRemains == \A p, q \in Peer : \A c \in InFlight(p, q) :
  c \in InFlight(p, q)' \/ AtLeast(own'[q].current, c)

NewIsSent == \A c \in issued' \ issued :
  /\ AtLeast(own'[c.origin].current, c)
  /\ \A q \in Peer : q # c.origin => c \in InFlight(c.origin, q)'

LEMMA StepDelivers ==
  ASSUME StableInv, TypeOK', HeldRises, SentRemains, NewIsSent
  PROVE  Delivered'
<1>1. \A p \in Peer : own[p].current \in Claim /\ own'[p].current \in Claim
  BY DEF StableInv, TypeOK, OwnState
<1>2. \A p \in Peer : \A c \in Switched(p)' : c.origin = p /\ (c \in Switched(p) \/ c \in issued' \ issued)
  BY DEF Switched
<1>3. \A p \in Peer : Switched(p) \subseteq Claim
  BY DEF Switched, StableInv, TypeOK
<1>4. ASSUME NEW p \in Peer, NEW c \in Switched(p)' PROVE AtLeast(own'[p].current, c)
  <2>1. CASE c \in issued' \ issued
    BY <1>2, <1>4, <2>1 DEF NewIsSent
  <2>2. CASE c \in Switched(p)
    <3>1. AtLeast(own[p].current, c)
      BY <2>2 DEF StableInv, Delivered
    <3> QED BY <1>1, <1>3, <2>2, <3>1, SupersedesIsOrder DEF HeldRises
  <2> QED BY <1>2, <1>4, <2>1, <2>2
<1>5. ASSUME NEW p \in Peer, NEW q \in Peer, p # q, NEW c \in Switched(p)'
      PROVE  c \in InFlight(p, q)' \/ AtLeast(own'[q].current, c)
  <2>1. CASE c \in issued' \ issued
    BY <1>2, <1>5, <2>1 DEF NewIsSent
  <2>2. CASE c \in Switched(p)
    <3>1. c \in InFlight(p, q) \/ AtLeast(own[q].current, c)
      BY <1>5, <2>2 DEF StableInv, Delivered
    <3>2. ASSUME AtLeast(own[q].current, c) PROVE AtLeast(own'[q].current, c)
      BY <1>1, <1>3, <2>2, <3>2, SupersedesIsOrder DEF HeldRises
    <3> QED BY <1>5, <3>1, <3>2 DEF SentRemains
  <2> QED BY <1>2, <1>5, <2>1, <2>2
<1> QED BY <1>4, <1>5 DEF Delivered
----------------------------------------------------------------------------
LEMMA StableStep == StableInv /\ [StableNext]_vars => StableInv'
<1> SUFFICES ASSUME StableInv, [StableNext]_vars PROVE StableInv'
  OBVIOUS
<1>1. TypeOK' /\ OwnershipInv'
  BY StableIsNext, NextType, OwnershipNext DEF StableInv
<1>2. /\ own \in [Peer -> OwnState]
      /\ \A p \in Peer : /\ own[p] \in OwnState /\ own[p].current \in Claim
                         /\ AtLeast(own[p].current, own[p].current)
  BY DEF StableInv, TypeOK, OwnState, AtLeast
<1>3. ASSUME NEW p \in Peer, NEW q \in Peer, PollRecv(p, q) PROVE FullMesh' /\ Delivered'
  <2> DEFINE m == Head(chan[q][p])
  <2>1. FullMesh'
    BY <1>3 DEF PollRecv, StableInv, FullMesh, TypeOK
  <2>2. chan[q][p] \in Seq(Message) /\ chan[q][p] # <<>>
    BY <1>3 DEF PollRecv, StableInv, TypeOK
  <2>3. \A a, b \in Peer : ~(a = q /\ b = p) => chan'[a][b] = chan[a][b]
    BY <1>3 DEF PollRecv, StableInv, TypeOK
  <2>4. chan'[q][p] = Tail(chan[q][p])
    BY <1>3 DEF PollRecv, StableInv, TypeOK
  <2>5. m.type = "SwitchOwner" => m.claim \in InFlight(q, p) /\ m.claim \in issued /\ m.claim \in Claim
    BY <2>2, ClaimsOnHead DEF InFlight, StableInv, OwnershipInv, SentWasIssued, TypeOK
  <2>6. \A r \in Peer : AtLeast(own'[r].current, own[r].current)
    BY <1>2, <1>3, <2>5, ApplyRaises DEF PollRecv
  <2>7. m.type = "SwitchOwner" => AtLeast(own'[p].current, m.claim)
    <3> SUFFICES ASSUME m.type = "SwitchOwner" PROVE AtLeast(own'[p].current, m.claim)
      OBVIOUS
    <3>1. own'[p] = applyClaim(own[p], m.claim)
      BY <1>2, <1>3 DEF PollRecv
    <3>2. own[p].current \in issued
      BY DEF StableInv, OwnershipInv, HeldWasIssued
    <3>3. CASE claimSupersedes(m.claim, own[p].current)
      BY <1>2, <2>5, <3>1, <3>3, ApplyRaises DEF AtLeast
    <3>4. CASE ~claimSupersedes(m.claim, own[p].current)
      BY <1>2, <2>5, <3>1, <3>2, <3>4, ApplyRaises, Comparable DEF StableInv
    <3> QED BY <3>3, <3>4
  <2>8. \A a, b \in Peer : \A c \in InFlight(a, b) :
          c \in InFlight(a, b)' \/ AtLeast(own'[b].current, c)
    <3> SUFFICES ASSUME NEW a \in Peer, NEW b \in Peer, NEW c \in InFlight(a, b)
                 PROVE  c \in InFlight(a, b)' \/ AtLeast(own'[b].current, c)
      OBVIOUS
    <3>1. CASE a = q /\ b = p
      <4>1. c \in ClaimsOn(Tail(chan[q][p])) \/ (m.type = "SwitchOwner" /\ c = m.claim)
        BY <2>2, <3>1, ClaimsOnTailKeeps DEF InFlight
      <4> QED BY <2>4, <2>7, <3>1, <4>1 DEF InFlight
    <3>2. CASE ~(a = q /\ b = p)
      BY <2>3, <3>2 DEF InFlight
    <3> QED BY <3>1, <3>2
  <2>9. HeldRises /\ SentRemains /\ NewIsSent
    BY <1>3, <2>6, <2>8 DEF PollRecv, HeldRises, SentRemains, NewIsSent
  <2>10. Delivered'
    BY <1>1, <2>9, StepDelivers
  <2> QED BY <2>1, <2>10
<1>4. ASSUME NEW p \in Peer, NEW t \in Peer, RequestSwitchTo(p, t) PROVE FullMesh' /\ Delivered'
  <2> DEFINE c == SwitchClaim(p, own[p], t)
  <2>1. FullMesh'
    BY <1>4 DEF RequestSwitchTo, StableInv, FullMesh
  <2>2. c \in Claim /\ c.origin = p
    BY <1>2, SwitchClaimType DEF SwitchClaim
  <2>3. issued' = issued \cup {c} /\ own' = [own EXCEPT ![p] = applyClaim(own[p], c)]
    BY <1>4 DEF RequestSwitchTo
  <2>4. claimSupersedes(c, own[p].current)
    BY <1>2 DEF SwitchClaim, claimSupersedes, StableInv, OwnershipInv, ClockIsHeldTime,
                OwnState, Claim
  <2>5. /\ AtLeast(own'[p].current, c)
        /\ \A r \in Peer : AtLeast(own'[r].current, own[r].current)
    BY <1>2, <2>2, <2>3, <2>4, ApplyRaises DEF AtLeast
  <2>6. SwitchOwner(c) \in Message /\ SwitchOwner(c).type = "SwitchOwner" /\ SwitchOwner(c).claim = c
    BY <2>2, MessageType DEF SwitchOwner
  <2>7. Broadcast(p, SwitchOwner(c))
    BY <1>4 DEF RequestSwitchTo
  <2>8. \A a, b \in Peer : chan[a][b] \in Seq(Message)
    BY DEF StableInv, TypeOK
  <2>9. \A a, b \in Peer : chan'[a][b] = chan[a][b] \/ chan'[a][b] = Append(chan[a][b], SwitchOwner(c))
    BY <2>7 DEF Broadcast, StableInv, TypeOK
  <2>10. \A a, b \in Peer : InFlight(a, b) \subseteq InFlight(a, b)'
    BY <2>6, <2>8, <2>9, ClaimsOnAppendKeeps DEF InFlight
  <2>11. ASSUME NEW q \in Peer, q # p PROVE c \in InFlight(p, q)'
    <3>1. q \in peers[p] /\ Wired(p, q)
      BY <2>11 DEF StableInv, FullMesh, Others, Wired, Wires
    <3>2. chan'[p][q] = Append(chan[p][q], SwitchOwner(c))
      BY <2>7, <3>1 DEF Broadcast, StableInv, TypeOK
    <3> QED BY <2>6, <2>8, <3>2, ClaimsOnAppendKeeps DEF InFlight
  <2>12. HeldRises /\ SentRemains /\ NewIsSent
    BY <2>2, <2>3, <2>5, <2>10, <2>11 DEF HeldRises, SentRemains, NewIsSent
  <2>13. Delivered'
    BY <1>1, <2>12, StepDelivers
  <2> QED BY <2>1, <2>13
<1>5. ASSUME NEW p \in Peer, SendHeartbeats(p) PROVE FullMesh' /\ Delivered'
  <2>1. FullMesh'
    BY <1>5 DEF SendHeartbeats, StableInv, FullMesh
  <2>2. \A a, b \in Peer : chan'[a][b] = chan[a][b] \/ chan'[a][b] = Append(chan[a][b], Heartbeat)
    BY <1>5 DEF SendHeartbeats, Broadcast, StableInv, TypeOK
  <2>3. \A a, b \in Peer : chan[a][b] \in Seq(Message)
    BY DEF StableInv, TypeOK
  <2>4. \A a, b \in Peer : InFlight(a, b) \subseteq InFlight(a, b)'
    BY <2>2, <2>3, MessageType, ClaimsOnAppendKeeps DEF InFlight
  <2>5. HeldRises /\ SentRemains /\ NewIsSent
    BY <1>2, <1>5, <2>4 DEF SendHeartbeats, HeldRises, SentRemains, NewIsSent
  <2>6. Delivered'
    BY <1>1, <2>5, StepDelivers
  <2> QED BY <2>1, <2>6
<1>6. ASSUME NEW p \in Peer, PollEnd(p, {}) PROVE FullMesh' /\ Delivered'
  <2>1. alive[p] = Peer \ {p} /\ Owner(p) \in Peer
    BY <1>2 DEF StableInv, FullMesh, Others, Owner, Claim
  <2>2. ~Reverts(p, alive[p] \ {})
    BY <2>1 DEF Reverts
  <2>3. own' = own /\ issued' = issued /\ chan' = chan
    BY <1>6, <2>2 DEF PollEnd, RefreshOnlineAndFailSafe
  <2>4. FullMesh'
    BY <1>6 DEF PollEnd, StableInv, FullMesh, TypeOK
  <2>5. HeldRises /\ SentRemains /\ NewIsSent
    BY <1>2, <2>3 DEF HeldRises, SentRemains, NewIsSent, InFlight
  <2>6. Delivered'
    BY <1>1, <2>5, StepDelivers
  <2> QED BY <2>4, <2>6
<1>7. CASE UNCHANGED vars
  <2>1. own' = own /\ issued' = issued /\ chan' = chan
    BY <1>7 DEF vars
  <2>2. HeldRises /\ SentRemains /\ NewIsSent
    BY <1>2, <2>1 DEF HeldRises, SentRemains, NewIsSent, InFlight
  <2>3. FullMesh' /\ Delivered'
    BY <1>1, <1>7, <2>2, StepDelivers DEF vars, StableInv, FullMesh
  <2> QED BY <1>1, <2>3 DEF StableInv
<1> QED BY <1>1, <1>3, <1>4, <1>5, <1>6, <1>7 DEF StableNext, StableInv

(* In a stable mesh of any size, whatever switches raced, all machines hold the
   same claim as soon as somebody has switched and nothing is on the way
   (ownership_state.h: "all peers converge on a single winner"). *)
THEOREM Agreement == StableSpec => []StableAgreement
<1>1. StableInv => StableAgreement
  <2> SUFFICES ASSUME StableInv, Quiet, NEW s \in Peer, own[s].clock > 0,
                      NEW p \in Peer, NEW q \in Peer
               PROVE  own[p].current = own[q].current
    BY DEF StableAgreement
  <2>1. \A r \in Peer : own[r].current \in Claim /\ own[r].current \in issued
    BY DEF StableInv, TypeOK, OwnState, OwnershipInv, HeldWasIssued
  <2>2. \A r \in Peer : \A c \in issued : c.sequence > 0 => AtLeast(own[r].current, c)
    <3> SUFFICES ASSUME NEW r \in Peer, NEW c \in issued, c.sequence > 0
                 PROVE  AtLeast(own[r].current, c)
      OBVIOUS
    <3>1. c.origin \in Peer /\ c \in Switched(c.origin)
      BY DEF StableInv, TypeOK, Claim, Switched
    <3> QED BY <3>1 DEF StableInv, Delivered, Quiet
  <2>3. own[s].current.sequence > 0
    BY DEF StableInv, OwnershipInv, ClockIsHeldTime
  <2>4. \A r \in Peer : own[r].current.sequence > 0
    <3> SUFFICES ASSUME NEW r \in Peer PROVE own[r].current.sequence > 0
      OBVIOUS
    <3>1. AtLeast(own[r].current, own[s].current)
      BY <2>1, <2>2, <2>3
    <3>2. own[r].current.sequence >= own[s].current.sequence
      BY <2>1, <3>1, SupersedesIsOrder
    <3> QED BY <2>1, <2>3, <3>2 DEF Claim
  <2>5. AtLeast(own[p].current, own[q].current) /\ AtLeast(own[q].current, own[p].current)
    BY <2>1, <2>2, <2>4
  <2> QED BY <2>1, <2>5, SupersedesIsOrder DEF AtLeast
<1> QED BY <1>1, StableStart, StableStep, PTL DEF StableSpec
=============================================================================
