---------------------------- MODULE InputHandoff ----------------------------
(***************************************************************************)
(* Driving another machine: how the tray application (platform/tray_win)   *)
(* takes ownership, captures and swallows the local keyboard and mouse,    *)
(* forwards what it captures through MeshNode (forwardKey and the others)  *)
(* with the record of what is held down (core/input_pipeline,              *)
(* core/input_tracker), and how it lets go; and what arrives at the        *)
(* machines that listen (MeshNode::handle, the injector).                  *)
(*                                                                         *)
(* A key stands for a key or a mouse button; a movement changes nothing    *)
(* that the properties speak of and is left out.  Everything of one        *)
(* machine runs on its UI thread: each action is one handler, with the     *)
(* reconciliation of the capture hooks (syncCapture) that ends it.  The    *)
(* links are up from the start, FIFO, and may break for good; heartbeats   *)
(* are abstracted to their effect, the peers that are online.  A machine   *)
(* that is woken (core/wake_flow) has come up by then, or never does.      *)
(***************************************************************************)
EXTENDS OwnershipState, Sequences, FiniteSets, SequencesExt

CONSTANTS
  Key,           \* keys and mouse buttons
  Driver,        \* the machines whose users take control of others
  Typist,        \* the machines whose keyboards are used
  Woken,         \* the machines to which a magic packet is sent when they are off
  Nobody,        \* no machine is being woken
  MaxSeq,        \* bound: the largest logical time of a requested switch
  MaxInFlight    \* bound: users act only while fewer messages are on each link

ASSUME HandoffAssumption ==
  /\ Driver \subseteq Peer /\ Typist \subseteq Peer /\ Woken \subseteq Peer
  /\ Nobody \notin Peer /\ IsFiniteSet(Key)
  /\ MaxSeq \in Nat /\ MaxInFlight \in Nat

VARIABLES
  own,        \* ownership_ of each machine's MeshNode
  driving,    \* driving: the user controls a peer
  capturing,  \* capture->active(): the hooks are installed and swallow input
  held,       \* tracker_: what was forwarded as down and not yet as up
  waking,     \* wake.target() while wake.isWaking(), Nobody otherwise
  online,     \* the peers that are online for the node
  links,      \* the pairs of machines whose connection works
  chan,       \* chan[p][q]: the messages on the way from p to q
  pressed,    \* the keys a user physically holds down at the machine
  down,       \* down[p]: the keys p's operating system takes to be down
  injected    \* history: those of them whose last event was injected

vars == <<own, driving, capturing, held, waking, online, links, chan, pressed, down, injected>>
keyVars == <<pressed, down, injected>>

Owner(p) == own[p].current.target
IsLocalOwner(p) == Owner(p) = p

SwitchOwner(c) == [type |-> "SwitchOwner", claim |-> c]
KeyEvent(k, isDown) == [type |-> "KeyEvent", key |-> k, down |-> isDown]
Message == [type : {"SwitchOwner"}, claim : Claim]
             \cup [type : {"KeyEvent"}, key : Key, down : BOOLEAN]

AllLinks == {{p, q} : p, q \in Peer} \ {{p} : p \in Peer}

TypeOK ==
  /\ own \in [Peer -> OwnState]
  /\ driving \in [Peer -> BOOLEAN] /\ capturing \in [Peer -> BOOLEAN]
  /\ held \in [Peer -> SUBSET Key]
  /\ waking \in [Peer -> Woken \cup {Nobody}]
  /\ online \in [Peer -> SUBSET Peer]
  /\ links \in SUBSET AllLinks
  /\ chan \in [Peer -> [Peer -> Seq(Message)]]
  /\ pressed \in [Peer -> SUBSET Key] /\ down \in [Peer -> SUBSET Key]
  /\ injected \in [Peer -> SUBSET Key]

(* Each driver may have begun to wake a machine before the links came up. *)
Init ==
  /\ own = [p \in Peer |-> BootState(p)]
  /\ driving = [p \in Peer |-> FALSE]
  /\ capturing = [p \in Peer |-> FALSE]
  /\ held = [p \in Peer |-> {}]
  /\ waking \in [Peer -> Woken \cup {Nobody}]
  /\ \A p \in Peer : waking[p] # p /\ (p \notin Driver => waking[p] = Nobody)
  /\ online = [p \in Peer |-> Peer \ {p}]
  /\ links = AllLinks
  /\ chan = [p \in Peer |-> [q \in Peer |-> <<>>]]
  /\ pressed = [p \in Peer |-> {}]
  /\ down = [p \in Peer |-> {}]
  /\ injected = [p \in Peer |-> {}]
----------------------------------------------------------------------------
(* Sending: to every peer, and lost where the link is broken. *)
Broadcast(ch, p, msgs) ==
  [ch EXCEPT ![p] = [q \in Peer |-> IF {p, q} \in links THEN ch[p][q] \o msgs ELSE ch[p][q]]]

HasRoom(p) == \A q \in Peer : Len(chan[p][q]) < MaxInFlight

(* drainReleases: an up event for everything that is held. *)
Releases(p) == LET ks == SetToSeq(held[p])
               IN  [i \in DOMAIN ks |-> KeyEvent(ks[i], FALSE)]

(* Mutant: the record of what is held survives its release. *)
SyncCapture_NoDrain(p, isOwner, drives, ch) ==
  LET want == drives /\ isOwner
  IN  /\ driving' = [driving EXCEPT ![p] = want]
      /\ \E on \in {want, capturing[p] /\ want} : capturing' = [capturing EXCEPT ![p] = on]
      /\ chan' = IF capturing[p] /\ ~want THEN Broadcast(ch, p, Releases(p)) ELSE ch
      /\ UNCHANGED held

(* syncCapture, once it is known who owns input and whether the user drives:
   the hooks are wanted while both hold; installing them may fail; when they
   are removed, everything that is held is released at the peers. *)
SyncCapture(p, isOwner, drives, ch) ==
  LET want == drives /\ isOwner
      stops == capturing[p] /\ ~want
  IN  /\ driving' = [driving EXCEPT ![p] = want]
      /\ \E on \in {want, capturing[p] /\ want} : capturing' = [capturing EXCEPT ![p] = on]
      /\ held' = [held EXCEPT ![p] = IF stops THEN {} ELSE @]
      /\ chan' = IF stops THEN Broadcast(ch, p, Releases(p)) ELSE ch

(* Mutant: onOwnerChanged does not reconcile the hooks. *)
Own_NoSync(p, claim, ch) ==
  /\ own' = [own EXCEPT ![p] = applyClaim(@, claim)]
  /\ chan' = ch
  /\ UNCHANGED <<driving, capturing, held>>

(* A change of ownership, by which onOwnerChanged calls syncCapture only if
   the owner is another one. *)
Own(p, claim, ch) ==
  LET st == applyClaim(own[p], claim)
  IN  /\ own' = [own EXCEPT ![p] = st]
      /\ IF st.current.target # Owner(p)
         THEN SyncCapture(p, st.current.target = p, driving[p], ch)
         ELSE chan' = ch /\ UNCHANGED <<driving, capturing, held>>

(* No poll is under way at p whose fail-safe is still to come. *)
Settled(p) == IsLocalOwner(p) \/ Owner(p) \in online[p]
----------------------------------------------------------------------------
(* What the user does. *)

(* controlPeer, for a peer that is online: p claims ownership for itself, and
   only then drives. *)
ControlPeer(p) ==
  LET claim == SwitchClaim(p, own[p], p)
  IN  /\ p \in Driver
      /\ Settled(p)
      /\ online[p] # {}
      /\ own[p].clock < MaxSeq /\ HasRoom(p)
      /\ own' = [own EXCEPT ![p] = applyClaim(@, claim)]
      /\ SyncCapture(p, TRUE, TRUE, Broadcast(chan, p, <<SwitchOwner(claim)>>))
      /\ UNCHANGED <<waking, online, links, keyVars>>

(* The device clicked once more, or the reclaim chord. *)
StopDriving(p) ==
  /\ Settled(p)
  /\ driving[p]
  /\ SyncCapture(p, IsLocalOwner(p), FALSE, chan)
  /\ UNCHANGED <<own, waking, online, links, keyVars>>

(* controlPeer, for a machine that is off and can be woken: WakeFlow::start,
   in place of the machine that was being woken before. *)
StartWake(p, target) ==
  /\ p \in Driver
  /\ Settled(p)
  /\ target \in Woken \ (online[p] \cup {p})
  /\ waking' = [waking EXCEPT ![p] = target]
  /\ UNCHANGED <<own, driving, capturing, held, online, links, chan, keyVars>>

(* Mutant: what is forwarded is not recorded as held. *)
Forward_Untracked(p, k, isDown) ==
  /\ chan' = IF IsLocalOwner(p) THEN Broadcast(chan, p, <<KeyEvent(k, isDown)>>) ELSE chan
  /\ UNCHANGED held

(* A key goes down or up.  While the hooks are installed, it is swallowed, and
   forwarded if p owns input. *)
Forward(p, k, isDown) ==
  IF IsLocalOwner(p)
  THEN /\ held' = [held EXCEPT ![p] = IF isDown THEN @ \cup {k} ELSE @ \ {k}]
       /\ chan' = Broadcast(chan, p, <<KeyEvent(k, isDown)>>)
  ELSE UNCHANGED <<held, chan>>

Touch(p, k, isDown) ==
  /\ p \in Typist
  /\ (k \in pressed[p]) # isDown
  /\ pressed' = [pressed EXCEPT ![p] = IF isDown THEN @ \cup {k} ELSE @ \ {k}]
  /\ IF capturing[p]
     THEN HasRoom(p) /\ Forward(p, k, isDown) /\ UNCHANGED <<down, injected>>
     ELSE /\ down' = [down EXCEPT ![p] = IF isDown THEN @ \cup {k} ELSE @ \ {k}]
          /\ injected' = [injected EXCEPT ![p] = @ \ {k}]
          /\ UNCHANGED <<held, chan>>
  /\ UNCHANGED <<own, driving, capturing, waking, online, links>>
----------------------------------------------------------------------------
(* What the mesh does. *)

Received(q, p) == [chan EXCEPT ![q][p] = Tail(@)]

RecvClaim(p, q) ==
  /\ chan[q][p] # <<>>
  /\ Head(chan[q][p]).type = "SwitchOwner"
  /\ Own(p, Head(chan[q][p]).claim, Received(q, p))
  /\ UNCHANGED <<waking, online, links, keyVars>>

(* The injector: the operating system takes the event for one of a keyboard. *)
Inject(p, k, isDown) ==
  /\ down' = [down EXCEPT ![p] = IF isDown THEN @ \cup {k} ELSE @ \ {k}]
  /\ injected' = [injected EXCEPT ![p] = IF isDown THEN @ \cup {k} ELSE @ \ {k}]

(* A forwarded event is injected by every machine that does not own input. *)
RecvKey(p, q) ==
  LET m == Head(chan[q][p])
  IN  /\ chan[q][p] # <<>>
      /\ m.type = "KeyEvent"
      /\ chan' = Received(q, p)
      /\ IF IsLocalOwner(p)
         THEN UNCHANGED <<down, injected>>
         ELSE Inject(p, m.key, m.down)
      /\ UNCHANGED <<own, driving, capturing, held, waking, online, links, pressed>>

(* A link breaks; what was sent before may still arrive. *)
LinkDown(p, q) ==
  /\ {p, q} \in links
  /\ links' = links \ {{p, q}}
  /\ UNCHANGED <<own, driving, capturing, held, waking, online, chan, keyVars>>

(* p finds that q is gone: its silence, or the closed connection. *)
PeerOffline(p, q) ==
  /\ q \in online[p]
  /\ {p, q} \notin links
  /\ online' = [online EXCEPT ![p] = @ \ {q}]
  /\ LET rest == [chan EXCEPT ![q][p] = <<>>]
     IN  IF Owner(p) = q
         THEN Own(p, SwitchClaim(p, own[p], p), rest)
         ELSE chan' = rest /\ UNCHANGED <<own, driving, capturing, held>>
  /\ UNCHANGED <<waking, links, keyVars>>

(* The fail-safe at the end of a poll in which a claim named a peer that is
   not online. *)
FailSafe(p) ==
  /\ ~Settled(p)
  /\ Own(p, SwitchClaim(p, own[p], p), chan)
  /\ UNCHANGED <<waking, online, links, keyVars>>

(* Mutant: nobody looks whether a peer is online. *)
Timer_NoLetGo(p) ==
  /\ Settled(p)
  /\ SyncCapture(p, IsLocalOwner(p), driving[p], chan)
  /\ UNCHANGED <<own, waking, online, links, keyVars>>

(* WM_TIMER: a machine that drives while every peer is offline lets go; the
   hooks are reconciled in any case; a machine that is not back in time is
   given up. *)
Timer(p) ==
  /\ Settled(p)
  /\ waking[p] \notin online[p]
  /\ SyncCapture(p, IsLocalOwner(p), driving[p] /\ online[p] # {}, chan)
  /\ \E target \in {waking[p], Nobody} : waking' = [waking EXCEPT ![p] = target]
  /\ UNCHANGED <<own, online, links, keyVars>>

(* WM_TIMER, when the machine that is being woken is online, however late:
   requestSwitchTo(target).  Another machine then owns input, so that the
   hooks go if they are there. *)
TimerWoken(p) ==
  LET claim == SwitchClaim(p, own[p], waking[p])
  IN  /\ Settled(p)
      /\ waking[p] \in online[p]
      /\ own[p].clock < MaxSeq /\ HasRoom(p)
      /\ own' = [own EXCEPT ![p] = applyClaim(@, claim)]
      /\ SyncCapture(p, FALSE, driving[p], Broadcast(chan, p, <<SwitchOwner(claim)>>))
      /\ waking' = [waking EXCEPT ![p] = Nobody]
      /\ UNCHANGED <<online, links, keyVars>>

(* While no link breaks. *)
StableNext ==
  \/ \E p \in Peer : \/ ControlPeer(p) \/ StopDriving(p) \/ Timer(p) \/ TimerWoken(p)
                     \/ \E k \in Key, isDown \in BOOLEAN : Touch(p, k, isDown)
  \/ \E p, q \in Peer : StartWake(p, q) \/ RecvClaim(p, q) \/ RecvKey(p, q)

Next ==
  \/ StableNext
  \/ \E p \in Peer : FailSafe(p)
  \/ \E p, q \in Peer : LinkDown(p, q) \/ PeerOffline(p, q)

StableSpec == Init /\ [][StableNext]_vars
Spec == Init /\ [][Next]_vars

(* The timer and the pump run for as long as the application does. *)
FairSpec ==
  /\ Spec
  /\ \A p \in Peer : WF_vars(Timer(p)) /\ WF_vars(FailSafe(p))
  /\ \A p \in Peer : \A q \in Peer \ {p} :
       WF_vars(PeerOffline(p, q)) /\ WF_vars(RecvClaim(p, q) \/ RecvKey(p, q))
----------------------------------------------------------------------------
(* Properties *)

(* Local input is swallowed only while this machine drives and owns input; no
   claim that arrives, no revert and no refused installation leaves the hooks
   behind (tray_win.cpp, syncCapture and onOwnerChanged). *)
SwallowsOnlyAsOwner ==
  \A p \in Peer : capturing[p] => driving[p] /\ IsLocalOwner(p)

(* What is recorded as held is what the listeners will be told to release:
   nothing is recorded once the hooks are gone (input_pipeline.cpp). *)
HeldOnlyWhileCapturing == \A p \in Peer : held[p] # {} => capturing[p]

Quiet == \A p, q \in Peer : chan[p][q] = <<>>
NoneCaptures == \A p \in Peer : ~capturing[p]

(* With all links up and every message arrived, at most one machine captures
   (spec 2.1: exactly one machine at a time is the input owner). *)
OneCapturesWhenQuiet ==
  Quiet /\ links = AllLinks =>
    \A p, q \in Peer : capturing[p] /\ capturing[q] => p = q

(* A machine that is never made the owner is left with no key down that was
   injected: whatever way the drivers let go of or take input from one another,
   their releases reach it (spec 4.4). *)
ListenersKeysReleased ==
  Quiet /\ links = AllLinks /\ NoneCaptures =>
    \A p \in Peer \ (Driver \cup Woken) : injected[p] = {}

(* A user is not locked out: once all links of a machine are broken for good,
   its input is not swallowed for ever (tray_win.cpp, WM_TIMER). *)
LockoutEnds ==
  \A p \in Peer :
    <>[](\A q \in Peer : {p, q} \notin links) => <>[]~capturing[p]

(* "Sinks inject forwarded input from the current owner" (mesh_node.cpp): the
   sender of an injected event is the owner the machine knows. *)
InjectsOnlyFromOwner ==
  [][\A p, q \in Peer : RecvKey(p, q) /\ ~IsLocalOwner(p) => Owner(p) = q]_vars

(* "A switch-out can synthesize the matching releases BEFORE handing off
   capture" (input_tracker.h): once all is quiet and nobody captures, no key is
   left down by an event that was injected. *)
SwitchOutReleases ==
  Quiet /\ links = AllLinks /\ NoneCaptures => \A p \in Peer : injected[p] = {}

(* "On success (machine reconnects): proceed normally" (spec.md 12): when the
   machine the user asked for is up, the user drives it, as controlPeer makes
   them drive a machine that is up already. *)
WokenIsDriven == [][\A p \in Peer : TimerWoken(p) => driving'[p]]_vars

(* A modifier held through a switch does not leave the machine that starts to
   drive believing it is still pressed (spec 4.4): while it does not capture,
   a key that is down there by its own keyboard is physically held. *)
OwnKeysMatch ==
  \A p \in Peer : ~capturing[p] => down[p] \ injected[p] \subseteq pressed[p]
=============================================================================
