---------------------------- MODULE HandoffProofs ----------------------------
(***************************************************************************)
(* Proofs about InputHandoff: with any number of machines and keys, and    *)
(* whatever links break, a machine swallows its user's input only while    *)
(* the user drives and the machine owns input, and it forgets nothing of   *)
(* what it must release.  As long as no link breaks, one machine at most   *)
(* captures when nothing is on the way, and no listener is left with a key *)
(* down.                                                                   *)
(***************************************************************************)
EXTENDS InputHandoff, FiniteSetTheorems, SequenceTheorems, TLAPS

Chans == [Peer -> [Peer -> Seq(Message)]]

(* The clock of a machine is not behind the claim it holds, so that a claim
   of its own always wins; without it, controlPeer would install the hooks on
   a machine that stays a sink. *)
ClockKeepsUp == \A p \in Peer : own[p].current.sequence <= own[p].clock

HandoffInv == TypeOK /\ ClockKeepsUp /\ SwallowsOnlyAsOwner /\ HeldOnlyWhileCapturing
----------------------------------------------------------------------------
(* Claims. *)

LEMMA ApplyClaimType ==
  ASSUME NEW st \in OwnState, NEW c \in Claim
  PROVE  /\ applyClaim(st, c) \in OwnState
         /\ st.current.sequence <= st.clock
              => applyClaim(st, c).current.sequence <= applyClaim(st, c).clock
BY DEF applyClaim, OwnState, Claim

LEMMA SwitchClaimType ==
  ASSUME NEW p \in Peer, NEW st \in OwnState, NEW t \in Peer
  PROVE  SwitchClaim(p, st, t) \in Claim
BY DEF SwitchClaim, OwnState, Claim

(* A claim of the machine's own is adopted. *)
LEMMA SwitchClaimWins ==
  ASSUME NEW p \in Peer, NEW st \in OwnState, NEW t \in Peer,
         st.current.sequence <= st.clock
  PROVE  applyClaim(st, SwitchClaim(p, st, t)).current.target = t
BY DEF applyClaim, claimSupersedes, SwitchClaim, OwnState, Claim

LEMMA MessageTypes ==
  /\ \A c \in Claim : SwitchOwner(c) \in Message
  /\ \A k \in Key, d \in BOOLEAN : KeyEvent(k, d) \in Message
  /\ \A m \in Message : m.type = "SwitchOwner" => m.claim \in Claim
  /\ \A m \in Message : m.type = "KeyEvent" => m.key \in Key /\ m.down \in BOOLEAN
BY DEF Message, SwitchOwner, KeyEvent
----------------------------------------------------------------------------
(* What is sent. *)

LEMMA FunctionIsSeq ==
  ASSUME NEW S, NEW n \in Nat, NEW f \in [1..n -> S]
  PROVE  f \in Seq(S)
BY SeqDef

LEMMA SetToSeqType ==
  ASSUME NEW S, IsFiniteSet(S)
  PROVE  SetToSeq(S) \in Seq(S)
<1>1. Cardinality(S) \in Nat /\ ExistsBijection(1..Cardinality(S), S)
  BY FS_CardinalityType
<1>2. PICK f \in Bijection(1..Cardinality(S), S) : TRUE
  BY <1>1 DEF ExistsBijection
<1>3. f \in [1..Cardinality(S) -> S] /\ IsInjective(f)
  BY <1>2 DEF Bijection, Injection
<1>4. SetToSeq(S) \in [1..Cardinality(S) -> S]
  BY <1>3 DEF SetToSeq
<1> QED BY <1>1, <1>4, FunctionIsSeq

LEMMA ReleasesType ==
  ASSUME NEW p \in Peer, held[p] \in SUBSET Key
  PROVE  Releases(p) \in Seq(Message)
<1> DEFINE ks == SetToSeq(held[p])
<1>1. IsFiniteSet(held[p])
  BY HandoffAssumption, FS_Subset
<1>2. ks \in Seq(held[p])
  BY <1>1, SetToSeqType
<1>3. ks \in [1..Len(ks) -> held[p]] /\ DOMAIN ks = 1..Len(ks) /\ Len(ks) \in Nat
  BY <1>2, LenProperties
<1> HIDE DEF ks
<1>4. \A i \in 1..Len(ks) : KeyEvent(ks[i], FALSE) \in Message
  BY <1>3, MessageTypes
<1> DEFINE ups == [i \in DOMAIN ks |-> KeyEvent(ks[i], FALSE)]
<1>5. ups \in [1..Len(ks) -> Message]
  BY <1>3, <1>4
<1>6. ups = Releases(p)
  BY DEF Releases, ks
<1> HIDE DEF ups
<1>7. ups \in Seq(Message)
  BY <1>3, <1>5, FunctionIsSeq
<1> QED BY <1>6, <1>7

LEMMA BroadcastType ==
  ASSUME NEW ch \in Chans, NEW p \in Peer, NEW msgs \in Seq(Message)
  PROVE  Broadcast(ch, p, msgs) \in Chans
<1>1. \A q \in Peer : ch[p][q] \o msgs \in Seq(Message)
  BY ConcatProperties DEF Chans
<1>2. [q \in Peer |-> IF {p, q} \in links THEN ch[p][q] \o msgs ELSE ch[p][q]]
        \in [Peer -> Seq(Message)]
  BY <1>1 DEF Chans
<1> QED BY <1>2 DEF Broadcast, Chans

LEMMA SingletonType == \A m \in Message : <<m>> \in Seq(Message)
OBVIOUS
----------------------------------------------------------------------------
(* The hooks. *)

(* After syncCapture the hooks are there only if they are wanted, and what is
   held only if the hooks are there. *)
LEMMA SyncKeeps ==
  ASSUME HandoffInv, NEW p \in Peer, NEW isOwner \in BOOLEAN, NEW drives \in BOOLEAN,
         NEW ch \in Chans, SyncCapture(p, isOwner, drives, ch)
  PROVE  /\ driving' \in [Peer -> BOOLEAN] /\ capturing' \in [Peer -> BOOLEAN]
         /\ held' \in [Peer -> SUBSET Key] /\ chan' \in Chans
         /\ \A q \in Peer : q # p =>
              driving'[q] = driving[q] /\ capturing'[q] = capturing[q] /\ held'[q] = held[q]
         /\ capturing'[p] => driving'[p] /\ isOwner
         /\ held'[p] # {} => capturing'[p]
<1> DEFINE want == drives /\ isOwner
           stops == capturing[p] /\ ~want
<1>1. /\ driving \in [Peer -> BOOLEAN] /\ capturing \in [Peer -> BOOLEAN]
      /\ held \in [Peer -> SUBSET Key]
      /\ held[p] # {} => capturing[p]
  BY DEF HandoffInv, TypeOK, HeldOnlyWhileCapturing
<1>2. /\ driving' = [driving EXCEPT ![p] = want]
      /\ held' = [held EXCEPT ![p] = IF stops THEN {} ELSE held[p]]
      /\ chan' = IF stops THEN Broadcast(ch, p, Releases(p)) ELSE ch
  BY DEF SyncCapture
<1>3. PICK on \in {want, capturing[p] /\ want} : capturing' = [capturing EXCEPT ![p] = on]
  BY DEF SyncCapture
<1>4. on \in BOOLEAN /\ (on => want)
  BY <1>3
<1>5. chan' \in Chans
  BY <1>1, <1>2, ReleasesType, BroadcastType
<1>6. /\ driving' \in [Peer -> BOOLEAN] /\ driving'[p] = want
      /\ \A q \in Peer : q # p => driving'[q] = driving[q]
  BY <1>1, <1>2
<1>7. /\ capturing' \in [Peer -> BOOLEAN] /\ capturing'[p] = on
      /\ \A q \in Peer : q # p => capturing'[q] = capturing[q]
  BY <1>1, <1>3, <1>4
<1>8. /\ held' \in [Peer -> SUBSET Key] /\ held'[p] = IF stops THEN {} ELSE held[p]
      /\ \A q \in Peer : q # p => held'[q] = held[q]
  BY <1>1, <1>2
<1> QED BY <1>1, <1>3, <1>4, <1>5, <1>6, <1>7, <1>8

(* What is left to show of an action of p that reconciles the hooks. *)
LEMMA SyncSuffices ==
  ASSUME HandoffInv, NEW p \in Peer, NEW isOwner \in BOOLEAN, NEW drives \in BOOLEAN,
         NEW ch \in Chans, SyncCapture(p, isOwner, drives, ch),
         NEW st \in OwnState, own' = [own EXCEPT ![p] = st],
         st.current.sequence <= st.clock, isOwner => st.current.target = p,
         waking' \in [Peer -> Woken \cup {Nobody}], online' \in [Peer -> SUBSET Peer],
         UNCHANGED <<links, keyVars>>
  PROVE  HandoffInv'
<1>0. /\ driving' \in [Peer -> BOOLEAN] /\ capturing' \in [Peer -> BOOLEAN]
      /\ held' \in [Peer -> SUBSET Key] /\ chan' \in Chans
      /\ \A q \in Peer : q # p =>
           driving'[q] = driving[q] /\ capturing'[q] = capturing[q] /\ held'[q] = held[q]
      /\ capturing'[p] => driving'[p] /\ isOwner
      /\ held'[p] # {} => capturing'[p]
  BY SyncKeeps
<1>1. own' \in [Peer -> OwnState] /\ own'[p] = st /\ \A q \in Peer : q # p => own'[q] = own[q]
  BY DEF HandoffInv, TypeOK
<1>2. TypeOK'
  BY <1>0, <1>1 DEF HandoffInv, TypeOK, Chans, keyVars
<1>3. ClockKeepsUp'
  BY <1>1 DEF HandoffInv, ClockKeepsUp
<1>4. SwallowsOnlyAsOwner'
  <2> SUFFICES ASSUME NEW q \in Peer, capturing'[q] PROVE driving'[q] /\ own'[q].current.target = q
    BY DEF SwallowsOnlyAsOwner, IsLocalOwner, Owner
  <2>1. CASE q = p
    BY <1>0, <1>1, <2>1
  <2>2. CASE q # p
    <3>1. driving'[q] = driving[q] /\ capturing'[q] = capturing[q] /\ own'[q] = own[q]
      BY <1>0, <1>1, <2>2
    <3>2. capturing[q] => driving[q] /\ own[q].current.target = q
      BY DEF HandoffInv, SwallowsOnlyAsOwner, IsLocalOwner, Owner
    <3> QED BY <3>1, <3>2
  <2> QED BY <2>1, <2>2
<1>5. HeldOnlyWhileCapturing'
  <2> SUFFICES ASSUME NEW q \in Peer, held'[q] # {} PROVE capturing'[q]
    BY DEF HeldOnlyWhileCapturing
  <2>1. CASE q = p
    BY <1>0, <2>1
  <2>2. CASE q # p
    BY <1>0, <2>2 DEF HandoffInv, HeldOnlyWhileCapturing
  <2> QED BY <2>1, <2>2
<1> QED BY <1>2, <1>3, <1>4, <1>5 DEF HandoffInv

(* What is left to show of an action that does not touch the hooks. *)
LEMMA HooksUntouched ==
  ASSUME HandoffInv, TypeOK', UNCHANGED <<own, driving, capturing>>,
         \A p \in Peer : held'[p] # {} => capturing[p]
  PROVE  HandoffInv'
BY DEF HandoffInv, ClockKeepsUp, SwallowsOnlyAsOwner, HeldOnlyWhileCapturing, IsLocalOwner, Owner

(* A change of ownership: if the owner stays, so may the hooks. *)
LEMMA OwnKeeps ==
  ASSUME HandoffInv, NEW p \in Peer, NEW c \in Claim, NEW ch \in Chans, Own(p, c, ch),
         waking' = waking, online' \in [Peer -> SUBSET Peer], UNCHANGED <<links, keyVars>>
  PROVE  HandoffInv'
<1> DEFINE st == applyClaim(own[p], c)
<1>1. own[p] \in OwnState /\ own[p].current.sequence <= own[p].clock
  BY DEF HandoffInv, TypeOK, ClockKeepsUp
<1>2. st \in OwnState /\ st.current.sequence <= st.clock
  BY <1>1, ApplyClaimType
<1>3. own' = [own EXCEPT ![p] = st]
  BY DEF Own
<1>4. waking' \in [Peer -> Woken \cup {Nobody}] /\ driving[p] \in BOOLEAN
  BY DEF HandoffInv, TypeOK
<1>5. CASE st.current.target # Owner(p)
  <2>1. SyncCapture(p, st.current.target = p, driving[p], ch)
    BY <1>5 DEF Own
  <2> QED BY <1>2, <1>3, <1>4, <2>1, SyncSuffices
<1>6. CASE st.current.target = Owner(p)
  <2>1. chan' = ch /\ UNCHANGED <<driving, capturing, held>>
    BY <1>6 DEF Own
  <2>2. own' \in [Peer -> OwnState] /\ own'[p] = st /\ \A q \in Peer : q # p => own'[q] = own[q]
    BY <1>2, <1>3 DEF HandoffInv, TypeOK
  <2>3. TypeOK'
    BY <1>4, <2>1, <2>2 DEF HandoffInv, TypeOK, Chans, keyVars
  <2>4. ClockKeepsUp'
    BY <1>2, <2>2 DEF HandoffInv, ClockKeepsUp
  <2>5. \A q \in Peer : own'[q].current.target = own[q].current.target
    BY <1>6, <2>2 DEF Owner
  <2>6. SwallowsOnlyAsOwner' /\ HeldOnlyWhileCapturing'
    BY <2>1, <2>5 DEF HandoffInv, SwallowsOnlyAsOwner, HeldOnlyWhileCapturing, IsLocalOwner, Owner
  <2> QED BY <2>3, <2>4, <2>6 DEF HandoffInv
<1> QED BY <1>5, <1>6
----------------------------------------------------------------------------
LEMMA InitInv == Init => HandoffInv
<1> SUFFICES ASSUME Init PROVE HandoffInv
  OBVIOUS
<1>1. /\ own \in [Peer -> OwnState]
      /\ \A p \in Peer : own[p].current.sequence = 0 /\ own[p].clock = 0
  BY PeerAssumption DEF Init, BootState, BootClaim, OwnState, Claim
<1>2. TypeOK
  BY <1>1 DEF Init, TypeOK
<1>3. ClockKeepsUp
  <2> SUFFICES ASSUME NEW p \in Peer PROVE own[p].current.sequence <= own[p].clock
    BY DEF ClockKeepsUp
  <2>1. own[p].current.sequence = 0 /\ own[p].clock = 0
    BY <1>1
  <2> QED BY <2>1
<1>4. SwallowsOnlyAsOwner /\ HeldOnlyWhileCapturing
  BY DEF Init, SwallowsOnlyAsOwner, HeldOnlyWhileCapturing
<1> QED BY <1>2, <1>3, <1>4 DEF HandoffInv

LEMMA ReceivedType ==
  ASSUME HandoffInv, NEW p \in Peer, NEW q \in Peer, chan[q][p] # <<>>
  PROVE  Head(chan[q][p]) \in Message /\ Received(q, p) \in Chans
<1>1. chan \in Chans /\ chan[q][p] \in Seq(Message)
  BY DEF HandoffInv, TypeOK, Chans
<1>2. Head(chan[q][p]) \in Message /\ Tail(chan[q][p]) \in Seq(Message)
  BY <1>1, HeadTailProperties
<1> QED BY <1>1, <1>2 DEF Received, Chans

(* Each action of a user keeps the invariant. *)
LEMMA UserKeeps ==
  ASSUME HandoffInv, NEW p \in Peer,
         \/ ControlPeer(p) \/ StopDriving(p) \/ Timer(p) \/ TimerWoken(p)
         \/ \E q \in Peer : StartWake(p, q)
  PROVE  HandoffInv'
<1>1. /\ own[p] \in OwnState /\ own[p].current.sequence <= own[p].clock
      /\ own = [own EXCEPT ![p] = own[p]]
      /\ chan \in Chans /\ driving[p] \in BOOLEAN /\ IsLocalOwner(p) \in BOOLEAN
      /\ waking \in [Peer -> Woken \cup {Nobody}] /\ online \in [Peer -> SUBSET Peer]
  BY DEF HandoffInv, TypeOK, ClockKeepsUp, Chans, IsLocalOwner
<1>2. \A t \in Peer :
        /\ SwitchClaim(p, own[p], t) \in Claim
        /\ applyClaim(own[p], SwitchClaim(p, own[p], t)) \in OwnState
        /\ applyClaim(own[p], SwitchClaim(p, own[p], t)).current.sequence
              <= applyClaim(own[p], SwitchClaim(p, own[p], t)).clock
        /\ applyClaim(own[p], SwitchClaim(p, own[p], t)).current.target = t
        /\ Broadcast(chan, p, <<SwitchOwner(SwitchClaim(p, own[p], t))>>) \in Chans
  BY <1>1, SwitchClaimType, SwitchClaimWins, ApplyClaimType, BroadcastType, SingletonType,
     MessageTypes
<1>3. CASE ControlPeer(p)
  <2> DEFINE c == SwitchClaim(p, own[p], p)
             st == applyClaim(own[p], c)
  <2>1. /\ SyncCapture(p, TRUE, TRUE, Broadcast(chan, p, <<SwitchOwner(c)>>))
        /\ own' = [own EXCEPT ![p] = st]
        /\ UNCHANGED <<waking, online, links, keyVars>>
    BY <1>3 DEF ControlPeer
  <2>2. /\ st \in OwnState /\ st.current.sequence <= st.clock /\ st.current.target = p
        /\ Broadcast(chan, p, <<SwitchOwner(c)>>) \in Chans
    BY <1>2
  <2> HIDE DEF c, st
  <2> QED BY <1>1, <2>1, <2>2, SyncSuffices
<1>4. CASE StopDriving(p)
  <2>1. /\ SyncCapture(p, IsLocalOwner(p), FALSE, chan)
        /\ own' = [own EXCEPT ![p] = own[p]]
        /\ UNCHANGED <<waking, online, links, keyVars>>
    BY <1>1, <1>4 DEF StopDriving
  <2>2. IsLocalOwner(p) => own[p].current.target = p
    BY DEF IsLocalOwner, Owner
  <2> QED BY <1>1, <2>1, <2>2, SyncSuffices
<1>5. CASE Timer(p)
  <2> DEFINE drives == driving[p] /\ online[p] # {}
  <2>1. /\ SyncCapture(p, IsLocalOwner(p), drives, chan)
        /\ own' = [own EXCEPT ![p] = own[p]]
        /\ UNCHANGED <<online, links, keyVars>>
    BY <1>1, <1>5 DEF Timer
  <2>2. IsLocalOwner(p) => own[p].current.target = p
    BY DEF IsLocalOwner, Owner
  <2>3. waking' \in [Peer -> Woken \cup {Nobody}]
    BY <1>1, <1>5 DEF Timer
  <2>4. drives \in BOOLEAN
    OBVIOUS
  <2> HIDE DEF drives
  <2>5. online' \in [Peer -> SUBSET Peer] /\ own[p].current.sequence <= own[p].clock
    BY <1>1, <2>1
  <2>6. IsLocalOwner(p) \in BOOLEAN /\ chan \in Chans /\ own[p] \in OwnState
    BY <1>1
  <2> QED BY <2>1, <2>2, <2>3, <2>4, <2>5, <2>6, SyncSuffices
<1>6. CASE TimerWoken(p)
  <2> DEFINE c == SwitchClaim(p, own[p], waking[p])
             st == applyClaim(own[p], c)
  <2>1. /\ SyncCapture(p, FALSE, driving[p], Broadcast(chan, p, <<SwitchOwner(c)>>))
        /\ own' = [own EXCEPT ![p] = st]
        /\ UNCHANGED <<online, links, keyVars>>
    BY <1>6 DEF TimerWoken
  <2>2. waking[p] \in Peer /\ waking' \in [Peer -> Woken \cup {Nobody}]
    BY <1>1, <1>6 DEF TimerWoken
  <2>3. /\ st \in OwnState /\ st.current.sequence <= st.clock
        /\ Broadcast(chan, p, <<SwitchOwner(c)>>) \in Chans
    BY <1>2, <2>2
  <2> HIDE DEF c, st
  <2> QED BY <1>1, <2>1, <2>2, <2>3, SyncSuffices
<1>7. ASSUME NEW q \in Peer, StartWake(p, q) PROVE HandoffInv'
  <2>1. /\ waking' \in [Peer -> Woken \cup {Nobody}]
        /\ UNCHANGED <<own, driving, capturing, held, online, links, chan, keyVars>>
    BY <1>1, <1>7 DEF StartWake
  <2>2. TypeOK'
    BY <2>1 DEF HandoffInv, TypeOK, keyVars
  <2> QED BY <2>1, <2>2, HooksUntouched DEF HandoffInv, HeldOnlyWhileCapturing
<1> QED BY <1>3, <1>4, <1>5, <1>6, <1>7

LEMMA KeysType ==
  ASSUME NEW f \in [Peer -> SUBSET Key], NEW p \in Peer, NEW k \in Key, NEW isDown
  PROVE  /\ [f EXCEPT ![p] = IF isDown THEN @ \cup {k} ELSE @ \ {k}] \in [Peer -> SUBSET Key]
         /\ [f EXCEPT ![p] = @ \ {k}] \in [Peer -> SUBSET Key]
<1>1. (IF isDown THEN f[p] \cup {k} ELSE f[p] \ {k}) \in SUBSET Key /\ f[p] \ {k} \in SUBSET Key
  OBVIOUS
<1> QED BY <1>1

(* What arrives, and what the machine finds out about its peers. *)
LEMMA MeshKeeps ==
  ASSUME HandoffInv, NEW p \in Peer,
         \/ FailSafe(p)
         \/ \E q \in Peer : RecvClaim(p, q) \/ RecvKey(p, q) \/ LinkDown(p, q) \/ PeerOffline(p, q)
         \/ \E k \in Key, isDown \in BOOLEAN : Touch(p, k, isDown)
  PROVE  HandoffInv'
<1>0. /\ down \in [Peer -> SUBSET Key] /\ injected \in [Peer -> SUBSET Key]
      /\ pressed \in [Peer -> SUBSET Key] /\ held \in [Peer -> SUBSET Key]
  BY DEF HandoffInv, TypeOK
<1>1. /\ own[p] \in OwnState /\ chan \in Chans /\ online \in [Peer -> SUBSET Peer]
      /\ SwitchClaim(p, own[p], p) \in Claim
  BY SwitchClaimType DEF HandoffInv, TypeOK, Chans
<1>2. CASE FailSafe(p)
  BY <1>1, <1>2, OwnKeeps DEF FailSafe
<1>3. ASSUME NEW q \in Peer, RecvClaim(p, q) PROVE HandoffInv'
  <2>1. /\ Head(chan[q][p]).claim \in Claim /\ Received(q, p) \in Chans
        /\ Own(p, Head(chan[q][p]).claim, Received(q, p))
        /\ UNCHANGED <<waking, online, links, keyVars>>
    BY <1>3, ReceivedType, MessageTypes DEF RecvClaim
  <2> QED BY <1>1, <2>1, OwnKeeps
<1>4. ASSUME NEW q \in Peer, RecvKey(p, q) PROVE HandoffInv'
  <2> DEFINE m == Head(chan[q][p])
  <2>1. /\ m.key \in Key /\ m.down \in BOOLEAN /\ chan' \in Chans
        /\ IF IsLocalOwner(p) THEN UNCHANGED <<down, injected>> ELSE Inject(p, m.key, m.down)
        /\ UNCHANGED <<own, driving, capturing, held, waking, online, links, pressed>>
    BY <1>4, ReceivedType, MessageTypes DEF RecvKey
  <2> HIDE DEF m
  <2>2. down' \in [Peer -> SUBSET Key] /\ injected' \in [Peer -> SUBSET Key]
    BY <1>0, <2>1, KeysType DEF Inject
  <2>3. TypeOK'
    BY <2>1, <2>2 DEF HandoffInv, TypeOK, Chans
  <2> QED BY <2>1, <2>3, HooksUntouched DEF HandoffInv, HeldOnlyWhileCapturing
<1>5. ASSUME NEW q \in Peer, LinkDown(p, q) PROVE HandoffInv'
  <2>1. TypeOK'
    BY <1>5 DEF LinkDown, HandoffInv, TypeOK, keyVars
  <2> QED BY <1>5, <2>1, HooksUntouched DEF LinkDown, HandoffInv, HeldOnlyWhileCapturing
<1>6. ASSUME NEW q \in Peer, PeerOffline(p, q) PROVE HandoffInv'
  <2> DEFINE rest == [chan EXCEPT ![q][p] = <<>>]
  <2>1. rest \in Chans
    BY <1>1, EmptySeq DEF Chans
  <2>2. online' \in [Peer -> SUBSET Peer] /\ UNCHANGED <<waking, links, keyVars>>
    BY <1>1, <1>6 DEF PeerOffline
  <2>3. CASE Owner(p) = q
    <3>1. Own(p, SwitchClaim(p, own[p], p), rest)
      BY <1>6, <2>3 DEF PeerOffline
    <3> HIDE DEF rest
    <3> QED BY <1>1, <2>1, <2>2, <3>1, OwnKeeps
  <2>4. CASE Owner(p) # q
    <3>1. chan' = rest /\ UNCHANGED <<own, driving, capturing, held>>
      BY <1>6, <2>4 DEF PeerOffline
    <3> HIDE DEF rest
    <3>2. TypeOK'
      BY <2>1, <2>2, <3>1 DEF HandoffInv, TypeOK, Chans, keyVars
    <3> QED BY <3>1, <3>2, HooksUntouched DEF HandoffInv, HeldOnlyWhileCapturing
  <2> QED BY <2>3, <2>4
<1>7. ASSUME NEW k \in Key, NEW isDown \in BOOLEAN, Touch(p, k, isDown) PROVE HandoffInv'
  <2>1. /\ pressed' \in [Peer -> SUBSET Key]
        /\ UNCHANGED <<own, driving, capturing, waking, online, links>>
    BY <1>0, <1>7, KeysType DEF Touch
  <2>2. CASE capturing[p] /\ IsLocalOwner(p)
    <3>1. /\ held' = [held EXCEPT ![p] = IF isDown THEN held[p] \cup {k} ELSE held[p] \ {k}]
          /\ chan' = Broadcast(chan, p, <<KeyEvent(k, isDown)>>)
          /\ UNCHANGED <<down, injected>>
      BY <1>7, <2>2 DEF Touch, Forward
    <3>2. chan' \in Chans
      BY <1>1, <3>1, BroadcastType, SingletonType, MessageTypes
    <3>3. held' \in [Peer -> SUBSET Key] /\ \A q \in Peer : q # p => held'[q] = held[q]
      BY <3>1 DEF HandoffInv, TypeOK
    <3>4. TypeOK'
      BY <2>1, <3>1, <3>2, <3>3 DEF HandoffInv, TypeOK, Chans
    <3>5. \A q \in Peer : held'[q] # {} => capturing[q]
      BY <2>2, <3>3 DEF HandoffInv, HeldOnlyWhileCapturing
    <3> QED BY <2>1, <3>4, <3>5, HooksUntouched
  <2>3. CASE ~(capturing[p] /\ IsLocalOwner(p))
    <3>1. UNCHANGED <<held, chan>>
      BY <1>7, <2>3 DEF Touch, Forward
    <3>2. down' \in [Peer -> SUBSET Key] /\ injected' \in [Peer -> SUBSET Key]
      BY <1>0, <1>7, KeysType DEF Touch
    <3>3. TypeOK'
      BY <2>1, <3>1, <3>2 DEF HandoffInv, TypeOK
    <3> QED BY <2>1, <3>1, <3>3, HooksUntouched DEF HandoffInv, HeldOnlyWhileCapturing
  <2> QED BY <2>2, <2>3
<1> QED BY <1>2, <1>3, <1>4, <1>5, <1>6, <1>7

LEMMA StepInv == HandoffInv /\ [Next]_vars => HandoffInv'
<1> SUFFICES ASSUME HandoffInv, [Next]_vars PROVE HandoffInv'
  OBVIOUS
<1>1. CASE UNCHANGED vars
  BY <1>1 DEF vars, keyVars, HandoffInv, TypeOK, ClockKeepsUp, SwallowsOnlyAsOwner,
              HeldOnlyWhileCapturing, IsLocalOwner, Owner
<1>2. CASE StableNext
  BY <1>2, UserKeeps, MeshKeeps DEF StableNext
<1>3. CASE \E p \in Peer : FailSafe(p)
  BY <1>3, MeshKeeps
<1>4. CASE \E p, q \in Peer : LinkDown(p, q) \/ PeerOffline(p, q)
  BY <1>4, MeshKeeps
<1> QED BY <1>1, <1>2, <1>3, <1>4 DEF Next

(* The variables keep their types. *)
THEOREM HandoffTyped == Spec => []TypeOK
<1>1. HandoffInv => TypeOK
  BY DEF HandoffInv
<1> QED BY <1>1, InitInv, StepInv, PTL DEF Spec

(* Local input is swallowed only while this machine drives and owns input:
   no claim, revert, wake, broken link or refused hook leaves the hooks behind
   (syncCapture and its callers). *)
THEOREM NeverSwallowsAsSink == Spec => []SwallowsOnlyAsOwner
<1>1. HandoffInv => SwallowsOnlyAsOwner
  BY DEF HandoffInv
<1> QED BY <1>1, InitInv, StepInv, PTL DEF Spec

(* Nothing is recorded as held once the hooks are gone: whatever was forwarded
   as down has been released to the peers by then (syncCapture, drainReleases). *)
THEOREM NothingHeldBehind == Spec => []HeldOnlyWhileCapturing
<1>1. HandoffInv => HeldOnlyWhileCapturing
  BY DEF HandoffInv
<1> QED BY <1>1, InitInv, StepInv, PTL DEF Spec
----------------------------------------------------------------------------
(* While every link works: what is on the way and what it says of the rest. *)

Has(s, m) == \E i \in DOMAIN s : s[i] = m

(* The last event of k in s is a down. *)
EndsDown(s, k) ==
  \E i \in DOMAIN s : /\ s[i] = KeyEvent(k, TRUE)
                      /\ \A j \in DOMAIN s : j > i => s[j] # KeyEvent(k, FALSE)

LEMMA HasConcat ==
  ASSUME NEW s \in Seq(Message), NEW t \in Seq(Message), NEW m
  PROVE  Has(s \o t, m) <=> Has(s, m) \/ Has(t, m)
<1> DEFINE u == s \o t
<1>1. /\ Len(s) \in Nat /\ Len(t) \in Nat /\ Len(u) = Len(s) + Len(t)
      /\ DOMAIN s = 1..Len(s) /\ DOMAIN t = 1..Len(t) /\ DOMAIN u = 1..Len(u)
      /\ \A i \in 1..Len(s) : u[i] = s[i]
      /\ \A i \in 1..Len(t) : u[Len(s) + i] = t[i]
  BY ConcatProperties, LenProperties
<1>2. \A i \in 1..Len(u) : i \in 1..Len(s) \/ (i - Len(s) \in 1..Len(t) /\ u[i] = t[i - Len(s)])
  <2> TAKE i \in 1..Len(u)
  <2>1. CASE i > Len(s)
    <3>1. i - Len(s) \in 1..Len(t) /\ Len(s) + (i - Len(s)) = i
      BY <1>1, <2>1
    <3> QED BY <1>1, <3>1
  <2>2. CASE ~(i > Len(s))
    BY <1>1, <2>2
  <2> QED BY <2>1, <2>2
<1>3. /\ \A i \in 1..Len(s) : i \in 1..Len(u)
      /\ \A i \in 1..Len(t) : Len(s) + i \in 1..Len(u)
  BY <1>1
<1>4. ASSUME NEW i \in DOMAIN u, u[i] = m PROVE Has(s, m) \/ Has(t, m)
  BY <1>1, <1>2, <1>4 DEF Has
<1>5. ASSUME NEW i \in DOMAIN s, s[i] = m PROVE Has(u, m)
  BY <1>1, <1>3, <1>5 DEF Has
<1>6. ASSUME NEW i \in DOMAIN t, t[i] = m PROVE Has(u, m)
  BY <1>1, <1>3, <1>6 DEF Has
<1> QED BY <1>4, <1>5, <1>6 DEF Has

LEMMA HasTail ==
  ASSUME NEW s \in Seq(Message), s # <<>>, NEW m
  PROVE  Has(s, m) <=> Head(s) = m \/ Has(Tail(s), m)
<1> DEFINE n == Len(s)
           t == Tail(s)
<1>1. /\ n \in Nat /\ n > 0 /\ DOMAIN s = 1..n /\ Head(s) = s[1]
      /\ DOMAIN t = 1..(n - 1)
      /\ \A i \in 1..(n - 1) : t[i] = s[i + 1]
  BY HeadTailProperties, LenProperties
<1> HIDE DEF n, t
<1>2. \A i \in 1..n : i = 1 \/ (i - 1 \in 1..(n - 1) /\ (i - 1) + 1 = i)
  BY <1>1
<1>3. 1 \in 1..n /\ \A i \in 1..(n - 1) : i + 1 \in 1..n
  BY <1>1
<1>4. ASSUME NEW i \in 1..n, s[i] = m, i # 1 PROVE Has(t, m)
  <2>1. i - 1 \in 1..(n - 1) /\ t[i - 1] = m
    BY <1>1, <1>2, <1>4
  <2> QED BY <1>1, <2>1 DEF Has
<1>5. ASSUME NEW i \in 1..(n - 1), t[i] = m PROVE Has(s, m)
  <2>1. i + 1 \in 1..n /\ s[i + 1] = m
    BY <1>1, <1>3, <1>5
  <2> QED BY <1>1, <2>1 DEF Has
<1>6. Has(s, m) => Head(s) = m \/ Has(t, m)
  BY <1>1, <1>4 DEF Has
<1>7. Head(s) = m => Has(s, m)
  BY <1>1, <1>3 DEF Has
<1>8. Has(t, m) => Has(s, m)
  BY <1>1, <1>5 DEF Has
<1> QED BY <1>6, <1>7, <1>8 DEF t

LEMMA EndsConcat ==
  ASSUME NEW s \in Seq(Message), NEW t \in Seq(Message), NEW k, EndsDown(s \o t, k)
  PROVE  EndsDown(t, k) \/ (EndsDown(s, k) /\ ~Has(t, KeyEvent(k, FALSE)))
<1> DEFINE u == s \o t
           l == Len(s)
           n == Len(t)
           dn == KeyEvent(k, TRUE)
           up == KeyEvent(k, FALSE)
<1>1. /\ l \in Nat /\ n \in Nat
      /\ DOMAIN s = 1..l /\ DOMAIN t = 1..n /\ DOMAIN u = 1..(l + n)
      /\ \A i \in 1..l : u[i] = s[i]
      /\ \A i \in 1..n : u[l + i] = t[i]
  BY ConcatProperties, LenProperties
<1>2. PICK i \in 1..(l + n) : u[i] = dn /\ \A j \in 1..(l + n) : j > i => u[j] # up
  BY <1>1 DEF EndsDown
<1>3. /\ EndsDown(t, k) <=> \E a \in DOMAIN t : t[a] = dn /\ \A b \in DOMAIN t : b > a => t[b] # up
      /\ EndsDown(s, k) <=> \E a \in DOMAIN s : s[a] = dn /\ \A b \in DOMAIN s : b > a => s[b] # up
      /\ Has(t, up) <=> \E a \in DOMAIN t : t[a] = up
  BY DEF EndsDown, Has
<1> HIDE DEF u, l, n, dn, up
<1>4. CASE i > l
  <2>1. PICK a \in 1..n : i = l + a
    <3>1. i - l \in 1..n /\ i = l + (i - l)
      BY <1>1, <1>4
    <3> QED BY <3>1
  <2>2. t[a] = dn
    BY <1>1, <1>2, <2>1
  <2>3. ASSUME NEW b \in 1..n, b > a PROVE t[b] # up
    <3>1. l + b \in 1..(l + n) /\ l + b > i
      BY <1>1, <2>1, <2>3
    <3> QED BY <1>1, <1>2, <3>1
  <2> QED BY <1>1, <1>3, <2>2, <2>3
<1>5. CASE ~(i > l)
  <2>1. i \in 1..l
    BY <1>1, <1>5
  <2>2. s[i] = dn
    BY <1>1, <1>2, <2>1
  <2>3. ASSUME NEW b \in 1..l, b > i PROVE s[b] # up
    <3>1. b \in 1..(l + n)
      BY <1>1
    <3> QED BY <1>1, <1>2, <2>3, <3>1
  <2>4. ASSUME NEW b \in 1..n PROVE t[b] # up
    <3>1. l + b \in 1..(l + n) /\ l + b > i
      BY <1>1, <2>1
    <3> QED BY <1>1, <1>2, <3>1
  <2>5. EndsDown(s, k)
    BY <1>1, <1>3, <2>1, <2>2, <2>3
  <2>6. ~Has(t, up)
    BY <1>1, <1>3, <2>4
  <2> QED BY <2>5, <2>6 DEF up
<1> QED BY <1>4, <1>5

LEMMA EndsTail ==
  ASSUME NEW s \in Seq(Message), s # <<>>, NEW k
  PROVE  /\ EndsDown(Tail(s), k) => EndsDown(s, k)
         /\ Head(s) = KeyEvent(k, TRUE) /\ ~Has(Tail(s), KeyEvent(k, FALSE)) => EndsDown(s, k)
<1> DEFINE n == Len(s)
           t == Tail(s)
           dn == KeyEvent(k, TRUE)
           up == KeyEvent(k, FALSE)
<1>1. /\ n \in Nat /\ n > 0 /\ DOMAIN s = 1..n /\ Head(s) = s[1]
      /\ DOMAIN t = 1..(n - 1)
      /\ \A i \in 1..(n - 1) : t[i] = s[i + 1]
  BY HeadTailProperties, LenProperties
<1>2. /\ EndsDown(t, k) <=> \E a \in DOMAIN t : t[a] = dn /\ \A b \in DOMAIN t : b > a => t[b] # up
      /\ EndsDown(s, k) <=> \E a \in DOMAIN s : s[a] = dn /\ \A b \in DOMAIN s : b > a => s[b] # up
      /\ Has(t, up) <=> \E a \in DOMAIN t : t[a] = up
  BY DEF EndsDown, Has
<1> HIDE DEF n, t, dn, up
<1>3. \A b \in 1..n : b > 1 => b - 1 \in 1..(n - 1) /\ s[b] = t[b - 1]
  <2> SUFFICES ASSUME NEW b \in 1..n, b > 1 PROVE b - 1 \in 1..(n - 1) /\ s[b] = t[b - 1]
    OBVIOUS
  <2>1. b - 1 \in 1..(n - 1) /\ (b - 1) + 1 = b
    BY <1>1
  <2> QED BY <1>1, <2>1
<1>4. ASSUME EndsDown(t, k) PROVE EndsDown(s, k)
  <2>1. PICK a \in 1..(n - 1) : t[a] = dn /\ \A b \in 1..(n - 1) : b > a => t[b] # up
    BY <1>1, <1>2, <1>4
  <2>2. a + 1 \in 1..n
    BY <1>1
  <2>3. s[a + 1] = dn
    BY <1>1, <2>1
  <2>4. ASSUME NEW b \in 1..n, b > a + 1 PROVE s[b] # up
    <3>1. b > 1 /\ b - 1 > a
      BY <1>1, <2>4
    <3> QED BY <1>3, <2>1, <3>1
  <2> QED BY <1>1, <1>2, <2>2, <2>3, <2>4
<1>5. ASSUME Head(s) = dn, ~Has(t, up) PROVE EndsDown(s, k)
  <2>1. 1 \in 1..n /\ s[1] = dn
    BY <1>1, <1>5
  <2>2. ASSUME NEW b \in 1..n, b > 1 PROVE s[b] # up
    BY <1>1, <1>2, <1>3, <1>5, <2>2
  <2> QED BY <1>1, <1>2, <2>1, <2>2
<1> QED BY <1>4, <1>5 DEF t, dn, up

(* What is held is what is released. *)
LEMMA ReleasesHas ==
  ASSUME NEW p \in Peer, held[p] \in SUBSET Key, NEW m
  PROVE  Has(Releases(p), m) <=> \E k \in held[p] : m = KeyEvent(k, FALSE)
<1> DEFINE S == held[p]
           n == Cardinality(S)
<1>1. IsFiniteSet(S)
  BY HandoffAssumption, FS_Subset
<1>2. n \in Nat /\ ExistsBijection(1..n, S)
  BY <1>1, FS_CardinalityType
<1>3. PICK f \in Bijection(1..n, S) : TRUE
  BY <1>2 DEF ExistsBijection
<1>4. f \in [1..n -> S] /\ IsInjective(f)
  BY <1>3 DEF Bijection, Injection
<1>5. SetToSeq(S) \in [1..n -> S] /\ IsInjective(SetToSeq(S))
  BY <1>4 DEF SetToSeq
<1> DEFINE ks == SetToSeq(S)
<1>6. ks \in Injection(1..n, S)
  BY <1>5 DEF Injection
<1> HIDE DEF ks
<1>7. IsFiniteSet(1..n) /\ Cardinality(1..n) = n
  BY <1>2, FS_Interval
<1>8. ks \in Surjection(1..n, S)
  BY <1>1, <1>6, <1>7, FS_Injection
<1>9. ks \in [1..n -> S] /\ DOMAIN ks = 1..n /\ \A k \in S : \E i \in 1..n : ks[i] = k
  BY <1>8 DEF Surjection
<1>10. Releases(p) = [i \in 1..n |-> KeyEvent(ks[i], FALSE)]
  BY <1>9 DEF Releases, ks
<1>11. \A i \in 1..n : ks[i] \in S
  BY <1>9
<1> HIDE DEF n, S
<1>12. DOMAIN Releases(p) = 1..n /\ \A i \in 1..n : Releases(p)[i] = KeyEvent(ks[i], FALSE)
  BY <1>10
<1>13. Has(Releases(p), m) <=> \E k \in S : m = KeyEvent(k, FALSE)
  BY <1>9, <1>11, <1>12 DEF Has
<1> QED BY <1>13 DEF S
----------------------------------------------------------------------------
(* Where messages go. *)

LEMMA LinkBetween == \A p, q \in Peer : {p, q} \in AllLinks <=> p # q
<1> SUFFICES ASSUME NEW p \in Peer, NEW q \in Peer PROVE {p, q} \in AllLinks <=> p # q
  OBVIOUS
<1>1. {p, q} \in {{x, y} : x, y \in Peer}
  OBVIOUS
<1>2. {p, q} \in {{x} : x \in Peer} <=> p = q
  <2>1. \A x : {p, q} = {x} => p = x /\ q = x
    OBVIOUS
  <2>2. p = q => {p, q} = {p}
    OBVIOUS
  <2> QED BY <2>1, <2>2
<1> QED BY <1>1, <1>2 DEF AllLinks

LEMMA BroadcastIs ==
  ASSUME links = AllLinks, NEW ch \in Chans, NEW p \in Peer, NEW msgs
  PROVE  \A r, q \in Peer :
           Broadcast(ch, p, msgs)[r][q] = IF r = p /\ q # p THEN ch[r][q] \o msgs ELSE ch[r][q]
<1>1. \A q \in Peer : {p, q} \in links <=> q # p
  BY LinkBetween
<1> QED BY <1>1 DEF Broadcast, Chans

LEMMA SyncIs ==
  ASSUME links = AllLinks, NEW p \in Peer, NEW isOwner, NEW drives, NEW ch \in Chans,
         SyncCapture(p, isOwner, drives, ch)
  PROVE  \A r, q \in Peer :
           chan'[r][q] = IF capturing[p] /\ ~(drives /\ isOwner) /\ r = p /\ q # p
                         THEN ch[r][q] \o Releases(p) ELSE ch[r][q]
BY BroadcastIs DEF SyncCapture

LEMMA ReceivedIs ==
  ASSUME chan \in Chans, NEW p \in Peer, NEW q \in Peer
  PROVE  \A r, s \in Peer :
           Received(q, p)[r][s] = IF r = q /\ s = p THEN Tail(chan[r][s]) ELSE chan[r][s]
BY DEF Received, Chans
----------------------------------------------------------------------------
(* Claims spread.  Nobody forgets a claim: while every link works, a claim   *)
(* of which a machine has heard is, for each machine, either still on the    *)
(* way to it from the one that issued it, or the machine's own claim is as   *)
(* high.                                                                     *)

AtLeast(d, c) == d = c \/ claimSupersedes(d, c)

InFlight(c, r, q) == Has(chan[r][q], SwitchOwner(c))

Known(c) ==
  /\ c.sequence > 0
  /\ \/ \E p \in Peer : own[p].current = c
     \/ \E r, q \in Peer : InFlight(c, r, q)

Spread(c) ==
  /\ c.target \in Driver \cup Woken
  /\ c.sequence <= own[c.origin].clock
  /\ \A q \in Peer : InFlight(c, c.origin, q) \/ AtLeast(own[q].current, c)

(* With all links up nobody is offline, and nobody sends to himself. *)
Whole == links = AllLinks => \A p \in Peer : online[p] = Peer \ {p} /\ chan[p][p] = <<>>

ClaimsSpread ==
  links = AllLinks =>
    /\ \A c \in Claim : Known(c) => Spread(c)
    /\ \A c, d \in Claim : Known(c) /\ Known(d) /\ c.origin = d.origin /\ c.sequence = d.sequence
                              => c = d
    /\ \A c \in Claim : \A r, q \in Peer : InFlight(c, r, q) => c.origin = r /\ c.sequence > 0
    /\ \A p \in Peer : driving[p] => own[p].current.sequence > 0

LEMMA AtLeastOrder ==
  ASSUME NEW c \in Claim, NEW d \in Claim, NEW e \in Claim
  PROVE  /\ claimSupersedes(d, c) \/ AtLeast(c, d) \/ (c.origin = d.origin /\ c.sequence = d.sequence)
         /\ AtLeast(c, e) /\ claimSupersedes(d, c) => AtLeast(d, e)
         /\ AtLeast(c, d) /\ AtLeast(d, c) => c = d
         /\ AtLeast(c, d) => c.sequence >= d.sequence
<1>1. \A x \in Claim : x.sequence \in Nat /\ x.origin \in Nat
  BY PeerAssumption DEF Claim
<1>2. claimSupersedes(d, c) \/ claimSupersedes(c, d) \/ (c.origin = d.origin /\ c.sequence = d.sequence)
  BY <1>1 DEF claimSupersedes
<1>3. claimSupersedes(c, e) /\ claimSupersedes(d, c) => claimSupersedes(d, e)
  BY <1>1 DEF claimSupersedes
<1>4. ~(claimSupersedes(c, d) /\ claimSupersedes(d, c))
  BY <1>1 DEF claimSupersedes
<1>5. claimSupersedes(c, d) => c.sequence >= d.sequence
  BY <1>1 DEF claimSupersedes
<1>6. c = d => c.sequence >= d.sequence
  BY <1>1
<1> QED BY <1>2, <1>3, <1>4, <1>5, <1>6 DEF AtLeast

LEMMA ApplyIs ==
  ASSUME NEW st \in OwnState, NEW d \in Claim
  PROVE  /\ applyClaim(st, d).current = IF claimSupersedes(d, st.current) THEN d ELSE st.current
         /\ applyClaim(st, d).clock >= st.clock /\ applyClaim(st, d).clock >= d.sequence
         /\ st.current \in Claim /\ st.clock \in Nat
         /\ \A c \in Claim : AtLeast(st.current, c) => AtLeast(applyClaim(st, d).current, c)
<1>1. /\ applyClaim(st, d).current = IF claimSupersedes(d, st.current) THEN d ELSE st.current
      /\ applyClaim(st, d).clock = IF d.sequence > st.clock THEN d.sequence ELSE st.clock
  BY DEF applyClaim
<1>2. st.current \in Claim /\ st.clock \in Nat /\ d.sequence \in Nat
  BY DEF OwnState, Claim
<1>3. applyClaim(st, d).clock >= st.clock /\ applyClaim(st, d).clock >= d.sequence
  BY <1>1, <1>2
<1>4. \A c \in Claim : AtLeast(st.current, c) => AtLeast(applyClaim(st, d).current, c)
  BY <1>1, <1>2, AtLeastOrder
<1> QED BY <1>1, <1>2, <1>3, <1>4

(* Three kinds of step: the claims stay as they are, one arrives, one is made. *)
KeepsClaims ==
  /\ own' = own
  /\ \A c \in Claim : \A r, q \in Peer : InFlight(c, r, q)' <=> InFlight(c, r, q)

Adopts(p, q, c) ==
  /\ own' = [own EXCEPT ![p] = applyClaim(own[p], c)]
  /\ InFlight(c, q, p)
  /\ \A d \in Claim : \A r, s \in Peer :
       /\ InFlight(d, r, s)' => InFlight(d, r, s)
       /\ InFlight(d, r, s) => InFlight(d, r, s)' \/ (d = c /\ r = q /\ s = p)

Issues(p, t) ==
  LET c == SwitchClaim(p, own[p], t)
  IN  /\ t \in Driver \cup Woken
      /\ own' = [own EXCEPT ![p] = applyClaim(own[p], c)]
      /\ \A d \in Claim : \A r, s \in Peer :
           InFlight(d, r, s)' <=> InFlight(d, r, s) \/ (d = c /\ r = p /\ s # p)

(* A user starts to drive only by a claim of the machine's own. *)
Drives ==
  \A p \in Peer : driving'[p] => driving[p] \/ \E t \in Peer : Issues(p, t)

LEMMA MessageKinds ==
  /\ \A c, d : SwitchOwner(c) = SwitchOwner(d) <=> c = d
  /\ \A c, k, b : SwitchOwner(c) # KeyEvent(k, b)
  /\ \A k, b, l, e : KeyEvent(k, b) = KeyEvent(l, e) <=> k = l /\ b = e
<1>1. \A c : SwitchOwner(c).type = "SwitchOwner" /\ SwitchOwner(c).claim = c
  BY DEF SwitchOwner
<1>2. \A k, b : KeyEvent(k, b).type = "KeyEvent" /\ KeyEvent(k, b).key = k /\ KeyEvent(k, b).down = b
  BY DEF KeyEvent
<1> QED BY <1>1, <1>2

LEMMA MessageIs ==
  \A m \in Message : \/ m.type = "SwitchOwner" /\ m = SwitchOwner(m.claim)
                     \/ m.type = "KeyEvent" /\ m = KeyEvent(m.key, m.down)
BY DEF Message, SwitchOwner, KeyEvent

LEMMA ReleasesNoClaims ==
  ASSUME NEW p \in Peer, held[p] \in SUBSET Key, NEW c
  PROVE  ~Has(Releases(p), SwitchOwner(c))
<1>1. Has(Releases(p), SwitchOwner(c)) <=> \E k \in held[p] : SwitchOwner(c) = KeyEvent(k, FALSE)
  BY ReleasesHas
<1>2. \A k : SwitchOwner(c) # KeyEvent(k, FALSE)
  BY DEF SwitchOwner, KeyEvent
<1> QED BY <1>1, <1>2

(* Letting go says nothing of claims. *)
LEMMA SyncClaims ==
  ASSUME links = AllLinks, TypeOK, NEW p \in Peer, NEW isOwner, NEW drives, NEW ch \in Chans,
         SyncCapture(p, isOwner, drives, ch),
         NEW c, NEW r \in Peer, NEW q \in Peer
  PROVE  Has(chan'[r][q], SwitchOwner(c)) <=> Has(ch[r][q], SwitchOwner(c))
<1>1. held[p] \in SUBSET Key /\ ch[r][q] \in Seq(Message)
  BY DEF TypeOK, Chans
<1>2. Releases(p) \in Seq(Message) /\ ~Has(Releases(p), SwitchOwner(c))
  BY <1>1, ReleasesType, ReleasesNoClaims
<1>3. Has(ch[r][q] \o Releases(p), SwitchOwner(c)) <=> Has(ch[r][q], SwitchOwner(c))
  BY <1>1, <1>2, HasConcat
<1> QED BY <1>3, SyncIs

LEMMA HasSingle == \A x, m : Has(<<x>>, m) <=> m = x
<1> SUFFICES ASSUME NEW x, NEW m PROVE Has(<<x>>, m) <=> m = x
  OBVIOUS
<1> DEFINE s == <<x>>
<1>1. DOMAIN s = {1} /\ s[1] = x
  OBVIOUS
<1> HIDE DEF s
<1>2. Has(s, m) <=> m = x
  BY <1>1 DEF Has
<1> QED BY <1>2 DEF s

LEMMA BroadcastClaims ==
  ASSUME links = AllLinks, chan \in Chans, NEW p \in Peer, NEW m \in Message,
         NEW d, NEW r \in Peer, NEW q \in Peer
  PROVE  Has(Broadcast(chan, p, <<m>>)[r][q], d) <=> Has(chan[r][q], d) \/ (d = m /\ r = p /\ q # p)
<1>1. chan[r][q] \in Seq(Message) /\ <<m>> \in Seq(Message)
  BY SingletonType DEF Chans
<1>2. Has(chan[r][q] \o <<m>>, d) <=> Has(chan[r][q], d) \/ d = m
  BY <1>1, HasConcat, HasSingle
<1> QED BY <1>2, BroadcastIs
----------------------------------------------------------------------------
(* What a step does to the claims. *)

LEMMA StaysWhole ==
  ASSUME HandoffInv, Whole, [Next]_vars, links' = AllLinks
  PROVE  links = AllLinks /\ [StableNext]_vars
<1>0. links \in SUBSET AllLinks /\ own \in [Peer -> OwnState]
  BY DEF HandoffInv, TypeOK
<1>1. ASSUME NEW p \in Peer, NEW q \in Peer, LinkDown(p, q) PROVE FALSE
  BY <1>0, <1>1 DEF LinkDown
<1>2. links' = links
  BY <1>1 DEF Next, StableNext, vars, ControlPeer, StopDriving, Timer, TimerWoken, Touch,
              StartWake, RecvClaim, RecvKey, FailSafe, PeerOffline
<1>3. \A p \in Peer : online[p] = Peer \ {p}
  BY <1>2 DEF Whole
<1>4. ASSUME NEW p \in Peer, NEW q \in Peer, PeerOffline(p, q) PROVE FALSE
  BY <1>2, <1>3, <1>4, LinkBetween DEF PeerOffline
<1>5. ASSUME NEW p \in Peer, FailSafe(p) PROVE FALSE
  <2>1. Owner(p) \in Peer
    BY <1>0 DEF Owner, OwnState, Claim
  <2> QED BY <1>3, <1>5, <2>1 DEF FailSafe, Settled, IsLocalOwner
<1> QED BY <1>1, <1>2, <1>4, <1>5 DEF Next

(* The hooks are reconciled with what ch says of the messages. *)
LEMMA SyncKeepsClaims ==
  ASSUME links = AllLinks, HandoffInv, NEW p \in Peer, NEW isOwner, NEW drives, own' = own,
         SyncCapture(p, isOwner, drives, chan)
  PROVE  KeepsClaims
<1>1. TypeOK /\ chan \in Chans
  BY DEF HandoffInv, TypeOK, Chans
<1>2. \A c \in Claim : \A r, q \in Peer :
        Has(chan'[r][q], SwitchOwner(c)) <=> Has(chan[r][q], SwitchOwner(c))
  BY <1>1, SyncClaims
<1> QED BY <1>2 DEF KeepsClaims, InFlight

LEMMA SyncIssues ==
  ASSUME links = AllLinks, HandoffInv, NEW p \in Peer, NEW t \in Peer, t \in Driver \cup Woken,
         NEW isOwner, NEW drives,
         own' = [own EXCEPT ![p] = applyClaim(own[p], SwitchClaim(p, own[p], t))],
         SyncCapture(p, isOwner, drives,
                     Broadcast(chan, p, <<SwitchOwner(SwitchClaim(p, own[p], t))>>))
  PROVE  Issues(p, t)
<1> DEFINE c == SwitchClaim(p, own[p], t)
           ch == Broadcast(chan, p, <<SwitchOwner(c)>>)
<1>1. TypeOK /\ chan \in Chans /\ own[p] \in OwnState
  BY DEF HandoffInv, TypeOK, Chans
<1>2. c \in Claim
  BY <1>1, SwitchClaimType
<1> HIDE DEF c
<1>3. SwitchOwner(c) \in Message
  BY <1>2, MessageTypes
<1>4. ch \in Chans
  BY <1>1, <1>3, SingletonType, BroadcastType
<1>5. ASSUME NEW d \in Claim, NEW r \in Peer, NEW s \in Peer
      PROVE  InFlight(d, r, s)' <=> InFlight(d, r, s) \/ (d = c /\ r = p /\ s # p)
  <2>1. Has(ch[r][s], SwitchOwner(d)) <=> Has(chan[r][s], SwitchOwner(d)) \/ (d = c /\ r = p /\ s # p)
    BY <1>1, <1>3, BroadcastClaims, MessageKinds
  <2>2. SyncCapture(p, isOwner, drives, ch)
    BY DEF c
  <2> HIDE DEF ch
  <2>3. Has(chan'[r][s], SwitchOwner(d)) <=> Has(ch[r][s], SwitchOwner(d))
    BY <1>1, <1>4, <2>2, SyncClaims
  <2> QED BY <2>1, <2>3 DEF InFlight
<1> QED BY <1>5 DEF Issues, c

LEMMA SyncDrives ==
  ASSUME NEW p \in Peer, NEW isOwner, NEW drives, NEW ch,
         SyncCapture(p, isOwner, drives, ch), driving \in [Peer -> BOOLEAN]
  PROVE  \A q \in Peer : driving'[q] => (q = p /\ drives) \/ driving[q]
BY DEF SyncCapture

LEMMA RecvClaims ==
  ASSUME HandoffInv, NEW p \in Peer, NEW q \in Peer, chan[q][p] # <<>>,
         NEW d, NEW r \in Peer, NEW s \in Peer
  PROVE  /\ Has(Received(q, p)[r][s], d) => Has(chan[r][s], d)
         /\ Has(chan[r][s], d) =>
              Has(Received(q, p)[r][s], d) \/ (d = Head(chan[q][p]) /\ r = q /\ s = p)
         /\ Has(chan[q][p], Head(chan[q][p]))
<1>1. chan \in Chans /\ chan[q][p] \in Seq(Message)
  BY DEF HandoffInv, TypeOK, Chans
<1>2. /\ Has(chan[q][p], d) <=> Head(chan[q][p]) = d \/ Has(Tail(chan[q][p]), d)
      /\ Has(chan[q][p], Head(chan[q][p]))
  BY <1>1, HasTail
<1>3. Received(q, p)[r][s] = IF r = q /\ s = p THEN Tail(chan[r][s]) ELSE chan[r][s]
  BY <1>1, ReceivedIs
<1> QED BY <1>2, <1>3

LEMMA ClaimKinds ==
  ASSUME HandoffInv, links = AllLinks, [StableNext]_vars
  PROVE  /\ Drives
         /\ \/ KeepsClaims
            \/ \E p, q \in Peer : \E c \in Claim : Adopts(p, q, c)
            \/ \E p, t \in Peer : Issues(p, t)
<1>1. /\ TypeOK /\ chan \in Chans /\ own \in [Peer -> OwnState]
      /\ driving \in [Peer -> BOOLEAN] /\ Driver \subseteq Peer /\ Woken \subseteq Peer
  BY HandoffAssumption DEF HandoffInv, TypeOK, Chans
<1>2. CASE UNCHANGED vars
  BY <1>2 DEF vars, Drives, KeepsClaims, InFlight
<1>3. ASSUME NEW p \in Peer, ControlPeer(p) PROVE Drives /\ Issues(p, p)
  <2>1. Issues(p, p)
    BY <1>3, SyncIssues DEF ControlPeer
  <2>2. \A q \in Peer : driving'[q] => q = p \/ driving[q]
    BY <1>1, <1>3, SyncDrives DEF ControlPeer
  <2> QED BY <2>1, <2>2 DEF Drives
<1>4. ASSUME NEW p \in Peer, StopDriving(p) PROVE Drives /\ KeepsClaims
  <2>1. own' = own /\ SyncCapture(p, IsLocalOwner(p), FALSE, chan)
    BY <1>4 DEF StopDriving
  <2> QED BY <1>1, <2>1, SyncKeepsClaims, SyncDrives DEF Drives
<1>5. ASSUME NEW p \in Peer, Timer(p) PROVE Drives /\ KeepsClaims
  <2>1. own' = own /\ SyncCapture(p, IsLocalOwner(p), driving[p] /\ online[p] # {}, chan)
    BY <1>5 DEF Timer
  <2> QED BY <1>1, <2>1, SyncKeepsClaims, SyncDrives DEF Drives
<1>6. ASSUME NEW p \in Peer, TimerWoken(p) PROVE Drives /\ \E t \in Peer : Issues(p, t)
  <2>1. waking[p] \in Woken
    <3>1. waking[p] \in Woken \cup {Nobody} /\ waking[p] \in Peer
      BY <1>1, <1>6 DEF TimerWoken, TypeOK
    <3> QED BY <3>1, HandoffAssumption
  <2>2. Issues(p, waking[p])
    BY <1>1, <1>6, <2>1, SyncIssues DEF TimerWoken
  <2>3. SyncCapture(p, FALSE, driving[p],
                    Broadcast(chan, p, <<SwitchOwner(SwitchClaim(p, own[p], waking[p]))>>))
    BY <1>6 DEF TimerWoken
  <2> QED BY <1>1, <2>1, <2>2, <2>3, SyncDrives DEF Drives
<1>7. ASSUME NEW p \in Peer, NEW k \in Key, NEW isDown \in BOOLEAN, Touch(p, k, isDown)
      PROVE  Drives /\ KeepsClaims
  <2>1. own' = own /\ driving' = driving
    BY <1>7 DEF Touch
  <2>2. CASE chan' = chan
    BY <2>1, <2>2 DEF Drives, KeepsClaims, InFlight
  <2>3. CASE chan' = Broadcast(chan, p, <<KeyEvent(k, isDown)>>)
    <3>1. \A c : \A r, s \in Peer :
            Has(chan'[r][s], SwitchOwner(c)) <=> Has(chan[r][s], SwitchOwner(c))
      BY <1>1, <2>3, BroadcastClaims, MessageTypes, MessageKinds
    <3> QED BY <2>1, <3>1 DEF Drives, KeepsClaims, InFlight
  <2>4. chan' = chan \/ chan' = Broadcast(chan, p, <<KeyEvent(k, isDown)>>)
    BY <1>7 DEF Touch, Forward
  <2> QED BY <2>2, <2>3, <2>4
<1>8. ASSUME NEW p \in Peer, NEW q, StartWake(p, q) PROVE Drives /\ KeepsClaims
  BY <1>8 DEF StartWake, Drives, KeepsClaims, InFlight
<1>9. ASSUME NEW p \in Peer, NEW q \in Peer, RecvKey(p, q) PROVE Drives /\ KeepsClaims
  <2>1. chan[q][p] # <<>> /\ chan' = Received(q, p) /\ own' = own /\ driving' = driving
    BY <1>9 DEF RecvKey
  <2>2. Head(chan[q][p]).type = "KeyEvent" /\ Head(chan[q][p]) \in Message
    BY <1>9, <2>1, ReceivedType DEF RecvKey
  <2>3. \A c : SwitchOwner(c) # Head(chan[q][p])
    BY <2>2 DEF SwitchOwner
  <2>4. \A c : \A r, s \in Peer : InFlight(c, r, s)' <=> InFlight(c, r, s)
    BY <2>1, <2>3, RecvClaims DEF InFlight
  <2> QED BY <2>1, <2>4 DEF Drives, KeepsClaims
<1>10. ASSUME NEW p \in Peer, NEW q \in Peer, RecvClaim(p, q)
       PROVE  Drives /\ \E c \in Claim : Adopts(p, q, c)
  <2> DEFINE m == Head(chan[q][p])
             c == m.claim
  <2>1. /\ chan[q][p] # <<>> /\ m.type = "SwitchOwner" /\ m \in Message
        /\ Own(p, c, Received(q, p)) /\ Received(q, p) \in Chans
    BY <1>10, ReceivedType DEF RecvClaim
  <2>2. c \in Claim /\ m = SwitchOwner(c)
    BY <2>1, MessageTypes, MessageIs
  <2>3. own' = [own EXCEPT ![p] = applyClaim(own[p], c)]
    BY <2>1 DEF Own
  <2>4. ASSUME NEW d, NEW r \in Peer, NEW s \in Peer
        PROVE  InFlight(d, r, s)' <=> Has(Received(q, p)[r][s], SwitchOwner(d))
    <3>1. CASE applyClaim(own[p], c).current.target # Owner(p)
      <4>1. SyncCapture(p, applyClaim(own[p], c).current.target = p, driving[p], Received(q, p))
        BY <2>1, <3>1 DEF Own
      <4> QED BY <1>1, <2>1, <4>1, SyncClaims DEF InFlight
    <3>2. CASE applyClaim(own[p], c).current.target = Owner(p)
      <4>1. chan' = Received(q, p)
        BY <2>1, <3>2 DEF Own
      <4> QED BY <4>1 DEF InFlight
    <3> QED BY <3>1, <3>2
  <2>5. Adopts(p, q, c)
    <3>0. ASSUME NEW x, NEW r \in Peer, NEW s \in Peer
          PROVE  /\ Has(Received(q, p)[r][s], x) => Has(chan[r][s], x)
                 /\ Has(chan[r][s], x) =>
                      Has(Received(q, p)[r][s], x) \/ (x = Head(chan[q][p]) /\ r = q /\ s = p)
      <4>1. chan[q][p] # <<>>
        BY <2>1
      <4> HIDE DEF m, c
      <4> QED BY <4>1, RecvClaims, SMTT(30)
    <3>1. InFlight(c, q, p)
      BY <2>1, <2>2, RecvClaims DEF InFlight
    <3>2. \A d \in Claim : \A r, s \in Peer :
            /\ InFlight(d, r, s)' => InFlight(d, r, s)
            /\ InFlight(d, r, s) => InFlight(d, r, s)' \/ (d = c /\ r = q /\ s = p)
      <4> SUFFICES ASSUME NEW d \in Claim, NEW r \in Peer, NEW s \in Peer
                   PROVE  /\ InFlight(d, r, s)' => InFlight(d, r, s)
                          /\ InFlight(d, r, s) => InFlight(d, r, s)' \/ (d = c /\ r = q /\ s = p)
        OBVIOUS
      <4>1. SwitchOwner(d) = m <=> d = c
        BY <2>2, MessageKinds
      <4> DEFINE x == SwitchOwner(d)
      <4> HIDE DEF x
      <4>2. /\ Has(Received(q, p)[r][s], x) => Has(chan[r][s], x)
            /\ Has(chan[r][s], x) => Has(Received(q, p)[r][s], x) \/ (x = m /\ r = q /\ s = p)
        BY <3>0
      <4>3. InFlight(d, r, s) <=> Has(chan[r][s], SwitchOwner(d))
        BY DEF InFlight
      <4> HIDE DEF m, c
      <4> QED BY <2>4, <4>1, <4>2, <4>3 DEF x
    <3> QED BY <2>3, <3>1, <3>2 DEF Adopts
  <2>6. Drives
    BY <1>1, <2>1, SyncDrives DEF Own, Drives
  <2> QED BY <2>2, <2>5, <2>6
<1> QED BY <1>2, <1>3, <1>4, <1>5, <1>6, <1>7, <1>8, <1>9, <1>10 DEF StableNext

LEMMA WholeInit == Init => Whole
<1> SUFFICES ASSUME Init, NEW p \in Peer PROVE online[p] = Peer \ {p} /\ chan[p][p] = <<>>
  BY DEF Whole
<1>1. online = [x \in Peer |-> Peer \ {x}] /\ chan = [x \in Peer |-> [q \in Peer |-> <<>>]]
  BY DEF Init
<1> QED BY <1>1

LEMMA WholeNext == HandoffInv /\ Whole /\ [Next]_vars => Whole'
<1> SUFFICES ASSUME HandoffInv, Whole, [Next]_vars, links' = AllLinks
             PROVE  \A x \in Peer : online'[x] = Peer \ {x} /\ chan'[x][x] = <<>>
  BY DEF Whole, AllLinks
<1>1. links = AllLinks /\ [StableNext]_vars
  BY StaysWhole
<1>2. \A x \in Peer : online[x] = Peer \ {x} /\ chan[x][x] = <<>>
  BY <1>1 DEF Whole
<1>3. online' = online
  BY <1>1 DEF vars, StableNext, ControlPeer, StopDriving, Timer, TimerWoken, Touch, StartWake,
              RecvClaim, RecvKey
<1>4. TypeOK /\ chan \in Chans /\ own \in [Peer -> OwnState]
  BY DEF HandoffInv, TypeOK, Chans
<1> DEFINE OwnRow(ch) == \A x \in Peer : ch[x][x] = <<>>
<1>5. ASSUME NEW p \in Peer, NEW m \in Message
      PROVE  OwnRow(Broadcast(chan, p, <<m>>)) /\ Broadcast(chan, p, <<m>>) \in Chans
  <2>1. <<m>> \in Seq(Message)
    BY SingletonType
  <2>2. Broadcast(chan, p, <<m>>) \in Chans
    BY <1>4, <2>1, BroadcastType
  <2>3. \A x \in Peer : Broadcast(chan, p, <<m>>)[x][x] = chan[x][x]
    BY <1>1, <1>4, BroadcastIs
  <2> QED BY <1>2, <2>2, <2>3
<1>6. ASSUME NEW p \in Peer, NEW a, NEW b, NEW ch \in Chans, OwnRow(ch), SyncCapture(p, a, b, ch)
      PROVE  OwnRow(chan')
  BY <1>1, <1>6, SyncIs
<1>7. ASSUME NEW p \in Peer, NEW q \in Peer, chan[q][p] # <<>>
      PROVE  OwnRow(Received(q, p)) /\ Received(q, p) \in Chans
  <2>1. q # p
    BY <1>2, <1>7
  <2>2. OwnRow(Received(q, p))
    BY <1>2, <1>4, <2>1, ReceivedIs
  <2> QED BY <1>7, <2>2, ReceivedType
<1>8. OwnRow(chan)
  BY <1>2
<1>9. \A p, t \in Peer : SwitchOwner(SwitchClaim(p, own[p], t)) \in Message
  BY <1>4, SwitchClaimType, MessageTypes
<1> HIDE DEF OwnRow
<1>10. ASSUME NEW p \in Peer, ControlPeer(p) \/ StopDriving(p) \/ Timer(p) \/ TimerWoken(p)
       PROVE  OwnRow(chan')
  <2>1. CASE ControlPeer(p)
    BY <1>5, <1>6, <1>9, <2>1 DEF ControlPeer
  <2>2. CASE StopDriving(p)
    BY <1>4, <1>6, <1>8, <2>2 DEF StopDriving
  <2>3. CASE Timer(p)
    BY <1>4, <1>6, <1>8, <2>3 DEF Timer
  <2>4. CASE TimerWoken(p)
    <3>1. waking[p] \in Peer
      BY <1>4, <2>4 DEF TimerWoken, TypeOK
    <3> QED BY <1>5, <1>6, <1>9, <2>4, <3>1 DEF TimerWoken
  <2> QED BY <1>10, <2>1, <2>2, <2>3, <2>4
<1>11. ASSUME NEW p \in Peer, NEW k \in Key, NEW isDown \in BOOLEAN, Touch(p, k, isDown)
       PROVE  OwnRow(chan')
  BY <1>5, <1>8, <1>11, MessageTypes DEF Touch, Forward
<1>12. ASSUME NEW p \in Peer, NEW q \in Peer, RecvClaim(p, q) \/ RecvKey(p, q)
       PROVE  OwnRow(chan')
  <2>1. CASE RecvKey(p, q)
    BY <1>7, <2>1 DEF RecvKey
  <2>2. CASE RecvClaim(p, q)
    BY <1>6, <1>7, <2>2 DEF RecvClaim, Own
  <2> QED BY <1>12, <2>1, <2>2
<1>13. OwnRow(chan')
  <2>1. ASSUME NEW p \in Peer, NEW q \in Peer, StartWake(p, q) PROVE OwnRow(chan')
    BY <1>8, <2>1 DEF StartWake
  <2>2. CASE UNCHANGED vars
    BY <1>8, <2>2 DEF vars
  <2> QED BY <1>1, <1>10, <1>11, <1>12, <2>1, <2>2 DEF StableNext
<1> QED BY <1>2, <1>3, <1>13 DEF OwnRow
----------------------------------------------------------------------------
LEMMA ClaimsInit == Init => ClaimsSpread
<1> SUFFICES ASSUME Init PROVE ClaimsSpread
  OBVIOUS
<1>1. /\ \A p \in Peer : own[p].current.sequence = 0
      /\ \A p \in Peer : ~driving[p]
      /\ \A r, q \in Peer : chan[r][q] = <<>>
  BY DEF Init, BootState, BootClaim
<1>2. \A c : ~Has(<<>>, c)
  BY DEF Has
<1>3. \A c : \A r, q \in Peer : ~InFlight(c, r, q)
  BY <1>1, <1>2 DEF InFlight
<1>4. \A c \in Claim : ~Known(c)
  <2> SUFFICES ASSUME NEW c \in Claim, Known(c) PROVE FALSE
    OBVIOUS
  <2>1. PICK p \in Peer : own[p].current = c
    BY <1>3 DEF Known
  <2> QED BY <1>1, <2>1 DEF Known
<1> QED BY <1>1, <1>3, <1>4 DEF ClaimsSpread

(* The machine's own claim is above all it holds. *)
LEMMA IssueIs ==
  ASSUME HandoffInv, NEW p \in Peer, NEW t \in Peer, Issues(p, t)
  PROVE  LET c == SwitchClaim(p, own[p], t)
         IN  /\ c \in Claim /\ c.origin = p /\ c.target = t
             /\ c.sequence = own[p].clock + 1 /\ c.sequence > 0
             /\ own'[p].current = c /\ c.sequence <= own'[p].clock
             /\ own' = [own EXCEPT ![p] = applyClaim(own[p], c)]
<1> DEFINE c == SwitchClaim(p, own[p], t)
<1>1. own \in [Peer -> OwnState] /\ own[p] \in OwnState /\ own[p].current.sequence <= own[p].clock
  BY DEF HandoffInv, TypeOK, ClockKeepsUp
<1>2. c \in Claim
  BY <1>1, SwitchClaimType
<1>3. c.origin = p /\ c.target = t /\ c.sequence = own[p].clock + 1
  BY DEF SwitchClaim
<1>4. own[p].clock \in Nat /\ own[p].current.sequence \in Nat
  BY <1>1 DEF OwnState, Claim
<1>5. own' = [own EXCEPT ![p] = applyClaim(own[p], c)]
  BY DEF Issues
<1> HIDE DEF c
<1>6. claimSupersedes(c, own[p].current)
  BY <1>1, <1>3, <1>4 DEF claimSupersedes
<1>7. own'[p] = applyClaim(own[p], c)
  BY <1>1, <1>5
<1>8. own'[p].current = c /\ own'[p].clock >= c.sequence
  BY <1>1, <1>2, <1>6, <1>7, ApplyIs
<1>9. c.sequence > 0 /\ c.sequence <= own'[p].clock
  <2>1. own'[p].clock \in Nat
    BY <1>1, <1>2, <1>7, ApplyClaimType DEF OwnState
  <2> QED BY <1>3, <1>4, <1>8, <2>1
<1> QED BY <1>2, <1>3, <1>5, <1>8, <1>9 DEF c

LEMMA ClaimsGrow ==
  ASSUME HandoffInv, HandoffInv', NEW p \in Peer, NEW c \in Claim,
         own' = [own EXCEPT ![p] = applyClaim(own[p], c)]
  PROVE  /\ \A q \in Peer : \A d \in Claim :
              AtLeast(own[q].current, d) => AtLeast(own'[q].current, d)
         /\ \A q \in Peer : own[q].clock <= own'[q].clock /\ own[q].clock \in Nat /\ own'[q].clock \in Nat
         /\ \A q \in Peer : own'[q].current = own[q].current \/ (q = p /\ own'[q].current = c)
<1> SUFFICES ASSUME NEW q \in Peer
             PROVE  /\ \A d \in Claim : AtLeast(own[q].current, d) => AtLeast(own'[q].current, d)
                    /\ own[q].clock <= own'[q].clock /\ own[q].clock \in Nat /\ own'[q].clock \in Nat
                    /\ own'[q].current = own[q].current \/ (q = p /\ own'[q].current = c)
  OBVIOUS
<1>1. own \in [Peer -> OwnState] /\ own[q] \in OwnState /\ own[q].clock \in Nat
      /\ own'[q] \in OwnState /\ own'[q].clock \in Nat
  BY DEF HandoffInv, TypeOK, OwnState
<1>2. CASE q = p
  <2>1. own'[q] = applyClaim(own[q], c)
    BY <1>1, <1>2
  <2>2. /\ \A d \in Claim : AtLeast(own[q].current, d) => AtLeast(own'[q].current, d)
        /\ own'[q].clock >= own[q].clock
        /\ own'[q].current = own[q].current \/ own'[q].current = c
    BY <1>1, <2>1, ApplyIs
  <2> QED BY <1>1, <1>2, <2>2
<1>3. CASE q # p
  <2>1. own'[q] = own[q]
    BY <1>1, <1>3
  <2> QED BY <1>1, <2>1
<1> QED BY <1>2, <1>3

LEMMA ClaimsNext == HandoffInv /\ HandoffInv' /\ Whole /\ ClaimsSpread /\ [Next]_vars => ClaimsSpread'
<1> SUFFICES ASSUME HandoffInv, HandoffInv', Whole, ClaimsSpread, [Next]_vars, links' = AllLinks
             PROVE  ClaimsSpread'
  BY DEF ClaimsSpread, AllLinks
<1>1. links = AllLinks /\ [StableNext]_vars
  BY StaysWhole
<1>2. /\ \A c \in Claim : Known(c) => Spread(c)
      /\ \A c, d \in Claim :
           Known(c) /\ Known(d) /\ c.origin = d.origin /\ c.sequence = d.sequence => c = d
      /\ \A c \in Claim : \A r, q \in Peer : InFlight(c, r, q) => c.origin = r /\ c.sequence > 0
      /\ \A p \in Peer : driving[p] => own[p].current.sequence > 0
  BY <1>1 DEF ClaimsSpread
<1>3. /\ own \in [Peer -> OwnState] /\ own' \in [Peer -> OwnState]
      /\ \A q \in Peer : own[q].current \in Claim /\ own'[q].current \in Claim
      /\ \A c \in Claim : c.origin \in Peer /\ c.sequence \in Nat
  BY DEF HandoffInv, TypeOK, OwnState, Claim
<1>4. /\ Drives
      /\ \/ KeepsClaims
         \/ \E p, q \in Peer : \E c \in Claim : Adopts(p, q, c)
         \/ \E p, t \in Peer : Issues(p, t)
  BY <1>1, ClaimKinds
<1> DEFINE Grows ==
             /\ \A q \in Peer : \A d \in Claim :
                  AtLeast(own[q].current, d) => AtLeast(own'[q].current, d)
             /\ \A q \in Peer : own[q].clock <= own'[q].clock
                                /\ own[q].clock \in Nat /\ own'[q].clock \in Nat
           Claims == /\ \A c \in Claim : Known(c)' => Spread(c)'
                     /\ \A c, d \in Claim :
                          Known(c)' /\ Known(d)' /\ c.origin = d.origin /\ c.sequence = d.sequence
                            => c = d
                     /\ \A c \in Claim : \A r, q \in Peer :
                          InFlight(c, r, q)' => c.origin = r /\ c.sequence > 0
(* What is known before stays true of it. *)
<1>5. ASSUME Grows, NEW d \in Claim, Spread(d),
             \A s \in Peer : InFlight(d, d.origin, s) =>
               InFlight(d, d.origin, s)' \/ AtLeast(own'[s].current, d)
      PROVE  Spread(d)'
  <2>1. d.sequence <= own'[d.origin].clock
    <3>1. d.origin \in Peer /\ d.sequence \in Nat /\ d.sequence <= own[d.origin].clock
      BY <1>3, <1>5 DEF Spread
    <3>2. own[d.origin].clock <= own'[d.origin].clock
          /\ own[d.origin].clock \in Nat /\ own'[d.origin].clock \in Nat
      BY <1>5, <3>1
    <3> QED BY <3>1, <3>2
  <2> QED BY <1>5, <2>1 DEF Spread
<1>6. ASSUME KeepsClaims PROVE Grows /\ Claims
  <2>1. own' = own /\ \A c \in Claim : \A r, q \in Peer : InFlight(c, r, q)' <=> InFlight(c, r, q)
    BY <1>6 DEF KeepsClaims
  <2>2. Grows
    <3>1. \A q \in Peer : own[q].clock \in Nat
      BY <1>3 DEF OwnState
    <3> QED BY <2>1, <3>1
  <2>3. \A c \in Claim : Known(c)' => Known(c)
    BY <2>1 DEF Known
  <2>4. ASSUME NEW c \in Claim, Known(c)' PROVE Spread(c)'
    BY <1>2, <1>3, <1>5, <2>1, <2>2, <2>3, <2>4
  <2> QED BY <1>2, <2>1, <2>2, <2>3, <2>4
<1>7. ASSUME NEW p \in Peer, NEW q \in Peer, NEW c \in Claim, Adopts(p, q, c)
      PROVE  Grows /\ Claims
  <2>1. /\ own' = [own EXCEPT ![p] = applyClaim(own[p], c)]
        /\ InFlight(c, q, p)
        /\ \A d \in Claim : \A r, s \in Peer :
             /\ InFlight(d, r, s)' => InFlight(d, r, s)
             /\ InFlight(d, r, s) => InFlight(d, r, s)' \/ (d = c /\ r = q /\ s = p)
    BY <1>7 DEF Adopts
  <2>2. Grows /\ \A s \in Peer : own'[s].current = own[s].current \/ own'[s].current = c
    <3>1. own' = [own EXCEPT ![p] = applyClaim(own[p], c)]
      BY <2>1
    <3>2. /\ \A s \in Peer : \A d \in Claim :
               AtLeast(own[s].current, d) => AtLeast(own'[s].current, d)
          /\ \A s \in Peer : own[s].clock <= own'[s].clock /\ own[s].clock \in Nat /\ own'[s].clock \in Nat
          /\ \A s \in Peer : own'[s].current = own[s].current \/ (s = p /\ own'[s].current = c)
      BY <3>1, ClaimsGrow
    <3> QED BY <3>2
  <2>3. Known(c)
    BY <1>2, <2>1 DEF Known
  <2>4. \A d \in Claim : Known(d)' => Known(d)
    BY <2>1, <2>2, <2>3 DEF Known
  <2>5. AtLeast(own'[p].current, c)
    <3>1. own'[p] = applyClaim(own[p], c) /\ own[p] \in OwnState
      BY <1>3, <2>1
    <3>2. CASE claimSupersedes(c, own[p].current)
      BY <3>1, <3>2, ApplyIs DEF AtLeast
    <3>3. CASE AtLeast(own[p].current, c)
      BY <2>2, <3>3
    <3>4. CASE own[p].current.origin = c.origin /\ own[p].current.sequence = c.sequence
      <4>1. Known(own[p].current)
        BY <2>3, <3>4 DEF Known
      <4>2. own[p].current = c
        BY <1>2, <1>3, <2>3, <3>4, <4>1
      <4> QED BY <3>3, <4>2 DEF AtLeast
    <3> QED BY <1>3, <3>2, <3>3, <3>4, AtLeastOrder
  <2>6. ASSUME NEW d \in Claim, Known(d)' PROVE Spread(d)'
    <3>1. Spread(d)
      BY <1>2, <2>4, <2>6
    <3>2. \A s \in Peer : InFlight(d, d.origin, s) =>
            InFlight(d, d.origin, s)' \/ AtLeast(own'[s].current, d)
      BY <1>3, <2>1, <2>5
    <3> QED BY <1>5, <2>2, <3>1, <3>2
  <2> QED BY <1>2, <2>1, <2>2, <2>4, <2>6
<1>8. ASSUME NEW p \in Peer, NEW t \in Peer, Issues(p, t) PROVE Grows /\ Claims
  <2>1. PICK c \in Claim :
          /\ c = SwitchClaim(p, own[p], t) /\ c.origin = p /\ c.target = t
          /\ c.sequence = own[p].clock + 1 /\ c.sequence > 0
          /\ own'[p].current = c /\ c.sequence <= own'[p].clock
          /\ own' = [own EXCEPT ![p] = applyClaim(own[p], c)]
    BY <1>8, IssueIs
  <2>2. /\ t \in Driver \cup Woken
        /\ \A d \in Claim : \A r, s \in Peer :
             InFlight(d, r, s)' <=> InFlight(d, r, s) \/ (d = c /\ r = p /\ s # p)
    BY <1>8, <2>1 DEF Issues
  <2>3. Grows /\ \A s \in Peer : own'[s].current = own[s].current \/ own'[s].current = c
    <3>1. own' = [own EXCEPT ![p] = applyClaim(own[p], c)]
      BY <2>1
    <3>2. /\ \A s \in Peer : \A d \in Claim :
               AtLeast(own[s].current, d) => AtLeast(own'[s].current, d)
          /\ \A s \in Peer : own[s].clock <= own'[s].clock /\ own[s].clock \in Nat /\ own'[s].clock \in Nat
          /\ \A s \in Peer : own'[s].current = own[s].current \/ (s = p /\ own'[s].current = c)
      BY <3>1, ClaimsGrow
    <3> QED BY <3>2
  <2>4. \A d \in Claim : Known(d)' => Known(d) \/ d = c
    BY <2>2, <2>3 DEF Known
  <2>5. Spread(c)'
    <3>1. \A s \in Peer : InFlight(c, c.origin, s)' \/ AtLeast(own'[s].current, c)
      BY <2>1, <2>2 DEF AtLeast
    <3> QED BY <2>1, <2>2, <3>1 DEF Spread
  <2>6. \A d \in Claim : Known(d)' => Spread(d)'
    <3> SUFFICES ASSUME NEW d \in Claim, Known(d)', d # c PROVE Spread(d)'
      BY <2>5
    <3>1. Spread(d)
      BY <1>2, <2>4
    <3> QED BY <1>3, <1>5, <2>2, <2>3, <3>1
  <2>7. ASSUME NEW d \in Claim, Known(d) PROVE ~(d.origin = c.origin /\ d.sequence = c.sequence)
    <3>1. Spread(d) /\ own[p].clock \in Nat /\ d.sequence \in Nat
      BY <1>2, <1>3, <2>3, <2>7
    <3> QED BY <2>1, <3>1 DEF Spread
  <2>8. \A d, e \in Claim :
          Known(d)' /\ Known(e)' /\ d.origin = e.origin /\ d.sequence = e.sequence => d = e
    BY <1>2, <2>4, <2>7
  <2>9. \A d \in Claim : \A r, s \in Peer : InFlight(d, r, s)' => d.origin = r /\ d.sequence > 0
    BY <1>2, <2>1, <2>2
  <2> QED BY <2>3, <2>6, <2>8, <2>9
<1>9. Grows /\ Claims
  <2>1. CASE KeepsClaims
    BY <1>6, <2>1
  <2> QED BY <1>4, <1>7, <1>8, <2>1
<1>10. \A p \in Peer : driving'[p] => own'[p].current.sequence > 0
  <2> SUFFICES ASSUME NEW p \in Peer, driving'[p] PROVE own'[p].current.sequence > 0
    OBVIOUS
  <2>1. CASE driving[p]
    <3>1. own[p].current.sequence > 0 /\ AtLeast(own'[p].current, own[p].current)
      BY <1>2, <1>3, <1>9, <2>1 DEF AtLeast
    <3>2. own'[p].current.sequence >= own[p].current.sequence
      BY <1>3, <3>1, AtLeastOrder
    <3> QED BY <1>3, <3>1, <3>2
  <2>2. ASSUME NEW t \in Peer, Issues(p, t) PROVE own'[p].current.sequence > 0
    BY <2>2, IssueIs
  <2> QED BY <1>4, <2>1, <2>2 DEF Drives
<1> QED BY <1>9, <1>10 DEF ClaimsSpread

(* With all links up and every message arrived, at most one machine captures:
   whatever the users of the machines do at the same time, the claims end in
   the same owner everywhere, and only the owner keeps its hooks. *)
THEOREM OneOwnerWhenQuiet == Spec => []OneCapturesWhenQuiet
<1>1. ASSUME HandoffInv, ClaimsSpread PROVE OneCapturesWhenQuiet
  <2> SUFFICES ASSUME Quiet, links = AllLinks, NEW p \in Peer, NEW q \in Peer,
                      capturing[p], capturing[q]
               PROVE  p = q
    BY DEF OneCapturesWhenQuiet
  <2>1. /\ driving[p] /\ own[p].current.target = p /\ driving[q] /\ own[q].current.target = q
        /\ own[p].current \in Claim /\ own[q].current \in Claim
    BY <1>1 DEF HandoffInv, SwallowsOnlyAsOwner, IsLocalOwner, Owner, TypeOK, OwnState
  <2>2. Spread(own[p].current) /\ Spread(own[q].current)
    BY <1>1, <2>1 DEF ClaimsSpread, Known
  <2>3. \A c : \A r, s \in Peer : ~InFlight(c, r, s)
    BY DEF Quiet, InFlight, Has
  <2>4. own[p].current.origin \in Peer /\ own[q].current.origin \in Peer
    BY <2>1 DEF Claim
  <2>5. AtLeast(own[q].current, own[p].current) /\ AtLeast(own[p].current, own[q].current)
    BY <2>2, <2>3, <2>4 DEF Spread
  <2>6. own[p].current = own[q].current
    BY <2>1, <2>5, AtLeastOrder
  <2> QED BY <2>1, <2>6
<1> QED BY <1>1, InitInv, StepInv, WholeInit, WholeNext, ClaimsInit, ClaimsNext, PTL DEF Spec
----------------------------------------------------------------------------
(* Keys are released.  A machine whose last word on a key is that it is down *)
(* has it on record; and a key that was injected at a listener is on record  *)
(* somewhere, or its release is on the way.                                  *)

Listener == Peer \ (Driver \cup Woken)

KeysOn(ch, h, inj) ==
  /\ \A p, q \in Peer : \A k \in Key : EndsDown(ch[q][p], k) => k \in h[q]
  /\ \A p \in Listener : \A k \in inj[p] :
       \E q \in Peer \ {p} : k \in h[q] \/ Has(ch[q][p], KeyEvent(k, FALSE))

(* A listener at which something was injected is owned by another machine. *)
ListenersOwned == \A p \in Listener : IsLocalOwner(p) => injected[p] = {}

KeysTracked == links = AllLinks => KeysOn(chan, held, injected) /\ ListenersOwned

LEMMA KeyMessages ==
  /\ \A c, k : KeyEvent(k, FALSE) # SwitchOwner(c)
  /\ \A c, k : KeyEvent(k, TRUE) # SwitchOwner(c)
  /\ \A k, l : KeyEvent(k, FALSE) = KeyEvent(l, FALSE) => k = l
  /\ \A k, l : KeyEvent(k, TRUE) = KeyEvent(l, TRUE) => k = l
  /\ \A k, l : KeyEvent(k, TRUE) # KeyEvent(l, FALSE)
<1>1. /\ \A c, k : KeyEvent(k, FALSE) # SwitchOwner(c)
      /\ \A c, k : KeyEvent(k, TRUE) # SwitchOwner(c)
  BY DEF SwitchOwner, KeyEvent
<1>2. /\ \A k, l : KeyEvent(k, FALSE) = KeyEvent(l, FALSE) => k = l
      /\ \A k, l : KeyEvent(k, TRUE) = KeyEvent(l, TRUE) => k = l
      /\ \A k, l : KeyEvent(k, TRUE) # KeyEvent(l, FALSE)
  BY DEF KeyEvent
<1> QED BY <1>1, <1>2

LEMMA EndsHas == ASSUME NEW s, NEW k, EndsDown(s, k) PROVE Has(s, KeyEvent(k, TRUE))
BY DEF EndsDown, Has

(* A claim on a wire changes nothing for the keys. *)
LEMMA KeysClaim ==
  ASSUME links = AllLinks, NEW ch \in Chans, NEW h, NEW inj, KeysOn(ch, h, inj), NEW p \in Peer, NEW c \in Claim
  PROVE  KeysOn(Broadcast(ch, p, <<SwitchOwner(c)>>), h, inj)
<1> DEFINE m == SwitchOwner(c)
           new == Broadcast(ch, p, <<m>>)
<1>1. m \in Message /\ <<m>> \in Seq(Message)
  BY MessageTypes, SingletonType
<1>3. \A k : KeyEvent(k, TRUE) # m
  BY KeyMessages
<1> HIDE DEF m
<1>7. \A k : ~Has(<<m>>, KeyEvent(k, TRUE))
  <2> SUFFICES ASSUME NEW k PROVE ~Has(<<m>>, KeyEvent(k, TRUE))
    OBVIOUS
  <2>1. Has(<<m>>, KeyEvent(k, TRUE)) <=> KeyEvent(k, TRUE) = m
    BY HasSingle
  <2> QED BY <1>3, <2>1
<1>8. \A r, q \in Peer : ch[r][q] \in Seq(Message)
  BY DEF Chans
<1>2. \A r, q \in Peer : new[r][q] = IF r = p /\ q # p THEN ch[r][q] \o <<m>> ELSE ch[r][q]
  BY BroadcastIs
<1> HIDE DEF new
<1>4. ASSUME NEW r \in Peer, NEW q \in Peer, NEW k, EndsDown(new[r][q], k)
      PROVE  EndsDown(ch[r][q], k)
  <2>1. ~EndsDown(<<m>>, k)
    BY <1>7, EndsHas
  <2>2. ch[r][q] \in Seq(Message)
    BY <1>8
  <2>3. EndsDown(ch[r][q] \o <<m>>, k) => EndsDown(ch[r][q], k)
    BY <1>1, <2>1, <2>2, EndsConcat
  <2> QED BY <1>2, <1>4, <2>3
<1>5. ASSUME NEW r \in Peer, NEW q \in Peer, NEW x, Has(ch[r][q], x) PROVE Has(new[r][q], x)
  <2>1. ch[r][q] \in Seq(Message)
    BY <1>8
  <2>2. Has(ch[r][q] \o <<m>>, x)
    BY <1>1, <1>5, <2>1, HasConcat
  <2> QED BY <1>2, <1>5, <2>2
<1>6. KeysOn(new, h, inj)
  <2>1. \A x, q \in Peer : \A k \in Key : EndsDown(new[q][x], k) => k \in h[q]
    BY <1>4 DEF KeysOn
  <2>2. ASSUME NEW x \in Listener, NEW k \in inj[x]
        PROVE  \E q \in Peer \ {x} : k \in h[q] \/ Has(new[q][x], KeyEvent(k, FALSE))
    BY <1>5 DEF KeysOn, Listener
  <2> QED BY <2>1, <2>2 DEF KeysOn
<1> QED BY <1>6 DEF new, m

LEMMA KeysRecvClaim ==
  ASSUME HandoffInv, KeysOn(chan, held, injected), NEW p \in Peer, NEW q \in Peer,
         chan[q][p] # <<>>, Head(chan[q][p]).type = "SwitchOwner"
  PROVE  KeysOn(Received(q, p), held, injected)
<1> DEFINE new == Received(q, p)
<1>1. /\ chan \in Chans /\ \A r, s \in Peer : chan[r][s] \in Seq(Message)
      /\ \A r, s \in Peer : new[r][s] = IF r = q /\ s = p THEN Tail(chan[r][s]) ELSE chan[r][s]
  <2>0. TypeOK
    BY DEF HandoffInv
  <2>1. chan \in Chans
    BY <2>0 DEF TypeOK, Chans
  <2>2. \A r, s \in Peer : chan[r][s] \in Seq(Message)
    BY <2>1 DEF Chans
  <2>3. \A r, s \in Peer : new[r][s] = IF r = q /\ s = p THEN Tail(chan[r][s]) ELSE chan[r][s]
    BY <2>1, ReceivedIs
  <2> QED BY <2>1, <2>2, <2>3
<1>2. \A k : Head(chan[q][p]) # KeyEvent(k, FALSE)
  BY DEF KeyEvent
<1> HIDE DEF new
<1>3. ASSUME NEW r \in Peer, NEW s \in Peer, NEW k, EndsDown(new[r][s], k)
      PROVE  EndsDown(chan[r][s], k)
  BY <1>1, <1>3, EndsTail, ZenonT(30)
<1>4. ASSUME NEW r \in Peer, NEW s \in Peer, NEW k, Has(chan[r][s], KeyEvent(k, FALSE))
      PROVE  Has(new[r][s], KeyEvent(k, FALSE))
  <2> DEFINE m == KeyEvent(k, FALSE)
  <2>1. Head(chan[q][p]) # m
    BY <1>2
  <2> HIDE DEF m
  <2>2. Has(chan[q][p], m) => Has(Tail(chan[q][p]), m)
    BY <1>1, <2>1, HasTail
  <2>3. Has(chan[r][s], m)
    BY <1>4 DEF m
  <2>4. Has(new[r][s], m)
    BY <1>1, <2>2, <2>3
  <2> QED BY <2>4 DEF m
<1>5. \A x, r \in Peer : \A k \in Key : EndsDown(new[r][x], k) => k \in held[r]
  BY <1>3 DEF KeysOn
<1>6. ASSUME NEW x \in Listener, NEW k \in injected[x]
      PROVE  \E r \in Peer \ {x} : k \in held[r] \/ Has(new[r][x], KeyEvent(k, FALSE))
  BY <1>4 DEF KeysOn, Listener
<1>7. KeysOn(new, held, injected)
  BY <1>5, <1>6 DEF KeysOn
<1> QED BY <1>7 DEF new

(* The record is emptied only with the releases of what was on it. *)
LEMMA KeysSync ==
  ASSUME links = AllLinks, TypeOK, NEW ch \in Chans, KeysOn(ch, held, injected),
         \A x \in Peer : ch[x][x] = <<>>,
         NEW p \in Peer, NEW a, NEW b, SyncCapture(p, a, b, ch)
  PROVE  KeysOn(chan', held', injected)
<1>1. /\ held \in [Peer -> SUBSET Key] /\ held[p] \in SUBSET Key
      /\ \A r, q \in Peer : ch[r][q] \in Seq(Message)
  BY DEF TypeOK, Chans
<1>2. CASE ~(capturing[p] /\ ~(b /\ a))
  <2>1. chan' = ch /\ held' = held
    BY <1>1, <1>2 DEF SyncCapture
  <2> QED BY <2>1
<1>3. CASE capturing[p] /\ ~(b /\ a)
  <2> DEFINE ups == Releases(p)
  <2>1. /\ ups \in Seq(Message)
        /\ \A m : Has(ups, m) <=> \E k \in held[p] : m = KeyEvent(k, FALSE)
    BY <1>1, ReleasesType, ReleasesHas
  <2>2. /\ \A r, q \in Peer : chan'[r][q] = IF r = p /\ q # p THEN ch[r][q] \o ups ELSE ch[r][q]
        /\ held'[p] = {} /\ \A r \in Peer : r # p => held'[r] = held[r]
    <3>1. \A r, q \in Peer : chan'[r][q] = IF r = p /\ q # p THEN ch[r][q] \o ups ELSE ch[r][q]
      BY <1>3, SyncIs
    <3>2. held' = [held EXCEPT ![p] = {}]
      BY <1>3 DEF SyncCapture
    <3> QED BY <1>1, <3>1, <3>2
  <2> HIDE DEF ups
  <2>3. \A k : ~EndsDown(ups, k)
    BY <2>1, EndsHas, KeyMessages
  <2>4. ASSUME NEW x \in Peer, NEW q \in Peer, NEW k \in Key, EndsDown(chan'[q][x], k)
        PROVE  k \in held'[q]
    <3>1. CASE q = p /\ x # p
      <4>1. EndsDown(ch[q][x] \o ups, k)
        BY <2>2, <2>4, <3>1
      <4>2. EndsDown(ch[q][x], k) /\ ~Has(ups, KeyEvent(k, FALSE))
        BY <1>1, <2>1, <2>3, <4>1, EndsConcat
      <4>3. k \in held[p]
        BY <3>1, <4>2 DEF KeysOn
      <4> QED BY <2>1, <4>2, <4>3
    <3>2. CASE q = p /\ x = p
      <4>1. EndsDown(<<>>, k)
        BY <2>2, <2>4, <3>2
      <4> QED BY <4>1 DEF EndsDown
    <3>3. CASE q # p
      BY <2>2, <2>4, <3>3 DEF KeysOn
    <3> QED BY <3>1, <3>2, <3>3
  <2>5. ASSUME NEW x \in Listener, NEW k \in injected[x]
        PROVE  \E q \in Peer \ {x} : k \in held'[q] \/ Has(chan'[q][x], KeyEvent(k, FALSE))
    <3>1. x \in Peer
      BY DEF Listener
    <3>2. PICK q \in Peer \ {x} : k \in held[q] \/ Has(ch[q][x], KeyEvent(k, FALSE))
      BY <2>5 DEF KeysOn
    <3>3. CASE q # p
      BY <2>2, <3>1, <3>2, <3>3
    <3>4. CASE q = p
      <4>1. chan'[q][x] = ch[q][x] \o ups
        BY <2>2, <3>1, <3>4
      <4>2. k \in held[q] => Has(ups, KeyEvent(k, FALSE))
        BY <2>1, <3>4
      <4>3. ch[q][x] \in Seq(Message)
        BY <1>1, <3>1, <3>2
      <4>4. Has(ch[q][x], KeyEvent(k, FALSE)) \/ Has(ups, KeyEvent(k, FALSE))
        BY <3>2, <4>2
      <4>5. Has(ch[q][x] \o ups, KeyEvent(k, FALSE))
        BY <2>1, <4>3, <4>4, HasConcat
      <4> QED BY <4>1, <4>5
    <3> QED BY <3>3, <3>4
  <2> QED BY <2>4, <2>5 DEF KeysOn
<1> QED BY <1>2, <1>3

(* A key that is forwarded is recorded in the same step. *)
LEMMA KeysForward ==
  ASSUME links = AllLinks, TypeOK, KeysOn(chan, held, injected),
         \A x \in Peer : chan[x][x] = <<>>,
         NEW p \in Peer, NEW k \in Key, NEW isDown \in BOOLEAN,
         held' = [held EXCEPT ![p] = IF isDown THEN @ \cup {k} ELSE @ \ {k}],
         chan' = Broadcast(chan, p, <<KeyEvent(k, isDown)>>)
  PROVE  KeysOn(chan', held', injected)
<1> DEFINE m == KeyEvent(k, isDown)
<1>1. /\ chan \in Chans /\ m \in Message /\ <<m>> \in Seq(Message)
      /\ \A r, q \in Peer : chan[r][q] \in Seq(Message)
  BY MessageTypes, SingletonType DEF TypeOK, Chans
<1>2. \A r, q \in Peer : chan'[r][q] = IF r = p /\ q # p THEN chan[r][q] \o <<m>> ELSE chan[r][q]
  BY <1>1, BroadcastIs
<1>3. /\ held'[p] = IF isDown THEN held[p] \cup {k} ELSE held[p] \ {k}
      /\ \A r \in Peer : r # p => held'[r] = held[r]
  BY DEF TypeOK
<1>4. /\ isDown => m = KeyEvent(k, TRUE)
      /\ ~isDown => m = KeyEvent(k, FALSE)
  OBVIOUS
<1> HIDE DEF m
<1>5. \A l : l # k => m # KeyEvent(l, TRUE) /\ m # KeyEvent(l, FALSE)
  BY <1>4, KeyMessages
<1>6. ASSUME NEW q \in Peer, NEW x \in Peer, NEW l \in Key, EndsDown(chan'[q][x], l)
      PROVE  l \in held'[q]
  <2>1. CASE q # p
    BY <1>2, <1>3, <1>6, <2>1 DEF KeysOn
  <2>2. CASE q = p /\ x = p
    <3>1. EndsDown(<<>>, l)
      BY <1>2, <1>6, <2>2
    <3> QED BY <3>1 DEF EndsDown
  <2>3. CASE q = p /\ x # p
    <3>1. EndsDown(chan[q][x] \o <<m>>, l)
      BY <1>2, <1>6, <2>3
    <3>2. chan[q][x] \in Seq(Message)
      BY <1>1
    <3>3. EndsDown(<<m>>, l) \/ (EndsDown(chan[q][x], l) /\ ~Has(<<m>>, KeyEvent(l, FALSE)))
      BY <1>1, <3>1, <3>2, EndsConcat
    <3>4. CASE EndsDown(<<m>>, l)
      <4>1. KeyEvent(l, TRUE) = m
        BY <3>4, EndsHas, HasSingle
      <4>2. l = k /\ isDown
        BY <1>4, <1>5, <4>1, KeyMessages
      <4> QED BY <1>3, <2>3, <4>2
    <3>5. CASE EndsDown(chan[q][x], l) /\ ~Has(<<m>>, KeyEvent(l, FALSE))
      <4>1. l \in held[p]
        BY <2>3, <3>5 DEF KeysOn
      <4>2. KeyEvent(l, FALSE) # m
        BY <3>5, HasSingle
      <4>3. l # k \/ isDown
        BY <1>4, <4>2
      <4> QED BY <1>3, <2>3, <4>1, <4>3
    <3> QED BY <3>3, <3>4, <3>5
  <2> QED BY <2>1, <2>2, <2>3
<1>7. ASSUME NEW x \in Listener, NEW l \in injected[x]
      PROVE  \E q \in Peer \ {x} : l \in held'[q] \/ Has(chan'[q][x], KeyEvent(l, FALSE))
  <2>1. x \in Peer
    BY DEF Listener
  <2>2. PICK q \in Peer \ {x} : l \in held[q] \/ Has(chan[q][x], KeyEvent(l, FALSE))
    BY <1>7 DEF KeysOn
  <2>3. CASE q # p
    BY <1>2, <1>3, <2>1, <2>2, <2>3
  <2>4. CASE q = p
    <3>1. chan'[q][x] = chan[q][x] \o <<m>> /\ chan[q][x] \in Seq(Message)
      BY <1>1, <1>2, <2>1, <2>2, <2>4
    <3> DEFINE up == KeyEvent(l, FALSE)
    <3>2. l = k /\ ~isDown => up = m
      BY <1>4
    <3> HIDE DEF up
    <3>3. Has(chan'[q][x], up) <=> Has(chan[q][x], up) \/ up = m
      <4>1. Has(<<m>>, up) <=> up = m
        BY HasSingle
      <4>2. Has(chan[q][x] \o <<m>>, up) <=> Has(chan[q][x], up) \/ Has(<<m>>, up)
        BY <1>1, <3>1, HasConcat
      <4> QED BY <3>1, <4>1, <4>2
    <3>4. l \in held[q] => l \in held'[q] \/ (l = k /\ ~isDown)
      BY <1>3, <2>4
    <3>5. l \in held'[q] \/ Has(chan'[q][x], up)
      BY <2>2, <3>2, <3>3, <3>4 DEF up
    <3> QED BY <3>5 DEF up
  <2> QED BY <2>3, <2>4
<1> QED BY <1>6, <1>7 DEF KeysOn

(* A key event arrives, at the owner or at another machine. *)
LEMMA KeysArrive ==
  ASSUME HandoffInv, KeysOn(chan, held, injected), ListenersOwned, Whole, links = AllLinks,
         NEW p \in Peer, NEW q \in Peer, RecvKey(p, q)
  PROVE  KeysOn(chan', held', injected')
<1> DEFINE s == chan[q][p]
           m == Head(s)
<1>1. /\ s # <<>> /\ m.type = "KeyEvent" /\ chan' = Received(q, p) /\ held' = held
      /\ IF IsLocalOwner(p) THEN UNCHANGED <<down, injected>> ELSE Inject(p, m.key, m.down)
  BY DEF RecvKey
<1>2. /\ chan \in Chans /\ \A r, x \in Peer : chan[r][x] \in Seq(Message)
      /\ injected \in [Peer -> SUBSET Key] /\ q # p
  BY <1>1 DEF HandoffInv, TypeOK, Chans, Whole
<1>3. \A r, x \in Peer : chan'[r][x] = IF r = q /\ x = p THEN Tail(chan[r][x]) ELSE chan[r][x]
  BY <1>1, <1>2, ReceivedIs
<1>4. m \in Message /\ m.key \in Key /\ m.down \in BOOLEAN /\ m = KeyEvent(m.key, m.down)
  BY <1>1, ReceivedType, MessageTypes, MessageIs
<1> DEFINE k == m.key
<1>5. /\ m.down => m = KeyEvent(k, TRUE)
      /\ ~m.down => m = KeyEvent(k, FALSE)
  BY <1>4
<1>6. s \in Seq(Message)
  BY <1>2
<1>7. ~IsLocalOwner(p) =>
        /\ injected'[p] = IF m.down THEN injected[p] \cup {k} ELSE injected[p] \ {k}
        /\ \A x \in Peer : x # p => injected'[x] = injected[x]
  BY <1>1, <1>2 DEF Inject
<1>8. IsLocalOwner(p) => injected' = injected
  BY <1>1
<1>9. \A l : l # k => m # KeyEvent(l, FALSE)
  BY <1>4, <1>5, KeyMessages
<1> HIDE DEF m, k, s
<1>10. ASSUME NEW r \in Peer, NEW x \in Peer, NEW l \in Key, EndsDown(chan'[r][x], l)
       PROVE  l \in held'[r]
  <2>1. EndsDown(Tail(s), l) => EndsDown(s, l)
    BY <1>1, <1>6, EndsTail
  <2>2. EndsDown(chan[r][x], l)
    BY <1>3, <1>10, <2>1 DEF s
  <2> QED BY <1>1, <2>2 DEF KeysOn
<1>11. ASSUME NEW x \in Listener, NEW l \in injected'[x]
       PROVE  \E r \in Peer \ {x} : l \in held'[r] \/ Has(chan'[r][x], KeyEvent(l, FALSE))
  <2>0. x \in Peer
    BY DEF Listener
  <2>1. \A u : Has(s, u) => u = m \/ Has(Tail(s), u)
    BY <1>1, <1>6, HasTail DEF m
  <2>2. CASE x # p
    <3>1. l \in injected[x]
      BY <1>7, <1>8, <1>11, <2>0, <2>2
    <3>2. PICK r \in Peer \ {x} : l \in held[r] \/ Has(chan[r][x], KeyEvent(l, FALSE))
      BY <3>1 DEF KeysOn
    <3>3. chan'[r][x] = chan[r][x]
      BY <1>3, <2>0, <2>2
    <3> QED BY <1>1, <3>2, <3>3
  <2>3. CASE x = p
    <3>1. ~IsLocalOwner(p)
      BY <1>8, <1>11, <2>3 DEF ListenersOwned
    <3>2. CASE l = k /\ m.down
      <4>1. ~Has(Tail(s), KeyEvent(l, FALSE)) => EndsDown(s, l)
        BY <1>1, <1>5, <1>6, <3>2, EndsTail DEF m
      <4>2. EndsDown(s, l) => l \in held[q]
        BY <1>4, <3>2 DEF KeysOn, s, k
      <4>3. chan'[q][x] = Tail(s)
        BY <1>3, <2>3 DEF s
      <4> QED BY <1>1, <1>2, <2>3, <4>1, <4>2, <4>3
    <3>3. CASE ~(l = k /\ m.down)
      <4>1. l \in injected[p] /\ l # k
        BY <1>7, <1>11, <2>3, <3>1, <3>3
      <4>2. PICK r \in Peer \ {p} : l \in held[r] \/ Has(chan[r][p], KeyEvent(l, FALSE))
        BY <2>3, <4>1 DEF KeysOn
      <4>3. Has(chan[r][p], KeyEvent(l, FALSE)) => Has(chan'[r][p], KeyEvent(l, FALSE))
        <5>1. CASE r = q
          <6>1. m # KeyEvent(l, FALSE)
            BY <1>9, <4>1
          <6>2. Has(s, KeyEvent(l, FALSE)) => Has(Tail(s), KeyEvent(l, FALSE))
            BY <2>1, <6>1
          <6> QED BY <1>3, <5>1, <6>2 DEF s
        <5>2. CASE r # q
          BY <1>3, <5>2
        <5> QED BY <5>1, <5>2
      <4> QED BY <1>1, <2>3, <4>2, <4>3
    <3> QED BY <3>2, <3>3
  <2> QED BY <2>2, <2>3
<1> QED BY <1>10, <1>11 DEF KeysOn

(* A listener does not become the owner: no claim names it. *)
LEMMA ListenersNeverOwn ==
  ASSUME HandoffInv, HandoffInv', Whole, ClaimsSpread, ClaimsSpread', links = AllLinks,
         links' = AllLinks, [StableNext]_vars,
         NEW p \in Listener, IsLocalOwner(p)'
  PROVE  IsLocalOwner(p)
<1>1. /\ p \in Peer /\ p \notin Driver \cup Woken
      /\ own[p] \in OwnState /\ own'[p].current \in Claim /\ own'[p].current.target = p
  BY DEF Listener, HandoffInv, TypeOK, OwnState, IsLocalOwner, Owner
<1>2. ~(own'[p].current.sequence > 0)
  <2>1. PICK c \in Claim : c = own'[p].current
    BY <1>1
  <2>2. Known(c)' => Spread(c)'
    BY DEF ClaimsSpread
  <2>3. c.sequence > 0 => Known(c)'
    BY <1>1, <2>1 DEF Known
  <2>4. Spread(c)' => c.target \in Driver \cup Woken
    BY DEF Spread
  <2> QED BY <1>1, <2>1, <2>2, <2>3, <2>4
<1>3. CASE own'[p].current = own[p].current
  BY <1>1, <1>3 DEF IsLocalOwner, Owner
<1>4. ASSUME NEW r \in Peer, NEW q \in Peer, NEW c \in Claim, Adopts(r, q, c)
      PROVE  own'[p].current = own[p].current
  <2>1. own'[p].current = own[p].current \/ own'[p].current = c
    <3>1. own' = [own EXCEPT ![r] = applyClaim(own[r], c)]
      BY <1>4 DEF Adopts
    <3>2. \A s \in Peer : own'[s].current = own[s].current \/ (s = r /\ own'[s].current = c)
      BY <3>1, ClaimsGrow
    <3> QED BY <1>1, <3>2
  <2>2. c.sequence > 0
    BY <1>4 DEF Adopts, ClaimsSpread
  <2> QED BY <1>2, <2>1, <2>2
<1>5. ASSUME NEW r \in Peer, NEW t \in Peer, Issues(r, t)
      PROVE  own'[p].current = own[p].current
  <2>1. PICK c \in Claim : c.sequence > 0 /\ own' = [own EXCEPT ![r] = applyClaim(own[r], c)]
    BY <1>5, IssueIs
  <2>2. own'[p].current = own[p].current \/ own'[p].current = c
    <3>1. own' = [own EXCEPT ![r] = applyClaim(own[r], c)]
      BY <2>1
    <3>2. \A s \in Peer : own'[s].current = own[s].current \/ (s = r /\ own'[s].current = c)
      BY <3>1, ClaimsGrow
    <3> QED BY <1>1, <3>2
  <2> QED BY <1>2, <2>1, <2>2
<1> QED BY <1>3, <1>4, <1>5, ClaimKinds DEF KeepsClaims

LEMMA KeysInit == Init => KeysTracked
<1> SUFFICES ASSUME Init PROVE KeysOn(chan, held, injected) /\ ListenersOwned
  BY DEF KeysTracked
<1>1. \A r, q \in Peer : chan[r][q] = <<>>
  BY DEF Init
<1>2. \A p \in Peer : injected[p] = {}
  BY DEF Init
<1>3. \A k : ~EndsDown(<<>>, k)
  BY DEF EndsDown
<1> QED BY <1>1, <1>2, <1>3 DEF KeysOn, ListenersOwned, Listener

LEMMA KeysNext ==
  /\ HandoffInv /\ HandoffInv' /\ Whole /\ Whole' /\ ClaimsSpread /\ ClaimsSpread' /\ KeysTracked
  /\ [Next]_vars
  => KeysTracked'
<1> SUFFICES ASSUME HandoffInv, HandoffInv', Whole, Whole', ClaimsSpread, ClaimsSpread', KeysTracked,
                    [Next]_vars, links' = AllLinks
             PROVE  KeysOn(chan', held', injected') /\ ListenersOwned'
  <2>1. KeysOn(chan, held, injected)' <=> KeysOn(chan', held', injected')
    BY DEF KeysOn, Listener, EndsDown, Has, KeyEvent
  <2> QED BY <2>1 DEF KeysTracked, AllLinks
<1>1. links = AllLinks /\ [StableNext]_vars
  BY StaysWhole
<1>2. /\ KeysOn(chan, held, injected) /\ ListenersOwned /\ TypeOK /\ chan \in Chans
      /\ own \in [Peer -> OwnState] /\ injected \in [Peer -> SUBSET Key]
      /\ \A x \in Peer : chan[x][x] = <<>>
  BY <1>1 DEF KeysTracked, HandoffInv, TypeOK, Chans, Whole
<1>3. ASSUME NEW p \in Peer, NEW c \in Claim
      PROVE  LET new == Broadcast(chan, p, <<SwitchOwner(c)>>)
             IN  new \in Chans /\ KeysOn(new, held, injected) /\ \A x \in Peer : new[x][x] = <<>>
  <2> DEFINE m == SwitchOwner(c)
  <2>1. m \in Message /\ <<m>> \in Seq(Message)
    BY MessageTypes, SingletonType
  <2>2. KeysOn(Broadcast(chan, p, <<m>>), held, injected)
    BY <1>1, <1>2, KeysClaim
  <2> HIDE DEF m
  <2>3. \A x \in Peer : Broadcast(chan, p, <<m>>)[x][x] = chan[x][x]
    BY <1>1, <1>2, BroadcastIs
  <2>4. Broadcast(chan, p, <<m>>) \in Chans
    BY <1>2, <2>1, BroadcastType
  <2> QED BY <1>2, <2>2, <2>3, <2>4 DEF m
<1>4. \A p, t \in Peer : SwitchClaim(p, own[p], t) \in Claim
  BY <1>2, SwitchClaimType
<1>5. ASSUME NEW p \in Peer, ControlPeer(p) \/ StopDriving(p) \/ Timer(p) \/ TimerWoken(p)
      PROVE  KeysOn(chan', held', injected') /\ injected' = injected
  <2>1. CASE ControlPeer(p)
    <3>1. /\ SyncCapture(p, TRUE, TRUE, Broadcast(chan, p, <<SwitchOwner(SwitchClaim(p, own[p], p))>>))
          /\ injected' = injected
      BY <2>1 DEF ControlPeer, keyVars
    <3> QED BY <1>1, <1>2, <1>3, <1>4, <3>1, KeysSync
  <2>2. CASE StopDriving(p)
    <3>1. SyncCapture(p, IsLocalOwner(p), FALSE, chan) /\ injected' = injected
      BY <2>2 DEF StopDriving, keyVars
    <3> QED BY <1>1, <1>2, <3>1, KeysSync
  <2>3. CASE Timer(p)
    <3>1. /\ SyncCapture(p, IsLocalOwner(p), driving[p] /\ online[p] # {}, chan)
          /\ injected' = injected
      BY <2>3 DEF Timer, keyVars
    <3> QED BY <1>1, <1>2, <3>1, KeysSync
  <2>4. CASE TimerWoken(p)
    <3>1. waking[p] \in Peer
      BY <1>2, <2>4 DEF TimerWoken, TypeOK
    <3>2. /\ SyncCapture(p, FALSE, driving[p],
                         Broadcast(chan, p, <<SwitchOwner(SwitchClaim(p, own[p], waking[p]))>>))
          /\ injected' = injected
      BY <2>4 DEF TimerWoken, keyVars
    <3> QED BY <1>1, <1>2, <1>3, <1>4, <3>1, <3>2, KeysSync
  <2> QED BY <1>5, <2>1, <2>2, <2>3, <2>4
<1>6. ASSUME NEW p \in Peer, NEW k \in Key, NEW isDown \in BOOLEAN, Touch(p, k, isDown)
      PROVE  /\ KeysOn(chan', held', injected')
             /\ \A x \in Peer : injected'[x] \subseteq injected[x]
  <2>1. CASE capturing[p] /\ IsLocalOwner(p)
    <3>1. /\ held' = [held EXCEPT ![p] = IF isDown THEN @ \cup {k} ELSE @ \ {k}]
          /\ chan' = Broadcast(chan, p, <<KeyEvent(k, isDown)>>) /\ injected' = injected
      BY <1>6, <2>1 DEF Touch, Forward
    <3> QED BY <1>1, <1>2, <3>1, KeysForward
  <2>2. CASE ~(capturing[p] /\ IsLocalOwner(p))
    <3>1. /\ held' = held /\ chan' = chan
          /\ injected' = injected \/ injected' = [injected EXCEPT ![p] = @ \ {k}]
      BY <1>6, <2>2 DEF Touch, Forward
    <3>2. \A x \in Peer : injected'[x] \subseteq injected[x]
      BY <1>2, <3>1
    <3> QED BY <1>2, <3>1, <3>2 DEF KeysOn, Listener
  <2> QED BY <2>1, <2>2
<1>7. ASSUME NEW p \in Peer, NEW q \in Peer, RecvClaim(p, q)
      PROVE  KeysOn(chan', held', injected') /\ injected' = injected
  <2>1. /\ chan[q][p] # <<>> /\ Head(chan[q][p]).type = "SwitchOwner" /\ injected' = injected
        /\ Own(p, Head(chan[q][p]).claim, Received(q, p))
    BY <1>7 DEF RecvClaim, keyVars
  <2>2. KeysOn(Received(q, p), held, injected) /\ Received(q, p) \in Chans
    BY <1>2, <2>1, KeysRecvClaim, ReceivedType
  <2>3. \A x \in Peer : Received(q, p)[x][x] = <<>>
    BY <1>2, <2>1, ReceivedIs
  <2>4. CASE chan' = Received(q, p) /\ held' = held
    BY <2>1, <2>2, <2>4
  <2>5. ASSUME NEW a, NEW b, SyncCapture(p, a, b, Received(q, p)) PROVE KeysOn(chan', held', injected')
    BY <1>1, <1>2, <2>1, <2>2, <2>3, <2>5, KeysSync
  <2> QED BY <2>1, <2>4, <2>5 DEF Own
<1>8. ASSUME NEW p \in Peer, NEW q \in Peer, RecvKey(p, q)
      PROVE  /\ KeysOn(chan', held', injected')
             /\ own' = own
             /\ \A x \in Peer : IsLocalOwner(x) => injected'[x] = injected[x]
  <2>1. KeysOn(chan', held', injected')
    BY <1>1, <1>2, <1>8, KeysArrive
  <2>2. \A x \in Peer : IsLocalOwner(x) => injected'[x] = injected[x]
    BY <1>2, <1>8 DEF RecvKey, Inject
  <2> QED BY <1>8, <2>1, <2>2 DEF RecvKey
<1>9. ASSUME NEW p \in Peer, NEW q \in Peer, StartWake(p, q)
      PROVE  KeysOn(chan', held', injected') /\ injected' = injected
  BY <1>2, <1>9 DEF StartWake, keyVars
<1>10. CASE UNCHANGED vars
  BY <1>2, <1>10 DEF vars, keyVars, ListenersOwned, IsLocalOwner, Owner, KeysOn
<1>11. CASE StableNext
  <2>1. /\ KeysOn(chan', held', injected')
        /\ \A x \in Peer : IsLocalOwner(x) => injected'[x] \subseteq injected[x]
    BY <1>5, <1>6, <1>7, <1>8, <1>9, <1>11 DEF StableNext
  <2>2. \A x \in Listener : IsLocalOwner(x)' => IsLocalOwner(x)
    BY <1>1, ListenersNeverOwn
  <2>3. ListenersOwned'
    BY <1>2, <2>1, <2>2 DEF ListenersOwned, Listener
  <2> QED BY <2>1, <2>3
<1> QED BY <1>1, <1>10, <1>11

(* A machine that is never made the owner is left with no key down that was
   injected: whatever way the drivers let go of or take input from one another,
   their releases reach it (syncCapture, drainReleases, MeshNode::handle). *)
THEOREM ListenersKeysGoUp == Spec => []ListenersKeysReleased
<1>1. ASSUME HandoffInv, KeysTracked PROVE ListenersKeysReleased
  <2> SUFFICES ASSUME Quiet, links = AllLinks, NoneCaptures, NEW p \in Listener, NEW k \in injected[p]
               PROVE  FALSE
    BY DEF ListenersKeysReleased, Listener
  <2>1. PICK q \in Peer \ {p} : k \in held[q] \/ Has(chan[q][p], KeyEvent(k, FALSE))
    BY <1>1 DEF KeysTracked, KeysOn
  <2>2. held[q] = {}
    BY <1>1 DEF HandoffInv, HeldOnlyWhileCapturing, NoneCaptures
  <2>3. chan[q][p] = <<>>
    BY DEF Quiet, Listener
  <2> QED BY <2>1, <2>2, <2>3 DEF Has
<1> QED BY <1>1, InitInv, StepInv, WholeInit, WholeNext, ClaimsInit, ClaimsNext, KeysInit, KeysNext,
           PTL DEF Spec
=============================================================================
