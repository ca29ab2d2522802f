---------------------------- MODULE ClipboardProofs ----------------------------
(***************************************************************************)
(* Proofs about ClipboardMesh, for any machines and texts: as long as the  *)
(* users copy one thing at a time, the machines end up with the same       *)
(* clipboard and no echo is left on the books.                             *)
(***************************************************************************)
EXTENDS ClipboardMesh, SequenceTheorems, TLAPS

(* Nothing was posted at q, and no echo is expected there. *)
Calm(q) == notices[q] = 0 /\ pending[q] = NoText

Agree(S) == \A q, r \in S : clip[q] \notin Excluded /\ clip[r] \notin Excluded => clip[q] = clip[r]

(* A text that is copied while nothing is under way goes through three phases:
   before it; after the copy, which one notification reports; and while it
   spreads from p, on its way to each of the others or there, where at most its
   own notification is left and is expected. *)
Idle == Quiet /\ (\A q \in Peer : Calm(q)) /\ Agree(Peer)

Copied(p) ==
  /\ Quiet /\ notices[p] = 1 /\ pending[p] = NoText /\ clip[p] \in Text
  /\ \A q \in Peer \ {p} : Calm(q)
  /\ Agree(Peer \ {p})

Coming(p, q, t) == chan[p][q] = <<t>> /\ Calm(q)

Arrived(p, q, t) ==
  /\ chan[p][q] = <<>> /\ clip[q] = t
  /\ Calm(q) \/ (notices[q] = 1 /\ pending[q] = t)

Wave(p, t) ==
  /\ clip[p] = t /\ Calm(p)
  /\ \A r, q \in Peer : r # p \/ q = p => chan[r][q] = <<>>
  /\ \A q \in Peer \ {p} : Coming(p, q, t) \/ Arrived(p, q, t)

PacedInv ==
  paced => \/ Idle
           \/ \E p \in Peer : Copied(p)
           \/ \E p \in Peer, t \in Text \ Excluded : Wave(p, t)
----------------------------------------------------------------------------
(* What a notification reports is a text that was written. *)
NoticesReport == \A p \in Peer : notices[p] > 0 => clip[p] \in Text

LEMMA InitType == Init => TypeOK /\ NoticesReport
BY ClipboardAssumption, EmptySeq DEF Init, TypeOK, NoticesReport

LEMMA NextType == TypeOK /\ NoticesReport /\ [Next]_vars => TypeOK' /\ NoticesReport'
<1> SUFFICES ASSUME TypeOK, NoticesReport, [Next]_vars PROVE TypeOK' /\ NoticesReport'
  OBVIOUS
<1>1. \A p, q \in Peer : chan[p][q] \in Seq(Text)
  BY DEF TypeOK
<1>2. ASSUME NEW p \in Peer, NEW q \in Peer, chan[q][p] # <<>>
      PROVE  /\ Head(chan[q][p]) \in Text
             /\ [chan EXCEPT ![q][p] = Tail(chan[q][p])] \in [Peer -> [Peer -> Seq(Text)]]
  <2>1. Head(chan[q][p]) \in Text /\ Tail(chan[q][p]) \in Seq(Text)
    BY <1>1, <1>2, HeadTailProperties
  <2> QED BY <2>1 DEF TypeOK
<1>3. ASSUME NEW p \in Peer, NEW text \in Text, Write(p, text)
      PROVE  clip' \in [Peer -> Text \cup {NoText}] /\ notices' \in [Peer -> Nat] /\ NoticesReport'
  <2>1. clip' \in [Peer -> Text \cup {NoText}] /\ notices' \in [Peer -> Nat]
    BY <1>3 DEF Write, TypeOK
  <2>2. \A q \in Peer : q # p => clip'[q] = clip[q] /\ notices'[q] = notices[q]
    BY <1>3 DEF Write, TypeOK
  <2>3. clip'[p] = text
    BY <1>3 DEF Write, TypeOK
  <2> QED BY <2>1, <2>2, <2>3 DEF NoticesReport
<1>4. ASSUME NEW p \in Peer, notices[p] > 0, notices' = [notices EXCEPT ![p] = @ - 1],
             clip' = clip
      PROVE  notices' \in [Peer -> Nat] /\ NoticesReport'
  <2>1. notices[p] - 1 \in Nat
    BY <1>4 DEF TypeOK
  <2>2. notices' \in [Peer -> Nat] /\ \A q \in Peer : q # p => notices'[q] = notices[q]
    BY <1>4, <2>1 DEF TypeOK
  <2> QED BY <1>4, <2>2 DEF NoticesReport
<1>5. ASSUME NEW p \in Peer, ClipboardUpdate(p) PROVE TypeOK' /\ NoticesReport'
  <2>1. pending' \in [Peer -> Text \cup {NoText}]
    BY <1>5 DEF ClipboardUpdate, TypeOK
  <2>2. chan' \in [Peer -> [Peer -> Seq(Text)]]
    <3>1. CASE UNCHANGED chan
      BY <3>1 DEF TypeOK
    <3>2. CASE clip[p] \in Text /\ Broadcast(p, clip[p])
      <4>1. \A q \in Peer : Append(chan[p][q], clip[p]) \in Seq(Text)
        BY <1>1, <3>2, AppendProperties
      <4>2. [q \in Peer |-> IF q = p THEN chan[p][q] ELSE Append(chan[p][q], clip[p])]
              \in [Peer -> Seq(Text)]
        BY <1>1, <4>1
      <4> QED BY <3>2, <4>2 DEF Broadcast, TypeOK
    <3>3. clip[p] \in Text
      BY <1>5 DEF ClipboardUpdate, NoticesReport
    <3> QED BY <1>5, <3>1, <3>2, <3>3 DEF ClipboardUpdate
  <2> QED BY <1>4, <1>5, <2>1, <2>2 DEF ClipboardUpdate, TypeOK
<1>6. ASSUME NEW p \in Peer, ClipboardUpdateBlocked(p) PROVE TypeOK' /\ NoticesReport'
  BY <1>4, <1>6 DEF ClipboardUpdateBlocked, TypeOK
<1>7. ASSUME NEW p \in Peer, NEW q \in Peer, RecvUpdate(p, q) PROVE TypeOK' /\ NoticesReport'
  BY <1>2, <1>3, <1>7 DEF RecvUpdate, noteAppliedRemote, TypeOK
<1>8. ASSUME NEW p \in Peer, NEW q \in Peer, RecvUpdateBlocked(p, q)
      PROVE  TypeOK' /\ NoticesReport'
  BY <1>2, <1>8 DEF RecvUpdateBlocked, noteAppliedRemote, TypeOK, NoticesReport
<1>9. ASSUME NEW p \in Peer, NEW text \in Text, UserCopies(p, text) PROVE TypeOK' /\ NoticesReport'
  <2>1. copies' \in 0..MaxCopies /\ paced' \in BOOLEAN
    BY <1>9, ClipboardAssumption DEF UserCopies, TypeOK
  <2> QED BY <1>3, <1>9, <2>1 DEF UserCopies, TypeOK
<1>10. CASE UNCHANGED vars
  BY <1>10 DEF vars, TypeOK, NoticesReport
<1> QED BY <1>5, <1>6, <1>7, <1>8, <1>9, <1>10 DEF Next
----------------------------------------------------------------------------
LEMMA PacedInit == Init => PacedInv
<1> SUFFICES ASSUME Init PROVE Idle
  BY DEF PacedInv
<1>1. /\ \A p \in Peer : clip[p] = NoText /\ notices[p] = 0 /\ pending[p] = NoText
      /\ \A p, q \in Peer : chan[p][q] = <<>>
  BY DEF Init
<1> QED BY <1>1 DEF Idle, Quiet, Calm, Agree

(* When a wave has passed, every machine holds its text. *)
LEMMA WavePasses ==
  ASSUME NEW p \in Peer, NEW t \in Text \ Excluded, Wave(p, t), Settled
  PROVE  Idle
<1>1. \A q \in Peer : clip[q] = t /\ Calm(q)
  <2> SUFFICES ASSUME NEW q \in Peer, q # p PROVE clip[q] = t /\ Calm(q)
    BY DEF Wave
  <2>1. chan[p][q] # <<t>> /\ notices[q] # 1
    BY DEF Settled, Quiet
  <2> QED BY <2>1 DEF Wave, Coming, Arrived
<1> QED BY <1>1 DEF Idle, Agree, Settled

(* A copy while nothing is under way begins the next phase. *)
LEMMA CopyStep ==
  ASSUME TypeOK, PacedInv, NEW p \in Peer, NEW text \in Text, UserCopies(p, text), paced'
  PROVE  Copied(p)'
<1>1. paced /\ Settled /\ Write(p, text) /\ pending' = pending /\ chan' = chan
  BY DEF UserCopies
<1>2. Idle
  <2>1. ASSUME NEW r \in Peer PROVE ~Copied(r)
    BY <1>1 DEF Copied, Settled
  <2> QED BY <1>1, <2>1, WavePasses DEF PacedInv
<1>3. /\ clip'[p] = text /\ notices'[p] = notices[p] + 1
      /\ \A q \in Peer : q # p => clip'[q] = clip[q] /\ notices'[q] = notices[q]
  BY <1>1 DEF Write, TypeOK
<1>4. \A q \in Peer : notices[q] = 0 /\ pending[q] = NoText
  BY <1>2 DEF Idle, Calm
<1>5. Quiet' /\ notices'[p] = 1 /\ pending'[p] = NoText /\ clip'[p] \in Text
  BY <1>1, <1>2, <1>3, <1>4 DEF Idle, Quiet
<1>6. \A q \in Peer \ {p} : Calm(q)'
  BY <1>1, <1>3, <1>4 DEF Calm
<1>7. Agree(Peer \ {p})'
  BY <1>2, <1>3 DEF Idle, Agree
<1> QED BY <1>5, <1>6, <1>7 DEF Copied

(* The notification of the copy is handled: the text goes out, or is kept. *)
LEMMA AnnounceStep ==
  ASSUME TypeOK, NEW p \in Peer, Copied(p), ClipboardUpdate(p)
  PROVE  Idle' \/ \E t \in Text \ Excluded : Wave(p, t)'
<1>1. /\ Quiet /\ notices[p] = 1 /\ pending[p] = NoText /\ clip[p] \in Text
      /\ \A q \in Peer \ {p} : Calm(q)
      /\ Agree(Peer \ {p})
  BY DEF Copied
<1>2. /\ notices' = [notices EXCEPT ![p] = @ - 1] /\ clip' = clip
      /\ IF clip[p] \in Excluded
         THEN UNCHANGED <<pending, chan>>
         ELSE /\ pending' = [pending EXCEPT ![p] = NoText]
              /\ IF shouldBroadcastLocalChange(p, clip[p])
                 THEN Broadcast(p, clip[p])
                 ELSE UNCHANGED chan
  BY DEF ClipboardUpdate
<1>3. notices'[p] = 0 /\ \A q \in Peer : q # p => notices'[q] = notices[q]
  BY <1>1, <1>2 DEF TypeOK
<1>4. pending'[p] = NoText /\ \A q \in Peer : q # p => pending'[q] = pending[q]
  BY <1>1, <1>2 DEF TypeOK
<1>5. \A q \in Peer : Calm(q)'
  BY <1>1, <1>3, <1>4 DEF Calm
<1>6. CASE clip[p] \in Excluded
  <2>1. Quiet'
    BY <1>1, <1>2, <1>6 DEF Quiet
  <2>2. Agree(Peer)'
    BY <1>1, <1>2, <1>6 DEF Agree
  <2> QED BY <1>5, <2>1, <2>2 DEF Idle
<1>7. CASE clip[p] \notin Excluded
  <2>1. Broadcast(p, clip[p])
    BY <1>1, <1>2, <1>7, ClipboardAssumption DEF shouldBroadcastLocalChange
  <2>2. /\ \A q \in Peer : q # p => chan'[p][q] = Append(<<>>, clip[p])
        /\ \A r, q \in Peer : r # p \/ q = p => chan'[r][q] = <<>>
    BY <1>1, <2>1 DEF Broadcast, Quiet, TypeOK
  <2>3. Append(<<>>, clip[p]) = <<clip[p]>>
    OBVIOUS
  <2>4. PICK t \in Text \ Excluded : t = clip[p]
    BY <1>1, <1>7
  <2>5. \A q \in Peer \ {p} : chan'[p][q] = <<t>> /\ Calm(q)'
    BY <1>5, <2>2, <2>3, <2>4
  <2>6. Wave(p, t)'
    BY <1>2, <1>5, <2>2, <2>4, <2>5 DEF Wave, Coming
  <2> QED BY <2>6
<1> QED BY <1>6, <1>7

(* A text arrives, and later its notification is taken for the echo it is. *)
LEMMA ArriveStep ==
  ASSUME TypeOK, NEW p \in Peer, NEW t \in Text \ Excluded, Wave(p, t),
         NEW q \in Peer, NEW r \in Peer, RecvUpdate(q, r)
  PROVE  Wave(p, t)'
<1>1. r = p /\ q # p /\ chan[p][q] = <<t>> /\ Calm(q)
  BY DEF RecvUpdate, Wave, Coming, Arrived
<1>2. Head(<<t>>) = t /\ Tail(<<t>>) = <<>>
  OBVIOUS
<1>3. /\ chan' = [chan EXCEPT ![p][q] = <<>>]
      /\ pending' = [pending EXCEPT ![q] = t]
      /\ clip' = [clip EXCEPT ![q] = t]
      /\ notices' = [notices EXCEPT ![q] = notices[q] + 1]
  BY <1>1, <1>2 DEF RecvUpdate, noteAppliedRemote, Write
<1>4. /\ chan'[p][q] = <<>> /\ pending'[q] = t /\ clip'[q] = t /\ notices'[q] = 1
      /\ \A x, y \in Peer : ~(x = p /\ y = q) => chan'[x][y] = chan[x][y]
      /\ \A x \in Peer : x # q =>
           pending'[x] = pending[x] /\ clip'[x] = clip[x] /\ notices'[x] = notices[x]
  BY <1>1, <1>3 DEF TypeOK, Calm
<1>5. ASSUME NEW x \in Peer \ {p} PROVE Coming(p, x, t)' \/ Arrived(p, x, t)'
  BY <1>1, <1>4 DEF Wave, Coming, Arrived, Calm
<1>6. \A x, y \in Peer : x # p \/ y = p => chan'[x][y] = <<>>
  BY <1>1, <1>4 DEF Wave
<1>7. clip'[p] = t /\ Calm(p)'
  BY <1>1, <1>4 DEF Wave, Calm
<1> QED BY <1>5, <1>6, <1>7 DEF Wave

LEMMA EchoStep ==
  ASSUME TypeOK, NEW p \in Peer, NEW t \in Text \ Excluded, Wave(p, t),
         NEW q \in Peer, ClipboardUpdate(q)
  PROVE  Wave(p, t)'
<1>1. q # p /\ chan[p][q] = <<>> /\ clip[q] = t /\ notices[q] = 1 /\ pending[q] = t
  BY DEF ClipboardUpdate, Wave, Coming, Arrived, Calm
<1>2. /\ chan' = chan /\ clip' = clip
      /\ notices' = [notices EXCEPT ![q] = notices[q] - 1]
      /\ pending' = [pending EXCEPT ![q] = NoText]
  BY <1>1 DEF ClipboardUpdate, shouldBroadcastLocalChange
<1>3. /\ notices'[q] = 0 /\ pending'[q] = NoText
      /\ \A x \in Peer : x # q => pending'[x] = pending[x] /\ notices'[x] = notices[x]
  BY <1>1, <1>2 DEF TypeOK
<1>4. ASSUME NEW x \in Peer \ {p} PROVE Coming(p, x, t)' \/ Arrived(p, x, t)'
  BY <1>1, <1>2, <1>3 DEF Wave, Coming, Arrived, Calm
<1> QED BY <1>1, <1>2, <1>3, <1>4 DEF Wave, Calm

LEMMA PacedNext == TypeOK /\ PacedInv /\ [Next]_vars => PacedInv'
<1> SUFFICES ASSUME TypeOK, PacedInv, [Next]_vars, paced' PROVE PacedInv'
  BY DEF PacedInv
<1>1. CASE UNCHANGED vars
  BY <1>1 DEF vars, PacedInv, Idle, Copied, Wave, Coming, Arrived, Calm, Quiet, Agree
<1>2. ASSUME NEW p \in Peer, NEW text \in Text, UserCopies(p, text) PROVE PacedInv'
  BY <1>2, CopyStep DEF PacedInv
<1>3. ASSUME NEW p \in Peer PROVE ~ClipboardUpdateBlocked(p)
  BY DEF ClipboardUpdateBlocked
<1>4. ASSUME NEW p \in Peer, NEW q \in Peer PROVE ~RecvUpdateBlocked(p, q)
  BY DEF RecvUpdateBlocked
<1>5. ASSUME NEW q \in Peer, ClipboardUpdate(q) PROVE PacedInv'
  <2>1. paced /\ notices[q] > 0
    BY <1>5 DEF ClipboardUpdate
  <2>2. ~Idle
    BY <2>1 DEF Idle, Calm
  <2>3. ASSUME NEW p \in Peer, Copied(p) PROVE PacedInv'
    <3>1. q = p
      BY <2>1, <2>3 DEF Copied, Calm
    <3> QED BY <1>5, <2>3, <3>1, AnnounceStep DEF PacedInv
  <2>4. ASSUME NEW p \in Peer, NEW t \in Text \ Excluded, Wave(p, t) PROVE PacedInv'
    BY <1>5, <2>4, EchoStep DEF PacedInv
  <2> QED BY <2>1, <2>2, <2>3, <2>4 DEF PacedInv
<1>6. ASSUME NEW q \in Peer, NEW r \in Peer, RecvUpdate(q, r) PROVE PacedInv'
  <2>1. paced /\ chan[r][q] # <<>>
    BY <1>6 DEF RecvUpdate
  <2>2. ~Idle /\ \A p \in Peer : ~Copied(p)
    BY <2>1 DEF Idle, Copied, Quiet
  <2>3. ASSUME NEW p \in Peer, NEW t \in Text \ Excluded, Wave(p, t) PROVE PacedInv'
    BY <1>6, <2>3, ArriveStep DEF PacedInv
  <2> QED BY <2>1, <2>2, <2>3 DEF PacedInv
<1> QED BY <1>1, <1>2, <1>3, <1>4, <1>5, <1>6 DEF Next

(* The variables keep their types. *)
THEOREM ClipboardTyped == Spec => []TypeOK
BY InitType, NextType, PTL DEF Spec

(* As long as texts are copied while nothing is under way, each of them reaches
   every machine, is announced by none of them again, and is not taken for an
   echo where it is copied, whatever was applied there before (noteAppliedRemote
   and shouldBroadcastLocalChange, between WM_CLIPBOARDUPDATE and the
   ClipboardUpdate handler). *)
THEOREM CopiesReachEveryone == Spec => []SettledClipboardsAgree
<1>1. ASSUME PacedInv PROVE SettledClipboardsAgree
  <2> SUFFICES ASSUME paced, Settled PROVE Agree(Peer)
    BY DEF SettledClipboardsAgree, Agree
  <2>1. ASSUME NEW p \in Peer, Copied(p) PROVE FALSE
    <3>1. notices[p] = 0 /\ notices[p] = 1
      BY <2>1 DEF Settled, Copied
    <3> QED BY <3>1
  <2> QED BY <1>1, <2>1, WavePasses DEF PacedInv, Idle
<1> QED BY <1>1, InitType, NextType, PacedInit, PacedNext, PTL DEF Spec
=============================================================================
