--------------------------- MODULE PeerLinksProofs ---------------------------
(***************************************************************************)
(* Proofs about PeerLinks, for any number of machines and connections and  *)
(* whoever crashes when: each open end of a connection has one owner, and  *)
(* a link registered under a peer's id ends at that peer.                  *)
(*                                                                         *)
(* An end moves from the handshake to the hand-over, the pending links,    *)
(* the links poll looks at, and the registered ones.  The invariant says   *)
(* of these five places that they are disjoint, that none holds an end     *)
(* twice, and that together they hold the ends that are open.              *)
(***************************************************************************)
EXTENDS PeerLinks, SequenceTheorems, FiniteSetTheorems, TLAPS

In(s) == {s[i] : i \in DOMAIN s}
NoRepeat(s) == \A i, j \in DOMAIN s : s[i] = s[j] => i = j

Shaking(p) == IF inbound[p] = NoConn THEN {} ELSE {inbound[p]}
Registered(p) == {linked[p][q] : q \in Peer} \ {NoConn}

LinksTyped ==
  /\ conn \in [Conn -> [dialer : Peer \cup {NoPeer}, acceptor : Peer \cup {NoPeer},
                        expected : Peer \cup {NoPeer}]]
  /\ shut \in [Conn -> SUBSET Peer]
  /\ eof \in [Peer -> SUBSET Conn]
  /\ dialing \in [Peer -> Peer \cup {NoPeer}]
  /\ inbound \in [Peer -> Conn \cup {NoConn}]
  /\ handoff \in [Peer -> Seq(Conn)] /\ pending \in [Peer -> Seq(Conn)]
  /\ todo \in [Peer -> Seq(Conn)]
  /\ polling \in SUBSET Peer
  /\ linked \in [Peer -> [Peer -> Conn \cup {NoConn}]]

(* A connection has two ends; a number that is free has none closed. *)
TwoEnds ==
  \A c \in Conn :
    IF InUse(c)
    THEN conn[c].dialer \in Peer /\ conn[c].acceptor \in Peer /\ conn[c].dialer # conn[c].acceptor
    ELSE shut[c] = {}

Disjoint(A, B) == A \cap B = {}
Apart(A, B, C, D, E) ==
  /\ Disjoint(A, B) /\ Disjoint(A, C) /\ Disjoint(A, D) /\ Disjoint(A, E)
  /\ Disjoint(B, C) /\ Disjoint(B, D) /\ Disjoint(B, E)
  /\ Disjoint(C, D) /\ Disjoint(C, E) /\ Disjoint(D, E)

OnePlace(p) ==
  /\ NoRepeat(handoff[p]) /\ NoRepeat(pending[p]) /\ NoRepeat(todo[p])
  /\ Apart(Shaking(p), In(handoff[p]), In(pending[p]), In(todo[p]), Registered(p))
  /\ Owned(p) = Shaking(p) \cup In(handoff[p]) \cup In(pending[p]) \cup In(todo[p])
                  \cup Registered(p)

(* PumpRegister would lose what is left to look at. *)
NothingLeft(p) == p \notin polling => todo[p] = <<>>

Genuine(p) ==
  \A q \in Peer : IsConnected(p, q) => InUse(linked[p][q]) /\ Ends(linked[p][q]) = {p, q}

LinksInv ==
  /\ LinksTyped /\ TwoEnds
  /\ \A p \in Peer : OnePlace(p) /\ NothingLeft(p) /\ Genuine(p)
----------------------------------------------------------------------------
(* Sequences that do not repeat themselves. *)

LEMMA InEmpty == In(<<>>) = {} /\ NoRepeat(<<>>)
BY DEF In, NoRepeat

LEMMA InAppend ==
  ASSUME NEW S, NEW s \in Seq(S), NEW e \in S
  PROVE  /\ Append(s, e) \in Seq(S)
         /\ In(Append(s, e)) = In(s) \cup {e}
         /\ NoRepeat(s) /\ e \notin In(s) => NoRepeat(Append(s, e))
<1>1. /\ Append(s, e) \in Seq(S) /\ Len(Append(s, e)) = Len(s) + 1 /\ Len(s) \in Nat
      /\ \A i \in 1..Len(s) : Append(s, e)[i] = s[i]
      /\ Append(s, e)[Len(s) + 1] = e
      /\ DOMAIN s = 1..Len(s) /\ DOMAIN Append(s, e) = 1..(Len(s) + 1)
  BY AppendProperties, LenProperties
<1>2. In(Append(s, e)) = In(s) \cup {e}
  <2>1. ASSUME NEW x \in In(Append(s, e)) PROVE x \in In(s) \cup {e}
    BY <1>1 DEF In
  <2>2. ASSUME NEW x \in In(s) \cup {e} PROVE x \in In(Append(s, e))
    <3>1. CASE x = e
      BY <1>1, <3>1 DEF In
    <3>2. CASE x \in In(s)
      <4>1. PICK i \in 1..Len(s) : x = s[i]
        BY <1>1, <3>2 DEF In
      <4>2. i \in DOMAIN Append(s, e) /\ Append(s, e)[i] = x
        BY <1>1, <4>1
      <4> QED BY <4>2 DEF In
    <3> QED BY <3>1, <3>2
  <2> QED BY <2>1, <2>2
<1>3. ASSUME NoRepeat(s), e \notin In(s) PROVE NoRepeat(Append(s, e))
  <2> SUFFICES ASSUME NEW i \in 1..(Len(s) + 1), NEW j \in 1..(Len(s) + 1),
                      Append(s, e)[i] = Append(s, e)[j]
               PROVE  i = j
    BY <1>1 DEF NoRepeat
  <2>1. \A k \in 1..Len(s) : s[k] # e
    BY <1>1, <1>3 DEF In
  <2>2. CASE i \in 1..Len(s) /\ j \in 1..Len(s)
    BY <1>1, <1>3, <2>2 DEF NoRepeat
  <2>3. CASE i \in 1..Len(s) /\ j = Len(s) + 1
    BY <1>1, <2>1, <2>3
  <2>4. CASE i = Len(s) + 1 /\ j \in 1..Len(s)
    BY <1>1, <2>1, <2>4
  <2> QED BY <1>1, <2>2, <2>3, <2>4
<1> QED BY <1>1, <1>2, <1>3

LEMMA InTail ==
  ASSUME NEW S, NEW s \in Seq(S), s # <<>>, NoRepeat(s)
  PROVE  /\ Head(s) \in In(s) /\ Head(s) \in S
         /\ Tail(s) \in Seq(S)
         /\ In(Tail(s)) = In(s) \ {Head(s)}
         /\ NoRepeat(Tail(s))
<1>1. /\ Len(s) \in Nat \ {0} /\ DOMAIN s = 1..Len(s)
      /\ Head(s) = s[1] /\ Head(s) \in S
  BY EmptySeq, LenProperties, HeadTailProperties
<1>2. /\ Tail(s) \in Seq(S) /\ Len(Tail(s)) = Len(s) - 1
      /\ DOMAIN Tail(s) = 1..(Len(s) - 1)
      /\ \A i \in 1..(Len(s) - 1) : Tail(s)[i] = s[i + 1]
  BY HeadTailProperties, LenProperties
<1>3. Head(s) \in In(s)
  BY <1>1 DEF In
<1>4. In(Tail(s)) = In(s) \ {Head(s)}
  <2>1. ASSUME NEW x \in In(Tail(s)) PROVE x \in In(s) \ {Head(s)}
    <3>1. PICK i \in 1..(Len(s) - 1) : x = Tail(s)[i]
      BY <1>2, <2>1 DEF In
    <3>2. x = s[i + 1] /\ i + 1 \in DOMAIN s /\ 1 \in DOMAIN s /\ i + 1 # 1
      BY <1>1, <1>2, <3>1
    <3> QED BY <1>1, <3>2 DEF In, NoRepeat
  <2>2. ASSUME NEW x \in In(s) \ {Head(s)} PROVE x \in In(Tail(s))
    <3>1. PICK i \in 1..Len(s) : x = s[i]
      BY <1>1, <2>2 DEF In
    <3>2. i - 1 \in 1..(Len(s) - 1) /\ Tail(s)[i - 1] = x
      BY <1>1, <1>2, <2>2, <3>1
    <3> QED BY <1>2, <3>2 DEF In
  <2> QED BY <2>1, <2>2
<1>5. NoRepeat(Tail(s))
  <2> SUFFICES ASSUME NEW i \in 1..(Len(s) - 1), NEW j \in 1..(Len(s) - 1),
                      Tail(s)[i] = Tail(s)[j]
               PROVE  i = j
    BY <1>2 DEF NoRepeat
  <2>1. i + 1 \in DOMAIN s /\ j + 1 \in DOMAIN s /\ s[i + 1] = s[j + 1]
    BY <1>1, <1>2
  <2> QED BY <2>1 DEF NoRepeat
<1> QED BY <1>1, <1>2, <1>3, <1>4, <1>5

LEMMA InConcat ==
  ASSUME NEW S, NEW s \in Seq(S), NEW t \in Seq(S)
  PROVE  /\ s \o t \in Seq(S)
         /\ In(s \o t) = In(s) \cup In(t)
         /\ NoRepeat(s) /\ NoRepeat(t) /\ Disjoint(In(s), In(t)) => NoRepeat(s \o t)
<1> DEFINE m == Len(s)
           n == Len(t)
<1>1. /\ s \o t \in Seq(S) /\ m \in Nat /\ n \in Nat
      /\ DOMAIN s = 1..m /\ DOMAIN t = 1..n /\ DOMAIN (s \o t) = 1..(m + n)
      /\ \A i \in 1..m : (s \o t)[i] = s[i]
      /\ \A i \in 1..n : (s \o t)[m + i] = t[i]
  <2>1. Len(s \o t) = m + n /\ s \o t \in Seq(S) /\ m \in Nat /\ n \in Nat
    BY ConcatProperties, LenProperties
  <2>2. \A i \in 1..(m + n) : (s \o t)[i] = IF i <= m THEN s[i] ELSE t[i - m]
    BY ConcatProperties
  <2>3. DOMAIN s = 1..m /\ DOMAIN t = 1..n /\ DOMAIN (s \o t) = 1..(m + n)
    BY <2>1, LenProperties
  <2> HIDE DEF m, n
  <2>4. \A i \in 1..m : i \in 1..(m + n) /\ i <= m
    BY <2>1
  <2>5. \A i \in 1..n : m + i \in 1..(m + n) /\ ~(m + i <= m) /\ (m + i) - m = i
    BY <2>1
  <2> QED BY <2>1, <2>2, <2>3, <2>4, <2>5
<1> HIDE DEF m, n
<1>2. \A k \in 1..(m + n) : k \in 1..m \/ \E i \in 1..n : k = m + i
  <2> SUFFICES ASSUME NEW k \in 1..(m + n), k \notin 1..m PROVE \E i \in 1..n : k = m + i
    OBVIOUS
  <2>1. k - m \in 1..n /\ k = m + (k - m)
    BY <1>1
  <2> QED BY <2>1
<1>3. In(s \o t) = In(s) \cup In(t)
  <2>1. ASSUME NEW x \in In(s \o t) PROVE x \in In(s) \cup In(t)
    <3>1. PICK k \in 1..(m + n) : x = (s \o t)[k]
      BY <1>1, <2>1 DEF In
    <3> QED BY <1>1, <1>2, <3>1 DEF In
  <2>2. ASSUME NEW x \in In(s) PROVE x \in In(s \o t)
    <3>1. PICK i \in 1..m : x = s[i]
      BY <1>1, <2>2 DEF In
    <3>2. i \in 1..(m + n) /\ (s \o t)[i] = x
      BY <1>1, <3>1
    <3> QED BY <1>1, <3>2 DEF In
  <2>3. ASSUME NEW x \in In(t) PROVE x \in In(s \o t)
    <3>1. PICK i \in 1..n : x = t[i]
      BY <1>1, <2>3 DEF In
    <3>2. m + i \in 1..(m + n) /\ (s \o t)[m + i] = x
      BY <1>1, <3>1
    <3> QED BY <1>1, <3>2 DEF In
  <2> QED BY <2>1, <2>2, <2>3
<1>4. ASSUME NoRepeat(s), NoRepeat(t), Disjoint(In(s), In(t)) PROVE NoRepeat(s \o t)
  <2> SUFFICES ASSUME NEW i \in 1..(m + n), NEW j \in 1..(m + n), (s \o t)[i] = (s \o t)[j]
               PROVE  i = j
    BY <1>1 DEF NoRepeat
  <2>1. \A k \in 1..m, l \in 1..n : s[k] # t[l]
    BY <1>1, <1>4 DEF In, Disjoint
  <2>2. CASE i \in 1..m /\ j \in 1..m
    BY <1>1, <1>4, <2>2 DEF NoRepeat
  <2>3. CASE i \in 1..m /\ \E l \in 1..n : j = m + l
    BY <1>1, <2>1, <2>3
  <2>4. CASE j \in 1..m /\ \E l \in 1..n : i = m + l
    BY <1>1, <2>1, <2>4
  <2>5. ASSUME NEW k \in 1..n, NEW l \in 1..n, i = m + k, j = m + l PROVE i = j
    <3>1. t[k] = t[l]
      BY <1>1, <2>5
    <3> QED BY <1>1, <1>4, <2>5, <3>1 DEF NoRepeat
  <2> QED BY <1>2, <2>2, <2>3, <2>4, <2>5
<1> QED BY <1>1, <1>3, <1>4
----------------------------------------------------------------------------
(* Connections. *)

LEMMA OwnedEnds ==
  ASSUME LinksInv, NEW p \in Peer, NEW c \in Owned(p)
  PROVE  /\ c \in Conn /\ InUse(c) /\ p \notin shut[c]
         /\ OtherEnd(c, p) \in Peer /\ OtherEnd(c, p) # p /\ Ends(c) = {p, OtherEnd(c, p)}
<1>1. c \in Conn /\ InUse(c) /\ p \in {conn[c].dialer, conn[c].acceptor} /\ p \notin shut[c]
  BY DEF Owned, Ends
<1>2. /\ conn[c].dialer \in Peer /\ conn[c].acceptor \in Peer
      /\ conn[c].dialer # conn[c].acceptor
  BY <1>1 DEF LinksInv, TwoEnds
<1> QED BY <1>1, <1>2 DEF OtherEnd, Ends

(* Closing ends takes them, and no others, from those that are open. *)
LEMMA CloseKeeps ==
  ASSUME LinksInv, NEW p \in Peer, NEW cs \in SUBSET Owned(p), CloseEnds(p, cs)
  PROVE  /\ conn' \in [Conn -> [dialer : Peer \cup {NoPeer}, acceptor : Peer \cup {NoPeer},
                                 expected : Peer \cup {NoPeer}]]
         /\ shut' \in [Conn -> SUBSET Peer]
         /\ TwoEnds'
         /\ Owned(p)' = Owned(p) \ cs
         /\ \A r \in Peer : r # p => Owned(r)' = Owned(r)
         /\ \A r \in Peer : \A c \in Owned(r)' : conn'[c] = conn[c]
<1> DEFINE gone == {c \in cs : shut[c] \cup {p} = Ends(c)}
<1>1. /\ cs \subseteq Conn /\ gone \subseteq cs
      /\ conn' = [c \in Conn |-> IF c \in gone THEN Unused ELSE conn[c]]
      /\ shut' = [c \in Conn |-> CASE c \in gone -> {}
                                   [] c \in cs \ gone -> shut[c] \cup {p}
                                   [] OTHER -> shut[c]]
  BY DEF CloseEnds, Owned
<1>2. \A c \in Conn : /\ conn'[c] = IF c \in gone THEN Unused ELSE conn[c]
                      /\ shut'[c] = IF c \in gone THEN {}
                                    ELSE IF c \in cs THEN shut[c] \cup {p} ELSE shut[c]
  BY <1>1
<1>3. \A c \in gone : shut[c] \cup {p} = Ends(c)
  OBVIOUS
<1>4. \A c \in cs : InUse(c) /\ p \in Ends(c)
  BY DEF Owned
<1> HIDE DEF gone
<1>5. /\ conn' \in [Conn -> [dialer : Peer \cup {NoPeer}, acceptor : Peer \cup {NoPeer},
                              expected : Peer \cup {NoPeer}]]
      /\ shut' \in [Conn -> SUBSET Peer]
  <2>1. /\ conn \in [Conn -> [dialer : Peer \cup {NoPeer}, acceptor : Peer \cup {NoPeer},
                               expected : Peer \cup {NoPeer}]]
        /\ shut \in [Conn -> SUBSET Peer]
    BY DEF LinksInv, LinksTyped
  <2>2. Unused \in [dialer : Peer \cup {NoPeer}, acceptor : Peer \cup {NoPeer},
                    expected : Peer \cup {NoPeer}]
    BY DEF Unused
  <2>3. conn' \in [Conn -> [dialer : Peer \cup {NoPeer}, acceptor : Peer \cup {NoPeer},
                            expected : Peer \cup {NoPeer}]]
    BY <1>1, <2>1, <2>2
  <2>4. \A c \in Conn : shut'[c] \in SUBSET Peer
    BY <1>2, <2>1
  <2>5. shut' = [c \in Conn |-> shut'[c]]
    BY <1>1
  <2> QED BY <2>3, <2>4, <2>5
<1>6. TwoEnds'
  <2> SUFFICES ASSUME NEW c \in Conn
               PROVE  IF InUse(c)'
                      THEN /\ conn'[c].dialer \in Peer /\ conn'[c].acceptor \in Peer
                           /\ conn'[c].dialer # conn'[c].acceptor
                      ELSE shut'[c] = {}
    BY DEF TwoEnds
  <2>1. CASE c \in gone
    <3>1. conn'[c] = Unused /\ shut'[c] = {}
      BY <1>2, <2>1
    <3> QED BY <3>1 DEF InUse, Unused
  <2>2. CASE c \notin gone
    <3>1. conn'[c] = conn[c] /\ (c \notin cs => shut'[c] = shut[c])
      BY <1>2, <2>2
    <3> QED BY <1>4, <3>1 DEF LinksInv, TwoEnds, InUse, Unused
  <2> QED BY <2>1, <2>2
<1>7. ASSUME NEW r \in Peer, NEW c \in Conn, c \notin gone, c \in cs => r # p
      PROVE  c \in Owned(r)' <=> c \in Owned(r)
  <2>1. conn'[c] = conn[c] /\ (r \in shut'[c] <=> r \in shut[c])
    BY <1>2, <1>7
  <2> QED BY <2>1 DEF Owned, InUse, Ends, Unused
<1>8. ASSUME NEW r \in Peer, NEW c \in gone PROVE c \notin Owned(r)' /\ (r # p => c \notin Owned(r))
  <2>1. conn'[c] = Unused
    BY <1>1, <1>2
  <2>2. c \notin Owned(r)'
    BY <2>1 DEF Owned, InUse, Unused
  <2>3. r # p => c \notin Owned(r)
    BY <1>3 DEF Owned
  <2> QED BY <2>2, <2>3
<1>9. ASSUME NEW c \in cs, c \notin gone PROVE c \notin Owned(p)'
  <2>1. p \in shut'[c]
    BY <1>1, <1>2, <1>9
  <2> QED BY <2>1 DEF Owned
<1>10. \A r \in Peer : Owned(r) \subseteq Conn /\ Owned(r)' \subseteq Conn
  BY DEF Owned
<1>11. Owned(p)' = Owned(p) \ cs
  BY <1>1, <1>7, <1>8, <1>9, <1>10
<1>12. ASSUME NEW r \in Peer, r # p PROVE Owned(r)' = Owned(r)
  BY <1>1, <1>7, <1>8, <1>10, <1>12
<1>13. ASSUME NEW r \in Peer, NEW c \in Owned(r)' PROVE conn'[c] = conn[c]
  BY <1>2, <1>8, <1>10
<1> QED BY <1>5, <1>6, <1>11, <1>12, <1>13
----------------------------------------------------------------------------
(* Steps, seen from one machine. *)

(* The links that stay registered stay what they are. *)
LEMMA GenuineKeeps ==
  ASSUME LinksInv, NEW r \in Peer, OnePlace(r)',
         \A q \in Peer : linked'[r][q] \in {linked[r][q], NoConn},
         \A c \in Owned(r)' : conn'[c] = conn[c]
  PROVE  Genuine(r)'
<1> SUFFICES ASSUME NEW q \in Peer, linked'[r][q] # NoConn
             PROVE  InUse(linked[r][q])' /\ Ends(linked[r][q])' = {r, q}
  BY DEF Genuine, IsConnected
<1> DEFINE c == linked[r][q]
<1>1. linked'[r][q] = c /\ c # NoConn
  OBVIOUS
<1>2. InUse(c) /\ Ends(c) = {r, q}
  BY <1>1 DEF LinksInv, Genuine, IsConnected
<1>3. c \in Owned(r)'
  BY <1>1 DEF OnePlace, Registered
<1>4. conn'[c] = conn[c]
  BY <1>3
<1> HIDE DEF c
<1> QED BY <1>1, <1>2, <1>4 DEF InUse, Ends, Unused

(* A machine of which a step changes nothing. *)
LEMMA Untouched ==
  ASSUME LinksInv, NEW r \in Peer,
         inbound'[r] = inbound[r], handoff'[r] = handoff[r], pending'[r] = pending[r],
         todo'[r] = todo[r], linked'[r] = linked[r], r \in polling => r \in polling',
         Owned(r)' = Owned(r), \A c \in Owned(r)' : conn'[c] = conn[c]
  PROVE  OnePlace(r)' /\ NothingLeft(r)' /\ Genuine(r)'
<1>1. OnePlace(r)' /\ NothingLeft(r)'
  <2>1. Shaking(r)' = Shaking(r) /\ Registered(r)' = Registered(r)
    BY DEF Shaking, Registered
  <2>2. OnePlace(r) /\ NothingLeft(r)
    BY DEF LinksInv
  <2>3. OnePlace(r)'
    BY <2>1, <2>2 DEF OnePlace, Apart
  <2> QED BY <2>2, <2>3 DEF NothingLeft
<1> QED BY <1>1, GenuineKeeps

(* A step that changes no connection. *)
LEMMA SameConnections ==
  ASSUME LinksInv, UNCHANGED <<conn, shut>>
  PROVE  /\ TwoEnds'
         /\ \A r \in Peer : Owned(r)' = Owned(r) /\ \A c \in Owned(r)' : conn'[c] = conn[c]
BY DEF LinksInv, TwoEnds, Owned, InUse, Ends, Unused

LEMMA QuietKeeps ==
  ASSUME LinksInv, UNCHANGED <<conn, shut, eof, inbound, handoff, pending, todo, polling, linked>>,
         dialing' \in [Peer -> Peer \cup {NoPeer}]
  PROVE  LinksInv'
<1>1. LinksTyped'
  BY DEF LinksInv, LinksTyped
<1> QED BY <1>1, SameConnections, Untouched DEF LinksInv

LEMMA DialKeeps ==
  ASSUME LinksInv, NEW p \in Peer,
         DialFails(p) \/ \E q \in Peer : StartDial(p, q)
  PROVE  LinksInv'
<1>1. dialing' \in [Peer -> Peer \cup {NoPeer}]
  BY ZenonT(30) DEF DialFails, StartDial, LinksInv, LinksTyped
<1> QED BY <1>1, QuietKeeps DEF DialFails, StartDial, pollVars

LEMMA ConnectKeeps ==
  ASSUME LinksInv, NEW p \in Peer, NEW r \in Peer, NEW c \in Conn, Connect(p, r, c)
  PROVE  LinksInv'
<1> USE DEF pollVars
<1>1. /\ conn' = [conn EXCEPT ![c] = [dialer |-> p, acceptor |-> r, expected |-> dialing[p]]]
      /\ dialing' = [dialing EXCEPT ![p] = NoPeer]
      /\ handoff' = [handoff EXCEPT ![p] = Append(handoff[p], c)]
      /\ inbound' = [inbound EXCEPT ![r] = c]
      /\ UNCHANGED <<shut, eof, pending, todo, polling, linked>>
      /\ p # r /\ ~InUse(c) /\ inbound[r] = NoConn /\ dialing[p] \in Peer
  BY DEF Connect, NetIdle, LinksInv, LinksTyped
<1>2. NoPeer \notin Peer /\ NoConn \notin Conn
  BY LinksAssumption
<1>3. Append(handoff[p], c) \in Seq(Conn)
  BY InAppend DEF LinksInv, LinksTyped
<1>4. LinksTyped'
  BY <1>1, <1>3 DEF LinksInv, LinksTyped
<1>5. /\ conn'[c] = [dialer |-> p, acceptor |-> r, expected |-> dialing[p]]
      /\ \A d \in Conn : d # c => conn'[d] = conn[d]
      /\ shut[c] = {} /\ shut' = shut
  BY <1>1 DEF LinksInv, LinksTyped, TwoEnds
<1>6. InUse(c)' /\ Ends(c)' = {p, r}
  BY <1>2, <1>5 DEF InUse, Unused, Ends
<1>7. TwoEnds'
  BY <1>1, <1>5, <1>6 DEF LinksInv, TwoEnds, InUse, Unused
<1>8. \A x \in Peer : /\ c \notin Owned(x)
                      /\ c \in Owned(x)' <=> x \in {p, r}
                      /\ \A d \in Conn : d # c => (d \in Owned(x)' <=> d \in Owned(x))
  BY <1>1, <1>5, <1>6 DEF Owned, InUse, Ends, Unused
<1>9. \A x \in Peer : Owned(x) \subseteq Conn /\ Owned(x)' \subseteq Conn
  BY DEF Owned
<1>10. \A x \in Peer : /\ Owned(x)' = IF x \in {p, r} THEN Owned(x) \cup {c} ELSE Owned(x)
                       /\ \A d \in Owned(x) : d \in Owned(x)' /\ conn'[d] = conn[d]
  BY <1>5, <1>8, <1>9
<1>11. ASSUME NEW x \in Peer, x \notin {p, r}
       PROVE  OnePlace(x)' /\ NothingLeft(x)' /\ Genuine(x)'
  <2>1. inbound'[x] = inbound[x] /\ handoff'[x] = handoff[x]
    BY <1>1, <1>11 DEF LinksInv, LinksTyped
  <2> QED BY <1>1, <1>10, <1>11, <2>1, Untouched
<1>12. OnePlace(p)'
  <2>1. /\ Shaking(p)' = Shaking(p) /\ Registered(p)' = Registered(p)
        /\ handoff'[p] = Append(handoff[p], c) /\ handoff[p] \in Seq(Conn)
    BY <1>1 DEF LinksInv, LinksTyped, Shaking, Registered
  <2>2. /\ In(handoff'[p]) = In(handoff[p]) \cup {c}
        /\ c \notin In(handoff[p]) => NoRepeat(handoff'[p])
    BY <2>1, InAppend DEF LinksInv, OnePlace
  <2>3. OnePlace(p)
    BY DEF LinksInv
  <2> QED BY <1>1, <1>8, <1>10, <2>1, <2>2, <2>3 DEF OnePlace, Apart, Disjoint
<1>13. OnePlace(r)'
  <2>1. /\ Shaking(r)' = {c} /\ Shaking(r) = {} /\ Registered(r)' = Registered(r)
        /\ handoff'[r] = handoff[r]
    BY <1>1, <1>2 DEF LinksInv, LinksTyped, Shaking, Registered
  <2>2. OnePlace(r)
    BY DEF LinksInv
  <2> QED BY <1>1, <1>8, <1>10, <2>1, <2>2 DEF OnePlace, Apart, Disjoint
<1>14. ASSUME NEW x \in {p, r} PROVE NothingLeft(x)' /\ Genuine(x)'
  <2>1. NothingLeft(x)'
    BY <1>1, <1>14 DEF LinksInv, NothingLeft
  <2> SUFFICES ASSUME NEW q \in Peer, linked[x][q] # NoConn
               PROVE  InUse(linked[x][q])' /\ Ends(linked[x][q])' = {x, q}
    BY <1>1, <2>1 DEF Genuine, IsConnected
  <2>2. /\ linked[x][q] \in Owned(x)
        /\ InUse(linked[x][q]) /\ Ends(linked[x][q]) = {x, q}
    <3>1. x \in Peer
      BY <1>14
    <3>2. linked[x][q] \in Registered(x) /\ OnePlace(x) /\ Genuine(x)
      BY <3>1 DEF LinksInv, Registered
    <3> QED BY <3>2 DEF OnePlace, Genuine, IsConnected
  <2>3. conn'[linked[x][q]] = conn[linked[x][q]] /\ linked' = linked
    BY <1>1, <1>10, <2>2
  <2> QED BY <2>2, <2>3 DEF InUse, Ends, Unused
<1> QED BY <1>4, <1>7, <1>11, <1>12, <1>13, <1>14 DEF LinksInv

(* What is left to show of a step of the threads of p. *)
LEMMA ActorSuffices ==
  ASSUME LinksInv, NEW p \in Peer, LinksTyped', TwoEnds',
         \A r \in Peer : r # p =>
           /\ inbound'[r] = inbound[r] /\ handoff'[r] = handoff[r] /\ pending'[r] = pending[r]
           /\ todo'[r] = todo[r] /\ linked'[r] = linked[r] /\ (r \in polling => r \in polling')
           /\ Owned(r)' = Owned(r),
         \A r \in Peer : \A c \in Owned(r)' : conn'[c] = conn[c],
         OnePlace(p)', NothingLeft(p)', Genuine(p)'
  PROVE  LinksInv'
<1>1. ASSUME NEW r \in Peer, r # p PROVE OnePlace(r)' /\ NothingLeft(r)' /\ Genuine(r)'
  BY <1>1, Untouched
<1> QED BY <1>1 DEF LinksInv

LEMMA HandshakeOkKeeps ==
  ASSUME LinksInv, NEW p \in Peer, HandshakeOk(p)
  PROVE  LinksInv'
<1> DEFINE c == inbound[p]
<1>1. /\ c # NoConn
      /\ handoff' = [handoff EXCEPT ![p] = Append(handoff[p], c)]
      /\ inbound' = [inbound EXCEPT ![p] = NoConn]
      /\ UNCHANGED <<conn, shut, eof, dialing, pending, todo, polling, linked>>
  BY DEF HandshakeOk, pollVars
<1>2. c \in Conn /\ handoff[p] \in Seq(Conn) /\ OnePlace(p) /\ NothingLeft(p)
  BY <1>1 DEF LinksInv, LinksTyped
<1>3. /\ Append(handoff[p], c) \in Seq(Conn)
      /\ In(Append(handoff[p], c)) = In(handoff[p]) \cup {c}
      /\ NoRepeat(handoff[p]) /\ c \notin In(handoff[p]) => NoRepeat(Append(handoff[p], c))
  BY <1>2, InAppend
<1>4. Shaking(p) = {c} /\ inbound'[p] = NoConn /\ handoff'[p] = Append(handoff[p], c)
  BY <1>1 DEF Shaking, LinksInv, LinksTyped
<1> HIDE DEF c
<1>5. LinksTyped'
  BY <1>1, <1>3 DEF LinksInv, LinksTyped
<1>6. OnePlace(p)'
  <2>1. Shaking(p)' = {} /\ Registered(p)' = Registered(p) /\ Owned(p)' = Owned(p)
    BY <1>1, <1>4, SameConnections DEF Shaking, Registered
  <2> QED BY <1>1, <1>2, <1>3, <1>4, <2>1 DEF OnePlace, Apart, Disjoint
<1>7. NothingLeft(p)' /\ Genuine(p)'
  BY <1>1, <1>2, <1>6, SameConnections, GenuineKeeps DEF NothingLeft
<1>8. \A r \in Peer : r # p => inbound'[r] = inbound[r] /\ handoff'[r] = handoff[r]
  BY <1>1 DEF LinksInv, LinksTyped
<1> QED BY <1>1, <1>5, <1>6, <1>7, <1>8, SameConnections, ActorSuffices

LEMMA HandshakeFailsKeeps ==
  ASSUME LinksInv, NEW p \in Peer, HandshakeFails(p)
  PROVE  LinksInv'
<1> DEFINE c == inbound[p]
<1>1. /\ c # NoConn /\ CloseEnds(p, {c})
      /\ inbound' = [inbound EXCEPT ![p] = NoConn]
      /\ UNCHANGED <<eof, dialing, handoff, pending, todo, polling, linked>>
  BY DEF HandshakeFails, Drop, pollVars
<1>2. OnePlace(p) /\ NothingLeft(p)
  BY DEF LinksInv
<1>3. Shaking(p) = {c} /\ inbound'[p] = NoConn /\ {c} \in SUBSET Owned(p)
  BY <1>1, <1>2 DEF Shaking, OnePlace, LinksInv, LinksTyped
<1> HIDE DEF c
<1>4. LinksTyped' /\ TwoEnds'
  BY <1>1, <1>3, CloseKeeps DEF LinksInv, LinksTyped
<1>5. OnePlace(p)'
  <2>1. Shaking(p)' = {} /\ Registered(p)' = Registered(p) /\ Owned(p)' = Owned(p) \ {c}
    BY <1>1, <1>3, CloseKeeps DEF Shaking, Registered
  <2> QED BY <1>1, <1>2, <1>3, <2>1 DEF OnePlace, Apart, Disjoint
<1>6. NothingLeft(p)' /\ Genuine(p)'
  <2>1. \A d \in Owned(p)' : conn'[d] = conn[d]
    BY <1>1, <1>3, CloseKeeps
  <2> QED BY <1>1, <1>2, <1>5, <2>1, GenuineKeeps DEF NothingLeft
<1>7. \A r \in Peer : r # p => inbound'[r] = inbound[r]
  BY <1>1 DEF LinksInv, LinksTyped
<1>8. /\ \A r \in Peer : r # p => Owned(r)' = Owned(r)
      /\ \A r \in Peer : \A d \in Owned(r)' : conn'[d] = conn[d]
  BY <1>1, <1>3, CloseKeeps
<1> QED BY <1>1, <1>4, <1>5, <1>6, <1>7, <1>8, ActorSuffices

LEMMA PumpRegisterKeeps ==
  ASSUME LinksInv, NEW p \in Peer, PumpRegister(p)
  PROVE  LinksInv'
<1>1. /\ p \notin polling /\ polling' = polling \cup {p}
      /\ todo' = [todo EXCEPT ![p] = pending[p] \o handoff[p]]
      /\ pending' = [pending EXCEPT ![p] = <<>>]
      /\ handoff' = [handoff EXCEPT ![p] = <<>>]
      /\ UNCHANGED <<conn, shut, eof, dialing, inbound, linked>>
  BY DEF PumpRegister
<1>2. /\ pending[p] \in Seq(Conn) /\ handoff[p] \in Seq(Conn) /\ OnePlace(p)
      /\ todo[p] = <<>>
  BY <1>1 DEF LinksInv, LinksTyped, NothingLeft
<1>3. /\ pending[p] \o handoff[p] \in Seq(Conn)
      /\ In(pending[p] \o handoff[p]) = In(pending[p]) \cup In(handoff[p])
      /\ NoRepeat(pending[p] \o handoff[p])
  BY <1>2, InConcat DEF OnePlace, Apart, Disjoint
<1>4. pending'[p] = <<>> /\ handoff'[p] = <<>> /\ todo'[p] = pending[p] \o handoff[p]
  BY <1>1 DEF LinksInv, LinksTyped
<1>5. LinksTyped'
  BY <1>1, <1>3, EmptySeq DEF LinksInv, LinksTyped
<1>6. OnePlace(p)'
  <2>1. Shaking(p)' = Shaking(p) /\ Registered(p)' = Registered(p) /\ Owned(p)' = Owned(p)
    BY <1>1, SameConnections DEF Shaking, Registered
  <2> QED BY <1>2, <1>3, <1>4, <2>1, InEmpty DEF OnePlace, Apart, Disjoint
<1>7. NothingLeft(p)' /\ Genuine(p)'
  BY <1>1, <1>6, SameConnections, GenuineKeeps DEF NothingLeft
<1>8. \A r \in Peer : r # p =>
        todo'[r] = todo[r] /\ pending'[r] = pending[r] /\ handoff'[r] = handoff[r]
  BY <1>1 DEF LinksInv, LinksTyped
<1> QED BY <1>1, <1>5, <1>6, <1>7, <1>8, SameConnections, ActorSuffices
----------------------------------------------------------------------------
(* The steps of poll.  Each takes the next link from those to look at. *)

LEMMA NextLink ==
  ASSUME LinksInv, NEW p \in Peer, todo[p] # <<>>, todo' = [todo EXCEPT ![p] = Tail(todo[p])]
  PROVE  /\ Head(todo[p]) \in In(todo[p]) /\ Head(todo[p]) \in Owned(p)
         /\ Head(todo[p]) \in Conn
         /\ todo' \in [Peer -> Seq(Conn)]
         /\ In(todo'[p]) = In(todo[p]) \ {Head(todo[p])} /\ NoRepeat(todo'[p])
         /\ \A r \in Peer : r # p => todo'[r] = todo[r]
         /\ p \in polling
<1>1. todo[p] \in Seq(Conn) /\ todo \in [Peer -> Seq(Conn)] /\ OnePlace(p) /\ NothingLeft(p)
  BY DEF LinksInv, LinksTyped
<1>2. NoRepeat(todo[p])
  BY <1>1 DEF OnePlace
<1>3. /\ Head(todo[p]) \in In(todo[p]) /\ Head(todo[p]) \in Conn
      /\ Tail(todo[p]) \in Seq(Conn)
      /\ In(Tail(todo[p])) = In(todo[p]) \ {Head(todo[p])}
      /\ NoRepeat(Tail(todo[p]))
  BY <1>1, <1>2, InTail
<1>4. todo'[p] = Tail(todo[p]) /\ \A r \in Peer : r # p => todo'[r] = todo[r]
  BY <1>1
<1>5. Head(todo[p]) \in Owned(p) /\ p \in polling
  BY <1>1, <1>3 DEF OnePlace, NothingLeft
<1> QED BY <1>1, <1>3, <1>4, <1>5

LEMMA PollWaitsKeeps ==
  ASSUME LinksInv, NEW p \in Peer, PollWaits(p)
  PROVE  LinksInv'
<1> DEFINE c == Head(todo[p])
<1>1. /\ todo[p] # <<>> /\ todo' = [todo EXCEPT ![p] = Tail(todo[p])]
      /\ pending' = [pending EXCEPT ![p] = Append(pending[p], c)]
      /\ UNCHANGED <<conn, shut, eof, dialing, inbound, handoff, polling, linked>>
  BY DEF PollWaits, netVars
<1>2. /\ c \in In(todo[p]) /\ c \in Conn /\ todo' \in [Peer -> Seq(Conn)]
      /\ In(todo'[p]) = In(todo[p]) \ {c} /\ NoRepeat(todo'[p])
      /\ \A r \in Peer : r # p => todo'[r] = todo[r]
      /\ p \in polling
  BY <1>1, NextLink
<1> HIDE DEF c
<1>3. pending[p] \in Seq(Conn) /\ OnePlace(p)
  BY DEF LinksInv, LinksTyped
<1>4. /\ Append(pending[p], c) \in Seq(Conn)
      /\ In(Append(pending[p], c)) = In(pending[p]) \cup {c}
      /\ NoRepeat(pending[p]) /\ c \notin In(pending[p]) => NoRepeat(Append(pending[p], c))
  BY <1>2, <1>3, InAppend
<1>5. /\ pending'[p] = Append(pending[p], c)
      /\ \A r \in Peer : r # p => pending'[r] = pending[r]
  BY <1>1 DEF LinksInv, LinksTyped
<1>6. LinksTyped'
  BY <1>1, <1>2, <1>4 DEF LinksInv, LinksTyped
<1>7. OnePlace(p)'
  <2>1. Shaking(p)' = Shaking(p) /\ Registered(p)' = Registered(p) /\ Owned(p)' = Owned(p)
    BY <1>1, SameConnections DEF Shaking, Registered
  <2> QED BY <1>1, <1>2, <1>3, <1>4, <1>5, <2>1 DEF OnePlace, Apart, Disjoint
<1>8. NothingLeft(p)' /\ Genuine(p)'
  BY <1>1, <1>2, <1>7, SameConnections, GenuineKeeps DEF NothingLeft
<1> QED BY <1>1, <1>2, <1>5, <1>6, <1>7, <1>8, SameConnections, ActorSuffices

LEMMA PollPromotesKeeps ==
  ASSUME LinksInv, NEW p \in Peer, PollPromotes(p)
  PROVE  LinksInv'
<1> DEFINE c == Head(todo[p])
           q == OtherEnd(c, p)
<1>1. /\ todo[p] # <<>> /\ todo' = [todo EXCEPT ![p] = Tail(todo[p])]
      /\ linked' = [linked EXCEPT ![p][q] = c]
      /\ linked[p][q] = NoConn
      /\ UNCHANGED <<conn, shut, eof, dialing, inbound, handoff, pending, polling>>
  BY DEF PollPromotes, Promotable, IsConnected, netVars
<1>2. /\ c \in In(todo[p]) /\ c \in Owned(p) /\ c \in Conn /\ todo' \in [Peer -> Seq(Conn)]
      /\ In(todo'[p]) = In(todo[p]) \ {c} /\ NoRepeat(todo'[p])
      /\ \A r \in Peer : r # p => todo'[r] = todo[r]
      /\ p \in polling
  BY <1>1, NextLink
<1>3. InUse(c) /\ q \in Peer /\ Ends(c) = {p, q}
  BY <1>2, OwnedEnds
<1> HIDE DEF c, q
<1>4. /\ linked' \in [Peer -> [Peer -> Conn \cup {NoConn}]]
      /\ linked'[p][q] = c /\ \A x \in Peer : x # q => linked'[p][x] = linked[p][x]
      /\ \A r \in Peer : r # p => linked'[r] = linked[r]
  BY <1>1, <1>2, <1>3 DEF LinksInv, LinksTyped
<1>5. LinksTyped'
  BY <1>1, <1>2, <1>4 DEF LinksInv, LinksTyped
<1>6. c # NoConn
  BY <1>2, LinksAssumption
<1>7. Registered(p)' = Registered(p) \cup {c}
  BY <1>1, <1>3, <1>4, <1>6 DEF Registered
<1>8. OnePlace(p)'
  <2>1. Shaking(p)' = Shaking(p) /\ Owned(p)' = Owned(p) /\ OnePlace(p)
    BY <1>1, SameConnections DEF Shaking, LinksInv
  <2> QED BY <1>1, <1>2, <1>7, <2>1 DEF OnePlace, Apart, Disjoint
<1>9. Genuine(p)'
  <2> SUFFICES ASSUME NEW x \in Peer, linked'[p][x] # NoConn
               PROVE  InUse(linked[p][x])' /\ Ends(linked[p][x])' = {p, x}
    BY DEF Genuine, IsConnected
  <2> DEFINE d == linked'[p][x]
  <2>1. InUse(d) /\ Ends(d) = {p, x}
    BY <1>3, <1>4 DEF LinksInv, Genuine, IsConnected
  <2>2. conn'[d] = conn[d]
    BY <1>1
  <2> QED BY <2>1, <2>2 DEF InUse, Ends, Unused
<1>10. NothingLeft(p)'
  BY <1>1, <1>2 DEF NothingLeft
<1> QED BY <1>1, <1>2, <1>4, <1>5, <1>8, <1>9, <1>10, SameConnections, ActorSuffices

LEMMA PollDropsKeeps ==
  ASSUME LinksInv, NEW p \in Peer, PollDrops(p)
  PROVE  LinksInv'
<1> DEFINE c == Head(todo[p])
<1>1. /\ todo[p] # <<>> /\ todo' = [todo EXCEPT ![p] = Tail(todo[p])]
      /\ CloseEnds(p, {c})
      /\ UNCHANGED <<eof, dialing, inbound, handoff, pending, polling, linked>>
  BY DEF PollDrops, Drop, netVars
<1>2. /\ c \in In(todo[p]) /\ {c} \in SUBSET Owned(p) /\ todo' \in [Peer -> Seq(Conn)]
      /\ In(todo'[p]) = In(todo[p]) \ {c} /\ NoRepeat(todo'[p])
      /\ \A r \in Peer : r # p => todo'[r] = todo[r]
      /\ p \in polling
  BY <1>1, NextLink
<1> HIDE DEF c
<1>3. LinksTyped' /\ TwoEnds'
  BY <1>1, <1>2, CloseKeeps DEF LinksInv, LinksTyped
<1>4. /\ Owned(p)' = Owned(p) \ {c}
      /\ \A r \in Peer : r # p => Owned(r)' = Owned(r)
      /\ \A r \in Peer : \A d \in Owned(r)' : conn'[d] = conn[d]
  BY <1>1, <1>2, CloseKeeps
<1>5. OnePlace(p)'
  <2>1. Shaking(p)' = Shaking(p) /\ Registered(p)' = Registered(p) /\ OnePlace(p)
    BY <1>1 DEF Shaking, Registered, LinksInv
  <2> QED BY <1>1, <1>2, <1>4, <2>1 DEF OnePlace, Apart, Disjoint
<1>6. NothingLeft(p)' /\ Genuine(p)'
  BY <1>1, <1>2, <1>4, <1>5, GenuineKeeps DEF NothingLeft
<1> QED BY <1>1, <1>2, <1>3, <1>4, <1>5, <1>6, ActorSuffices

LEMMA PollFinishKeeps ==
  ASSUME LinksInv, NEW p \in Peer, PollFinish(p)
  PROVE  LinksInv'
<1> DEFINE reaped == {c \in eof[p] : \E q \in Peer : linked[p][q] = c}
           kept == {linked[p][q] : q \in Peer} \ (reaped \cup {NoConn})
<1>1. /\ todo[p] = <<>> /\ polling' = polling \ {p}
      /\ linked' = [linked EXCEPT ![p] =
                      [q \in Peer |-> IF linked[p][q] \in reaped THEN NoConn ELSE linked[p][q]]]
      /\ CloseEnds(p, reaped)
      /\ eof' = [eof EXCEPT ![p] = (eof[p] \ reaped) \cup {c \in kept : EndOfStream(c, p)}]
      /\ UNCHANGED <<dialing, inbound, handoff, pending, todo>>
  BY DEF PollFinish, netVars
<1>2. /\ eof \in [Peer -> SUBSET Conn] /\ linked \in [Peer -> [Peer -> Conn \cup {NoConn}]]
      /\ NoConn \notin Conn /\ OnePlace(p)
  BY LinksAssumption DEF LinksInv, LinksTyped
<1>3. reaped \subseteq Registered(p) /\ reaped \subseteq Conn /\ kept \subseteq Conn
  BY <1>2 DEF Registered
<1>4. {c \in kept : EndOfStream(c, p)} \subseteq Conn
  BY <1>3
<1> DEFINE ended == {c \in kept : EndOfStream(c, p)}
<1> HIDE DEF reaped, kept
<1>5. reaped \in SUBSET Owned(p)
  BY <1>2, <1>3 DEF OnePlace
<1>6. eof' \in [Peer -> SUBSET Conn]
  <2>1. eof[p] \ reaped \subseteq Conn
    BY <1>2
  <2>2. (eof[p] \ reaped) \cup ended \in SUBSET Conn
    BY <1>4, <2>1
  <2> HIDE DEF ended
  <2>3. eof' = [eof EXCEPT ![p] = (eof[p] \ reaped) \cup ended]
    BY <1>1 DEF ended
  <2> QED BY <1>2, <2>2, <2>3
<1>7. /\ linked' \in [Peer -> [Peer -> Conn \cup {NoConn}]]
      /\ \A q \in Peer : linked'[p][q] = IF linked[p][q] \in reaped THEN NoConn ELSE linked[p][q]
      /\ \A r \in Peer : r # p => linked'[r] = linked[r]
  BY <1>1, <1>2
<1>8. LinksTyped' /\ TwoEnds'
  BY <1>1, <1>5, <1>6, <1>7, CloseKeeps DEF LinksInv, LinksTyped
<1>9. /\ Owned(p)' = Owned(p) \ reaped
      /\ \A r \in Peer : r # p => Owned(r)' = Owned(r)
      /\ \A r \in Peer : \A d \in Owned(r)' : conn'[d] = conn[d]
  BY <1>1, <1>5, CloseKeeps
<1>10. Registered(p)' = Registered(p) \ reaped
  <2>1. Registered(p)' = {linked'[p][q] : q \in Peer} \ {NoConn}
    BY DEF Registered
  <2>2. ASSUME NEW x \in Registered(p)' PROVE x \in Registered(p) \ reaped
    BY <1>7, <2>1, <2>2 DEF Registered
  <2>3. ASSUME NEW x \in Registered(p) \ reaped PROVE x \in Registered(p)'
    <3>1. PICK q \in Peer : linked[p][q] = x
      BY <2>3 DEF Registered
    <3>2. linked'[p][q] = x /\ x # NoConn
      BY <1>7, <2>3, <3>1 DEF Registered
    <3> QED BY <2>1, <3>2
  <2> QED BY <2>2, <2>3
<1>11. OnePlace(p)'
  <2>1. Shaking(p)' = Shaking(p)
    BY <1>1 DEF Shaking
  <2> QED BY <1>1, <1>2, <1>3, <1>9, <1>10, <2>1 DEF OnePlace, Apart, Disjoint
<1>12. NothingLeft(p)' /\ Genuine(p)'
  BY <1>1, <1>7, <1>9, <1>11, GenuineKeeps DEF NothingLeft
<1>13. \A r \in Peer : r # p => (r \in polling => r \in polling')
  BY <1>1
<1> QED BY <1>1, <1>7, <1>8, <1>9, <1>11, <1>12, <1>13, ActorSuffices
----------------------------------------------------------------------------
LEMMA ResetKeeps ==
  ASSUME LinksInv, NEW p \in Peer, NEW c \in Conn, Reset(c, p)
  PROVE  LinksInv'
<1>1. /\ UNCHANGED <<conn, shut, eof, inbound, handoff, pending, todo, polling, linked>>
      /\ dialing' \in [Peer -> Peer \cup {NoPeer}]
  BY DEF Reset, netVars, pollVars, LinksInv, LinksTyped
<1> QED BY <1>1, QuietKeeps

LEMMA RestartKeeps ==
  ASSUME LinksInv, NEW p \in Peer, Restart(p)
  PROVE  LinksInv'
<1>1. /\ CloseEnds(p, Owned(p))
      /\ eof' = [eof EXCEPT ![p] = {}]
      /\ dialing' = [dialing EXCEPT ![p] = NoPeer]
      /\ inbound' = [inbound EXCEPT ![p] = NoConn]
      /\ handoff' = [handoff EXCEPT ![p] = <<>>]
      /\ pending' = [pending EXCEPT ![p] = <<>>]
      /\ todo' = [todo EXCEPT ![p] = <<>>]
      /\ polling' = polling \ {p}
      /\ linked' = [linked EXCEPT ![p] = [q \in Peer |-> NoConn]]
  BY DEF Restart
<1>2. /\ conn' \in [Conn -> [dialer : Peer \cup {NoPeer}, acceptor : Peer \cup {NoPeer},
                              expected : Peer \cup {NoPeer}]]
      /\ shut' \in [Conn -> SUBSET Peer] /\ TwoEnds'
      /\ Owned(p)' = {}
      /\ \A r \in Peer : r # p => Owned(r)' = Owned(r)
      /\ \A r \in Peer : \A d \in Owned(r)' : conn'[d] = conn[d]
  BY <1>1, CloseKeeps
<1>3. LinksTyped'
  BY <1>1, <1>2, EmptySeq DEF LinksInv, LinksTyped
<1>4. /\ inbound'[p] = NoConn /\ handoff'[p] = <<>> /\ pending'[p] = <<>> /\ todo'[p] = <<>>
      /\ \A q \in Peer : linked'[p][q] = NoConn
  BY <1>1 DEF LinksInv, LinksTyped
<1>5. \A r \in Peer : r # p =>
        /\ inbound'[r] = inbound[r] /\ handoff'[r] = handoff[r] /\ pending'[r] = pending[r]
        /\ todo'[r] = todo[r] /\ linked'[r] = linked[r] /\ (r \in polling => r \in polling')
  BY <1>1 DEF LinksInv, LinksTyped
<1>6. OnePlace(p)'
  <2>1. Shaking(p)' = {} /\ Registered(p)' = {}
    BY <1>4 DEF Shaking, Registered
  <2> QED BY <1>2, <1>4, <2>1, InEmpty DEF OnePlace, Apart, Disjoint
<1>7. NothingLeft(p)' /\ Genuine(p)'
  BY <1>4 DEF NothingLeft, Genuine, IsConnected
<1> QED BY <1>2, <1>3, <1>5, <1>6, <1>7, ActorSuffices

LEMMA LinksInvInit == Init => LinksInv
<1> SUFFICES ASSUME Init PROVE LinksInv
  OBVIOUS
<1>1. LinksTyped
  BY EmptySeq DEF Init, LinksTyped, Unused
<1>2. TwoEnds
  BY DEF Init, TwoEnds, InUse
<1>3. ASSUME NEW p \in Peer PROVE OnePlace(p) /\ NothingLeft(p) /\ Genuine(p)
  <2>1. /\ inbound[p] = NoConn /\ handoff[p] = <<>> /\ pending[p] = <<>> /\ todo[p] = <<>>
        /\ \A q \in Peer : linked[p][q] = NoConn
    BY <1>3 DEF Init
  <2>2. Shaking(p) = {} /\ Registered(p) = {} /\ Owned(p) = {}
    BY <2>1 DEF Init, Shaking, Registered, Owned, InUse
  <2>3. OnePlace(p)
    BY <2>1, <2>2, InEmpty DEF OnePlace, Apart, Disjoint
  <2> QED BY <2>1, <2>3 DEF NothingLeft, Genuine, IsConnected
<1> QED BY <1>1, <1>2, <1>3 DEF LinksInv

LEMMA LinksInvStep == LinksInv /\ [Next]_vars => LinksInv'
<1> SUFFICES ASSUME LinksInv, [Next]_vars PROVE LinksInv'
  OBVIOUS
<1>1. CASE UNCHANGED vars
  <2>1. dialing' \in [Peer -> Peer \cup {NoPeer}]
    BY <1>1 DEF vars, LinksInv, LinksTyped
  <2> QED BY <1>1, <2>1, QuietKeeps DEF vars
<1>2. CASE Others
  BY <1>2, DialKeeps, ConnectKeeps, HandshakeOkKeeps, HandshakeFailsKeeps, PumpRegisterKeeps,
     PollWaitsKeeps, PollPromotesKeeps, PollDropsKeeps, PollFinishKeeps, RestartKeeps, ResetKeeps
     DEF Others
<1>3. CASE \E p, q \in Peer : StartDial(p, q)
  BY <1>3, DialKeeps
<1> QED BY <1>1, <1>2, <1>3 DEF Next

(* The places of the ends exclude one another whatever the two threads do:
   dialer, acceptor, hand-over queue, pending and registered links. *)
THEOREM LinksInvariant == Spec => []LinksInv
BY LinksInvInit, LinksInvStep, PTL DEF Spec
----------------------------------------------------------------------------
(* From places to owners. *)

LEMMA OccursOnce ==
  ASSUME NEW S, NEW s \in Seq(S), NoRepeat(s), NEW c
  PROVE  Occurrences(s, c) = IF c \in In(s) THEN 1 ELSE 0
<1> DEFINE at == {i \in DOMAIN s : s[i] = c}
<1>1. CASE c \in In(s)
  <2>1. PICK i \in DOMAIN s : s[i] = c
    BY <1>1 DEF In
  <2>2. at = {i}
    BY <2>1 DEF NoRepeat
  <2> QED BY <1>1, <2>2, FS_Singleton DEF Occurrences
<1>2. CASE c \notin In(s)
  <2>1. at = {}
    BY <1>2 DEF In
  <2> QED BY <1>2, <2>1, FS_EmptySet DEF Occurrences
<1> QED BY <1>1, <1>2

LEMMA RegisteredOnce ==
  ASSUME NEW p \in Peer, Genuine(p), NEW c \in Conn
  PROVE  Cardinality({q \in Peer : linked[p][q] = c}) = IF c \in Registered(p) THEN 1 ELSE 0
<1> DEFINE at == {q \in Peer : linked[p][q] = c}
<1>0. c # NoConn
  BY LinksAssumption
<1>1. CASE c \in Registered(p)
  <2>1. PICK q \in Peer : linked[p][q] = c
    BY <1>1 DEF Registered
  <2>2. ASSUME NEW x \in at PROVE x = q
    <3>1. Ends(c) = {p, q} /\ Ends(c) = {p, x}
      BY <1>0, <2>1 DEF Genuine, IsConnected
    <3> QED BY <3>1
  <2>3. at = {q}
    BY <2>1, <2>2
  <2> QED BY <1>1, <2>3, FS_Singleton
<1>2. CASE c \notin Registered(p)
  <2>1. at = {}
    BY <1>0, <1>2 DEF Registered
  <2> QED BY <1>2, <2>1, FS_EmptySet
<1> QED BY <1>1, <1>2

(* Places that do not overlap give every end one owner. *)
LEMMA OneOwner == LinksInv => EachOpenEndHasOneOwner
<1> SUFFICES ASSUME LinksInv, NEW p \in Peer, NEW c \in Conn
             PROVE  Owners(p, c) = IF c \in Owned(p) THEN 1 ELSE 0
  BY DEF EachOpenEndHasOneOwner
<1>1. /\ OnePlace(p) /\ Genuine(p)
      /\ handoff[p] \in Seq(Conn) /\ pending[p] \in Seq(Conn) /\ todo[p] \in Seq(Conn)
  BY DEF LinksInv, LinksTyped
<1>2. /\ Occurrences(handoff[p], c) = IF c \in In(handoff[p]) THEN 1 ELSE 0
      /\ Occurrences(pending[p], c) = IF c \in In(pending[p]) THEN 1 ELSE 0
      /\ Occurrences(todo[p], c) = IF c \in In(todo[p]) THEN 1 ELSE 0
      /\ Cardinality({q \in Peer : linked[p][q] = c}) = IF c \in Registered(p) THEN 1 ELSE 0
  BY <1>1, OccursOnce, RegisteredOnce DEF OnePlace
<1>3. (IF inbound[p] = c THEN 1 ELSE 0) = IF c \in Shaking(p) THEN 1 ELSE 0
  BY LinksAssumption DEF Shaking
<1> QED BY <1>1, <1>2, <1>3 DEF Owners, OnePlace, Apart, Disjoint

(* However the threads of the machines interleave and crash: every open end
   of a connection has exactly one owner, and nobody owns an end that is
   closed (the unique_ptr moves of secure_link, netThreadProc and poll). *)
THEOREM EndsHaveOneOwner == Spec => []EachOpenEndHasOneOwner
BY LinksInvariant, OneOwner, PTL

(* A link registered under a peer's id ends at that peer, whoever answered at
   the address that was dialed (ConnectionManager::poll). *)
THEOREM LinksAreGenuine == Spec => []RegisteredLinkIsGenuine
<1>1. LinksInv => RegisteredLinkIsGenuine
  BY DEF LinksInv, Genuine, RegisteredLinkIsGenuine
<1> QED BY <1>1, LinksInvariant, PTL
=============================================================================
