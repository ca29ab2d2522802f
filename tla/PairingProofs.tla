---------------------------- MODULE PairingProofs ----------------------------
(***************************************************************************)
(* Proofs about PairingSession: for any number of machines, sessions and   *)
(* connections, the two threads of a machine share its session correctly.  *)
(***************************************************************************)
EXTENDS PairingSession, TLAPS

LEMMA RoleFacts ==
  /\ Role = {"init", "acc"} /\ "init" \in Role /\ "acc" \in Role
  /\ \A r \in Role : Opposite(r) \in Role
  /\ InExchange \subseteq Place
BY DEF Role, Opposite, Place, InExchange

LEMMA PairingTypeInit == Init => TypeOK
<1> SUFFICES ASSUME Init PROVE TypeOK
  OBVIOUS
<1>1. ends \in Seq([Role -> Peer]) /\ Len(ends) = 0
  BY DEF Init
<1>2. exch \in [Peer -> [Role -> 0..Len(ends)]]
  BY <1>1 DEF Init
<1>3. at \in [Peer -> [Role -> Place]]
  BY DEF Init, Place
<1>4. \A p \in Peer, r \in Role : at[p][r] \notin InExchange \cup {"accepted"}
  BY DEF Init, InExchange
<1> QED BY <1>1, <1>2, <1>3, <1>4, PairingAssumption DEF Init, TypeOK, Exchanges

(* A thread with a connection runs one of those that were made. *)
LEMMA ExchangeFacts ==
  ASSUME TypeOK, NEW p \in Peer, NEW r \in Role, at[p][r] \in InExchange \cup {"accepted"}
  PROVE  /\ exch[p][r] \in 1..Len(ends) /\ exch[p][r] # 0
         /\ exch[p][r] \in Exchanges /\ exch[p][r] \in 0..MaxExchanges
<1>1. exch[p][r] # 0
  BY DEF TypeOK
<1>2. exch[p][r] \in 0..Len(ends)
  <2>1. exch \in [Peer -> [Role -> 0..Len(ends)]]
    BY DEF TypeOK
  <2> QED BY <2>1
<1>3. Len(ends) \in Nat /\ Len(ends) <= MaxExchanges
  <2>1. ends \in Seq([Role -> Peer]) /\ Len(ends) <= MaxExchanges
    BY DEF TypeOK
  <2> QED BY <2>1
<1> QED BY <1>1, <1>2, <1>3, PairingAssumption DEF Exchanges

(* What a thread that moves on its own does to the places and exchanges. *)
LEMMA GoesType ==
  ASSUME TypeOK, NEW p \in Peer, NEW r \in Role, NEW place \in Place, Goes(p, r, place)
  PROVE  /\ at' \in [Peer -> [Role -> Place]]
         /\ at'[p][r] = place
         /\ \A q \in Peer, s \in Role : q # p \/ s # r => at'[q][s] = at[q][s]
BY DEF Goes, TypeOK

LEMMA SessionEndsType ==
  ASSUME TypeOK, NEW p \in Peer, NEW r \in Role, SessionEnds(p, r),
         at[p][r] \in InExchange, keys' \in [Peer -> [Peer -> 0..MaxExchanges]]
  PROVE  TypeOK'
<1>1. exch[p][r] \in Exchanges
  BY ExchangeFacts
<1>2. "off" \in Place
  BY DEF Place
<1>3. hungUp' \in [Exchanges -> SUBSET Role]
  BY <1>1 DEF SessionEnds, Close, TypeOK
<1>4. /\ exch' \in [Peer -> [Role -> 0..Len(ends)]]
      /\ \A q \in Peer, s \in Role : q # p \/ s # r => exch'[q][s] = exch[q][s]
  BY DEF SessionEnds, Leaves, TypeOK
<1>5. /\ at' \in [Peer -> [Role -> Place]]
      /\ at'[p][r] = "off"
      /\ \A q \in Peer, s \in Role : q # p \/ s # r => at'[q][s] = at[q][s]
  BY <1>2, GoesType DEF SessionEnds
<1>6. \A q \in Peer, s \in Role : at'[q][s] \in InExchange \cup {"accepted"} => exch'[q][s] # 0
  <2>1. "off" \notin InExchange \cup {"accepted"}
    BY DEF InExchange
  <2>2. \A q \in Peer, s \in Role : at[q][s] \in InExchange \cup {"accepted"} => exch[q][s] # 0
    BY DEF TypeOK
  <2> SUFFICES ASSUME NEW q \in Peer, NEW s \in Role, at'[q][s] \in InExchange \cup {"accepted"}
               PROVE  exch'[q][s] # 0
    OBVIOUS
  <2>3. q # p \/ s # r
    BY <1>5, <2>1
  <2>4. at'[q][s] = at[q][s] /\ exch'[q][s] = exch[q][s]
    BY <1>4, <1>5, <2>3
  <2> QED BY <2>2, <2>4
<1>7. active' \in [Peer -> BOOLEAN] /\ ui' \in [Peer -> {"idle", "picker", "ending"}]
  BY DEF SessionEnds, EndPairingSession, TypeOK
<1> QED BY <1>3, <1>4, <1>5, <1>6, <1>7 DEF SessionEnds, TypeOK

(* The steps that leave the exchanges and the wires alone. *)
LEMMA LocalType ==
  ASSUME TypeOK, NEW p \in Peer, UNCHANGED <<exch, keys, wireVars>>,
         NEW r \in Role, NEW place \in Place \ (InExchange \cup {"accepted"}),
         Goes(p, r, place) \/ UNCHANGED at,
         active' \in [Peer -> BOOLEAN], engaged' \in [Peer -> BOOLEAN],
         ui' \in [Peer -> {"idle", "picker", "ending"}],
         target' \in [Peer -> Peer \cup {NoPeer}]
  PROVE  TypeOK'
<1>1. at' \in [Peer -> [Role -> Place]]
  BY GoesType DEF TypeOK
<1>2. \A q \in Peer, s \in Role : at'[q][s] = at[q][s] \/ at'[q][s] = place
  <2>1. CASE UNCHANGED at
    BY <2>1
  <2>2. CASE Goes(p, r, place)
    BY <2>2, GoesType
  <2> QED BY <2>1, <2>2
<1>3. \A q \in Peer, s \in Role : at'[q][s] \in InExchange \cup {"accepted"} => exch'[q][s] # 0
  <2>1. \A q \in Peer, s \in Role : at[q][s] \in InExchange \cup {"accepted"} => exch[q][s] # 0
    BY DEF TypeOK
  <2> QED BY <1>2, <2>1
<1> QED BY <1>1, <1>3 DEF TypeOK, wireVars

LEMMA MailType ==
  ASSUME TypeOK, NEW x \in Exchanges, NEW r \in Role, NEW m \in {"commit", "reveal"},
         NEW box \in [Exchanges -> [Role -> Seq({"commit", "reveal"})]]
  PROVE  [box EXCEPT ![x][Opposite(r)] =
            IF Opposite(r) \in hungUp[x] THEN @ ELSE Append(@, m)]
           \in [Exchanges -> [Role -> Seq({"commit", "reveal"})]]
BY RoleFacts

LEMMA PairingTypeNext == TypeOK /\ [Next]_vars => TypeOK'
<1> SUFFICES ASSUME TypeOK, [Next]_vars PROVE TypeOK'
  OBVIOUS
<1>1. ASSUME NEW p \in Peer, EndCancelled(p) \/ Cancel(p) PROVE TypeOK'
  BY <1>1 DEF EndCancelled, Cancel, TypeOK, wireVars
<1>2. ASSUME NEW p \in Peer, AddDevice(p) PROVE TypeOK'
  <2>1. "checking" \in Place \ (InExchange \cup {"accepted"})
    BY DEF Place, Dialing, InExchange
  <2>2. /\ active' \in [Peer -> BOOLEAN] /\ engaged' \in [Peer -> BOOLEAN]
        /\ ui' \in [Peer -> {"idle", "picker", "ending"}]
        /\ target' \in [Peer -> Peer \cup {NoPeer}]
    BY <1>2 DEF AddDevice, TypeOK
  <2> QED BY <1>2, <2>1, <2>2, LocalType, RoleFacts DEF AddDevice
<1>3. ASSUME NEW p \in Peer, NEW q \in Peer, Pick(p, q) PROVE TypeOK'
  <2>1. "starting" \in Place \ (InExchange \cup {"accepted"})
    BY DEF Place, Dialing, InExchange
  <2>2. /\ active' \in [Peer -> BOOLEAN] /\ engaged' \in [Peer -> BOOLEAN]
        /\ ui' \in [Peer -> {"idle", "picker", "ending"}]
        /\ target' \in [Peer -> Peer \cup {NoPeer}]
    BY <1>3 DEF Pick, TypeOK
  <2> QED BY <1>3, <2>1, <2>2, LocalType, RoleFacts DEF Pick
<1>4. ASSUME NEW p \in Peer, InitStarts(p) PROVE TypeOK'
  <2>1. {"off", "dialing"} \subseteq Place \ (InExchange \cup {"accepted"})
    BY DEF Place, Dialing, InExchange
  <2>2. engaged' \in [Peer -> BOOLEAN] /\ UNCHANGED <<active, ui, target>>
    BY <1>4 DEF InitStarts, TypeOK
  <2>3. PICK place \in {"off", "dialing"} : Goes(p, "init", place)
    BY <1>4 DEF InitStarts
  <2>4. UNCHANGED <<exch, keys, wireVars>>
    BY <1>4 DEF InitStarts
  <2> QED BY <2>1, <2>2, <2>3, <2>4, LocalType, RoleFacts DEF TypeOK
<1>5. ASSUME NEW p \in Peer, DialGivesUp(p) PROVE TypeOK'
  <2>1. "off" \in Place \ (InExchange \cup {"accepted"})
    BY DEF Place, Dialing, InExchange
  <2>2. /\ active' \in [Peer -> BOOLEAN] /\ engaged' \in [Peer -> BOOLEAN]
        /\ ui' \in [Peer -> {"idle", "picker", "ending"}]
        /\ target' \in [Peer -> Peer \cup {NoPeer}]
    BY <1>5 DEF DialGivesUp, EndPairingSession, TypeOK
  <2> QED BY <1>5, <2>1, <2>2, LocalType, RoleFacts DEF DialGivesUp
<1>6. ASSUME NEW p \in Peer, AcceptChecks(p) \/ AcceptTimesOut(p) PROVE TypeOK'
  <2>1. {"off", "checking", "listening"} \subseteq Place \ (InExchange \cup {"accepted"})
    BY DEF Place, Dialing, InExchange
  <2>2. PICK place \in {"off", "checking", "listening"} : Goes(p, "acc", place)
    BY <1>6 DEF AcceptChecks, AcceptTimesOut
  <2>3. UNCHANGED <<sessionVars, exch, keys, wireVars>>
    BY <1>6 DEF AcceptChecks, AcceptTimesOut
  <2> QED BY <2>1, <2>2, <2>3, LocalType, RoleFacts DEF TypeOK, sessionVars
<1>7. ASSUME NEW p \in Peer, NEW q \in Peer, Connect(p, q) PROVE TypeOK'
  <2> DEFINE x == Len(ends) + 1
  <2>1. x \in Exchanges /\ Len(ends) \in Nat
    BY <1>7, PairingAssumption DEF Connect, TypeOK, Exchanges
  <2>2. [init |-> p, acc |-> q] \in [Role -> Peer]
    BY DEF Role
  <2>3. ends' \in Seq([Role -> Peer]) /\ Len(ends') = x /\ x <= MaxExchanges
    BY <1>7, <2>2 DEF Connect, TypeOK
  <2>4. exch' \in [Peer -> [Role -> 0..Len(ends')]]
    <3>1. exch \in [Peer -> [Role -> 0..x]]
      <4>1. exch \in [Peer -> [Role -> 0..Len(ends)]]
        BY DEF TypeOK
      <4> QED BY <4>1, <2>1
    <3>2. exch' = [exch EXCEPT ![p]["init"] = x, ![q]["acc"] = x] /\ x \in 0..x
      BY <1>7, <2>1 DEF Connect
    <3> QED BY <2>3, <3>1, <3>2
  <2>5. at' \in [Peer -> [Role -> Place]]
    BY <1>7 DEF Connect, TypeOK, Place, InExchange
  <2>6. \A o \in Peer, s \in Role :
          at'[o][s] \in InExchange \cup {"accepted"} => exch'[o][s] # 0
    <3>1. exch \in [Peer -> [Role -> 0..Len(ends)]] /\ at \in [Peer -> [Role -> Place]]
      BY DEF TypeOK
    <3>2. \A o \in Peer, s \in Role :
            exch'[o][s] = x \/ (at'[o][s] = at[o][s] /\ exch'[o][s] = exch[o][s])
      <4>1. /\ exch' = [exch EXCEPT ![p]["init"] = x, ![q]["acc"] = x]
            /\ at' = [at EXCEPT ![p]["init"] = "begin", ![q]["acc"] = "accepted"]
        BY <1>7 DEF Connect
      <4> HIDE DEF x
      <4> QED BY <3>1, <4>1
    <3>3. \A o \in Peer, s \in Role :
            at[o][s] \in InExchange \cup {"accepted"} => exch[o][s] # 0
      BY DEF TypeOK
    <3>4. x # 0
      BY <2>1
    <3> SUFFICES ASSUME NEW o \in Peer, NEW s \in Role,
                        at'[o][s] \in InExchange \cup {"accepted"}
                 PROVE  exch'[o][s] # 0
      OBVIOUS
    <3>5. exch'[o][s] = x \/ (at'[o][s] = at[o][s] /\ exch'[o][s] = exch[o][s])
      BY <3>2
    <3> HIDE DEF x
    <3> QED BY <3>3, <3>4, <3>5
  <2>7. UNCHANGED <<active, engaged, ui, target, mail, hungUp, keys>>
    BY <1>7 DEF Connect, sessionVars
  <2> QED BY <2>3, <2>4, <2>5, <2>6, <2>7 DEF TypeOK
<1>8. ASSUME NEW p \in Peer, AcceptEngages(p) PROVE TypeOK'
  <2>1. {"off", "begin"} \subseteq Place /\ "acc" \in Role
    BY DEF Place, Dialing, InExchange, Role
  <2>2. exch[p]["acc"] \in Exchanges /\ exch[p]["acc"] # 0
    BY <1>8, <2>1, ExchangeFacts DEF AcceptEngages
  <2>3. /\ engaged' \in [Peer -> BOOLEAN]
        /\ ui' \in [Peer -> {"idle", "picker", "ending"}]
        /\ UNCHANGED <<active, target, keys, ends, mail>>
    <3>1. engaged \in [Peer -> BOOLEAN] /\ ui \in [Peer -> {"idle", "picker", "ending"}]
      BY DEF TypeOK
    <3> QED BY <1>8, <3>1 DEF AcceptEngages
  <2>4. CASE engaged[p]
    <3>1. /\ at' \in [Peer -> [Role -> Place]]
          /\ at'[p]["acc"] = "off"
          /\ \A q \in Peer, s \in Role : q # p \/ s # "acc" => at'[q][s] = at[q][s]
      BY <1>8, <2>1, <2>4, GoesType DEF AcceptEngages
    <3>2. /\ exch' \in [Peer -> [Role -> 0..Len(ends)]]
          /\ \A q \in Peer, s \in Role : q # p \/ s # "acc" => exch'[q][s] = exch[q][s]
      <4>1. exch \in [Peer -> [Role -> 0..Len(ends)]] /\ ends \in Seq([Role -> Peer])
        BY DEF TypeOK
      <4>2. exch' = [exch EXCEPT ![p]["acc"] = 0]
        BY <1>8, <2>4 DEF AcceptEngages, Leaves
      <4>3. 0 \in 0..Len(ends)
        BY <4>1
      <4> QED BY <2>1, <4>1, <4>2, <4>3
    <3>3. hungUp' \in [Exchanges -> SUBSET Role]
      <4>1. hungUp \in [Exchanges -> SUBSET Role]
        BY DEF TypeOK
      <4> QED BY <1>8, <2>1, <2>2, <2>4, <4>1 DEF AcceptEngages, Close
    <3>4. \A q \in Peer, s \in Role :
            at'[q][s] \in InExchange \cup {"accepted"} => exch'[q][s] # 0
      <4>1. "off" \notin InExchange \cup {"accepted"}
        BY DEF InExchange
      <4>2. \A q \in Peer, s \in Role :
              at[q][s] \in InExchange \cup {"accepted"} => exch[q][s] # 0
        BY DEF TypeOK
      <4>3. SUFFICES ASSUME NEW q \in Peer, NEW s \in Role
                     PROVE  at'[q][s] \in InExchange \cup {"accepted"} => exch'[q][s] # 0
        OBVIOUS
      <4>4. CASE q = p /\ s = "acc"
        <5>1. at'[q][s] = "off"
          BY <3>1, <4>4
        <5> QED BY <4>1, <5>1
      <4>5. CASE q # p \/ s # "acc"
        <5>1. at'[q][s] = at[q][s] /\ exch'[q][s] = exch[q][s]
          BY <3>1, <3>2, <4>5
        <5> QED BY <4>2, <5>1
      <4> QED BY <4>4, <4>5
    <3> QED BY <2>3, <3>1, <3>2, <3>3, <3>4 DEF TypeOK
  <2>5. CASE ~engaged[p]
    <3>1. /\ at' \in [Peer -> [Role -> Place]]
          /\ at'[p]["acc"] = "begin"
          /\ \A q \in Peer, s \in Role : q # p \/ s # "acc" => at'[q][s] = at[q][s]
      BY <1>8, <2>1, <2>5, GoesType DEF AcceptEngages
    <3>2. UNCHANGED <<exch, hungUp>>
      BY <1>8, <2>5 DEF AcceptEngages
    <3>3. \A q \in Peer, s \in Role :
            at'[q][s] \in InExchange \cup {"accepted"} => exch'[q][s] # 0
      <4>1. \A q \in Peer, s \in Role :
              at[q][s] \in InExchange \cup {"accepted"} => exch[q][s] # 0
        BY DEF TypeOK
      <4>2. SUFFICES ASSUME NEW q \in Peer, NEW s \in Role
                     PROVE  at'[q][s] \in InExchange \cup {"accepted"} => exch'[q][s] # 0
        OBVIOUS
      <4>3. CASE q = p /\ s = "acc"
        BY <2>2, <3>2, <4>3
      <4>4. CASE q # p \/ s # "acc"
        <5>1. at'[q][s] = at[q][s]
          BY <3>1, <4>4
        <5> QED BY <3>2, <4>1, <5>1
      <4> QED BY <4>3, <4>4
    <3> QED BY <2>3, <3>1, <3>2, <3>3 DEF TypeOK
  <2> QED BY <2>4, <2>5
<1>9. ASSUME NEW p \in Peer, NEW r \in Role, Start(p, r) PROVE TypeOK'
  <2>1. at[p][r] \in InExchange /\ "awaitCommit" \in Place
    BY <1>9 DEF Start, InExchange, Place
  <2>2. exch[p][r] \in Exchanges /\ exch[p][r] # 0
    BY <2>1, ExchangeFacts
  <2>3. mail' \in [Exchanges -> [Role -> Seq({"commit", "reveal"})]]
    <3>1. mail \in [Exchanges -> [Role -> Seq({"commit", "reveal"})]]
      BY DEF TypeOK
    <3> QED BY <1>9, <2>2, <3>1, MailType DEF Start, Send
  <2>4. /\ at' \in [Peer -> [Role -> Place]]
        /\ \A q \in Peer, s \in Role : q # p \/ s # r => at'[q][s] = at[q][s]
    BY <1>9, <2>1, GoesType DEF Start
  <2>5. \A q \in Peer, s \in Role :
          at'[q][s] \in InExchange \cup {"accepted"} => exch[q][s] # 0
    <3>1. \A q \in Peer, s \in Role :
            at[q][s] \in InExchange \cup {"accepted"} => exch[q][s] # 0
      BY DEF TypeOK
    <3> QED BY <2>2, <2>4, <3>1
  <2>6. UNCHANGED <<sessionVars, exch, keys, ends, hungUp>>
    BY <1>9 DEF Start
  <2> QED BY <2>3, <2>4, <2>5, <2>6 DEF TypeOK, sessionVars
<1>10. ASSUME NEW p \in Peer, NEW r \in Role, PollReceives(p, r) PROVE TypeOK'
  <2> DEFINE x == exch[p][r]
             read == [mail EXCEPT ![x][r] = Tail(@)]
  <2>1. at[p][r] \in InExchange /\ {"awaitReveal", "confirm"} \subseteq Place
    BY <1>10 DEF PollReceives, InExchange, Place
  <2>2. x \in Exchanges /\ x # 0
    BY <2>1, ExchangeFacts
  <2>3. read \in [Exchanges -> [Role -> Seq({"commit", "reveal"})]]
    <3>1. mail \in [Exchanges -> [Role -> Seq({"commit", "reveal"})]] /\ mail[x][r] # <<>>
      BY <1>10 DEF PollReceives, TypeOK
    <3> QED BY <2>2, <3>1
  <2>4. mail' \in [Exchanges -> [Role -> Seq({"commit", "reveal"})]]
    <3>1. CASE mail' = read
      BY <2>3, <3>1
    <3>2. CASE mail' = [read EXCEPT ![x][Opposite(r)] =
                          IF Opposite(r) \in hungUp[x] THEN @ ELSE Append(@, "reveal")]
      BY <2>2, <2>3, <3>2, MailType
    <3> QED BY <1>10, <3>1, <3>2 DEF PollReceives
  <2>5. PICK place \in {"awaitReveal", "confirm"} : Goes(p, r, place)
    BY <1>10 DEF PollReceives
  <2>6. /\ at' \in [Peer -> [Role -> Place]]
        /\ \A q \in Peer, s \in Role : q # p \/ s # r => at'[q][s] = at[q][s]
    BY <2>1, <2>5, GoesType
  <2>7. \A q \in Peer, s \in Role :
          at'[q][s] \in InExchange \cup {"accepted"} => exch[q][s] # 0
    <3>1. \A q \in Peer, s \in Role :
            at[q][s] \in InExchange \cup {"accepted"} => exch[q][s] # 0
      BY DEF TypeOK
    <3> QED BY <2>2, <2>6, <3>1
  <2>8. UNCHANGED <<sessionVars, exch, keys, ends, hungUp>>
    BY <1>10 DEF PollReceives
  <2> QED BY <2>4, <2>6, <2>7, <2>8 DEF TypeOK, sessionVars
<1>11. ASSUME NEW p \in Peer, NEW r \in Role, ExchangeFails(p, r) PROVE TypeOK'
  BY <1>11, SessionEndsType DEF ExchangeFails, InExchange, TypeOK
<1>12. ASSUME NEW p \in Peer, NEW r \in Role, NEW yes \in BOOLEAN, Answer(p, r, yes)
       PROVE  TypeOK'
  <2>1. at[p][r] \in InExchange
    BY <1>12 DEF Answer, InExchange
  <2>2. exch[p][r] \in 1..Len(ends) /\ exch[p][r] \in 0..MaxExchanges
    BY <2>1, ExchangeFacts
  <2>3. ends[exch[p][r]][Opposite(r)] \in Peer
    <3>1. ends \in Seq([Role -> Peer])
      BY DEF TypeOK
    <3>2. ends[exch[p][r]] \in [Role -> Peer]
      BY <2>2, <3>1
    <3> QED BY <3>2, RoleFacts
  <2>4. keys' \in [Peer -> [Peer -> 0..MaxExchanges]]
    BY <1>12, <2>2, <2>3 DEF Answer, TypeOK
  <2> QED BY <1>12, <2>1, <2>4, SessionEndsType DEF Answer
<1>13. CASE UNCHANGED vars
  BY <1>13 DEF vars, TypeOK
<1>14. ASSUME NEW p \in Peer, DialHangs(p) PROVE TypeOK'
  <2>1. "hanging" \in Place \ (InExchange \cup {"accepted"})
    BY DEF Place, Dialing, InExchange
  <2> QED BY <1>14, <2>1, LocalType, RoleFacts DEF DialHangs, TypeOK, sessionVars
<1> QED BY <1>1, <1>2, <1>3, <1>4, <1>5, <1>6, <1>7, <1>8, <1>9, <1>10, <1>11, <1>12,
           <1>13, <1>14 DEF Next, Threads, User

(* The flags, the threads and the connections keep their types (AppState), and a
   thread in an exchange has a connection. *)
THEOREM PairingTypeCorrect == Spec => []TypeOK
BY PairingTypeInit, PairingTypeNext, PTL DEF Spec

(* What makes the sharing of a session inductive: a thread dials or runs an exchange
   only in a session it has engaged, and the picker and the initiator follow each
   other in a session that is on. *)
SessionInv == \A p \in Peer :
  /\ at[p]["init"] \in InExchange \cup Dialing => engaged[p]
  /\ at[p]["acc"] \in InExchange => engaged[p]
  /\ ~(at[p]["init"] \in InExchange \cup Dialing /\ at[p]["acc"] \in InExchange)
  /\ ui[p] # "idle" => at[p]["init"] = "off"
  /\ ui[p] = "picker" => active[p]
  /\ at[p]["init"] = "starting" /\ ~engaged[p] => active[p]
  /\ at[p]["init"] \in Dialing => active[p]

(* The part of TypeOK that the argument needs. *)
SessionTypes ==
  /\ active \in [Peer -> BOOLEAN] /\ engaged \in [Peer -> BOOLEAN]
  /\ ui \in [Peer -> {"idle", "picker", "ending"}]
  /\ at \in [Peer -> [Role -> Place]]

LEMMA SessionInit == Init => SessionInv
BY DEF Init, SessionInv, Role, InExchange, Dialing

LEMMA SessionNext == SessionTypes /\ SessionInv /\ [Next]_vars => SessionInv'
<1> SUFFICES ASSUME SessionTypes, SessionInv, [Next]_vars PROVE SessionInv'
  OBVIOUS
<1> USE DEF SessionTypes, SessionInv, Role, InExchange, Dialing
<1>1. ASSUME NEW p \in Peer, AddDevice(p) PROVE SessionInv'
  BY <1>1 DEF AddDevice, Goes
<1>2. ASSUME NEW p \in Peer, NEW q \in Peer, Pick(p, q) PROVE SessionInv'
  BY <1>2 DEF Pick, Goes
<1>3. ASSUME NEW p \in Peer, Cancel(p) \/ EndCancelled(p) PROVE SessionInv'
  BY <1>3 DEF Cancel, EndCancelled
<1>4. ASSUME NEW p \in Peer, InitStarts(p) PROVE SessionInv'
  BY <1>4 DEF InitStarts, Goes
<1>5. ASSUME NEW p \in Peer, DialGivesUp(p) PROVE SessionInv'
  BY <1>5 DEF DialGivesUp, Goes, EndPairingSession
<1>6. ASSUME NEW p \in Peer, NEW q \in Peer, Connect(p, q) PROVE SessionInv'
  BY <1>6 DEF Connect, sessionVars
<1>7. ASSUME NEW p \in Peer, AcceptChecks(p) \/ AcceptTimesOut(p) PROVE SessionInv'
  BY <1>7 DEF AcceptChecks, AcceptTimesOut, Goes, sessionVars
<1>8. ASSUME NEW p \in Peer, AcceptEngages(p) PROVE SessionInv'
  BY <1>8 DEF AcceptEngages, Goes
<1>9. ASSUME NEW p \in Peer, NEW r \in Role, Start(p, r) \/ PollReceives(p, r)
      PROVE  SessionInv'
  <2>1. PICK place \in InExchange : Goes(p, r, place)
    BY <1>9 DEF Start, PollReceives
  <2>2. at[p][r] \in InExchange /\ UNCHANGED sessionVars
    BY <1>9 DEF Start, PollReceives
  <2> QED BY <2>1, <2>2 DEF Goes, sessionVars
<1>10. ASSUME NEW p \in Peer, NEW r \in Role, SessionEnds(p, r), at[p][r] \in InExchange
       PROVE  SessionInv'
  BY <1>10, ZenonT(60) DEF SessionEnds, Goes, EndPairingSession
<1>11. CASE UNCHANGED vars
  BY <1>11 DEF vars
<1>12. ASSUME NEW p \in Peer, DialHangs(p) PROVE SessionInv'
  BY <1>12 DEF DialHangs, Goes, sessionVars
<1> QED BY <1>1, <1>2, <1>3, <1>4, <1>5, <1>6, <1>7, <1>8, <1>9, <1>10, <1>11, <1>12
        DEF Next, Threads, User, ExchangeFails, Answer

LEMMA SessionAlways == Spec => []SessionInv
<1>1. TypeOK => SessionTypes
  BY DEF TypeOK, SessionTypes
<1> QED BY <1>1, SessionInit, SessionNext, PairingTypeCorrect, PTL DEF Spec

(* "one exchange per session": pairInitProc and pairAcceptProc never both run one. *)
THEOREM OneExchange == Spec => []OneExchangePerSession
<1>1. SessionInv => OneExchangePerSession
  BY DEF SessionInv, OneExchangePerSession, Running
<1> QED BY <1>1, SessionAlways, PTL

(* No thread ends the session under the dial of pairInitProc. *)
THEOREM DialKeepsSession == Spec => []DialKeepsItsSession
<1>1. SessionInv => DialKeepsItsSession
  BY DEF SessionInv, DialKeepsItsSession
<1> QED BY <1>1, SessionAlways, PTL
=============================================================================
