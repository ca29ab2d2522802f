--------------------------- MODULE PairingSession ---------------------------
(***************************************************************************)
(* Pairing two machines: the "Add device" session of each (platform/       *)
(* tray_win: the picker on the UI thread, pairAcceptProc and pairInitProc  *)
(* on threads of their own) and the exchange they run over the connection  *)
(* (pairing/pairing_exchange, runPairingSession).                          *)
(*                                                                         *)
(* The key that an exchange derives stands for the exchange itself: two    *)
(* machines hold the same key when they took it from the same exchange.    *)
(* Commitments are honest, so what is checked here is who runs which       *)
(* exchange and who keeps its key.                                         *)
(***************************************************************************)
EXTENDS Naturals, Sequences, FiniteSets

CONSTANTS
  Peer,
  MaxExchanges,  \* bound: how many connections are ever made
  NoPeer

ASSUME PairingAssumption == NoPeer \notin Peer /\ MaxExchanges \in Nat

VARIABLES
  active,   \* pairingActive
  engaged,  \* pairEngaged
  ui,       \* the UI thread: idle, in the picker, or past it and ending the session
  target,   \* the host pairInitProc was started with
  at,       \* at[p][r]: where the thread of role r stands
  exch,     \* exch[p][r]: the exchange that thread runs, 0 if none
  ends,     \* ends[x]: the initiator and the acceptor of exchange x
  mail,     \* mail[x][r]: what the side in role r has yet to read
  hungUp,   \* hungUp[x]: the roles whose end is closed
  keys      \* keys[p][q]: the exchange whose PSK p keeps for q, 0 if none

vars == <<active, engaged, ui, target, at, exch, ends, mail, hungUp, keys>>
sessionVars == <<active, engaged, ui, target>>
wireVars == <<ends, mail, hungUp>>

Role == {"init", "acc"}
Opposite(r) == IF r = "init" THEN "acc" ELSE "init"
InExchange == {"begin", "awaitCommit", "awaitReveal", "confirm"}
Dialing == {"dialing", "hanging"}
Place == {"off", "starting", "checking", "listening", "accepted"} \cup Dialing \cup InExchange
Exchanges == 1..MaxExchanges

TypeOK ==
  /\ active \in [Peer -> BOOLEAN]
  /\ engaged \in [Peer -> BOOLEAN]
  /\ ui \in [Peer -> {"idle", "picker", "ending"}]
  /\ target \in [Peer -> Peer \cup {NoPeer}]
  /\ at \in [Peer -> [Role -> Place]]
  /\ ends \in Seq([Role -> Peer]) /\ Len(ends) <= MaxExchanges
  /\ exch \in [Peer -> [Role -> 0..Len(ends)]]
  /\ mail \in [Exchanges -> [Role -> Seq({"commit", "reveal"})]]
  /\ hungUp \in [Exchanges -> SUBSET Role]
  /\ keys \in [Peer -> [Peer -> 0..MaxExchanges]]
  /\ \A p \in Peer, r \in Role :
       at[p][r] \in InExchange \cup {"accepted"} => exch[p][r] # 0

Init ==
  /\ active = [p \in Peer |-> FALSE]
  /\ engaged = [p \in Peer |-> FALSE]
  /\ ui = [p \in Peer |-> "idle"]
  /\ target = [p \in Peer |-> NoPeer]
  /\ at = [p \in Peer |-> [r \in Role |-> "off"]]
  /\ exch = [p \in Peer |-> [r \in Role |-> 0]]
  /\ ends = <<>>
  /\ mail = [x \in Exchanges |-> [r \in Role |-> <<>>]]
  /\ hungUp = [x \in Exchanges |-> {}]
  /\ keys = [p \in Peer |-> [q \in Peer |-> 0]]
----------------------------------------------------------------------------
Goes(p, r, place) == at' = [at EXCEPT ![p][r] = place]

(* endPairingSession; its WM_CLOSE takes the user out of the picker, which   *)
(* finds the session engaged.                                               *)
EndPairingSession(p) ==
  /\ active' = [active EXCEPT ![p] = FALSE]
  /\ ui' = [ui EXCEPT ![p] = IF @ = "picker" THEN "idle" ELSE @]

(* The menu's "Add device": joins the threads of the last session first, however
   long they take. *)
AddDevice(p) ==
  /\ ~active[p]
  /\ ui[p] = "idle"
  /\ \A r \in Role : at[p][r] = "off"
  /\ engaged' = [engaged EXCEPT ![p] = FALSE]
  /\ active' = [active EXCEPT ![p] = TRUE]
  /\ Goes(p, "acc", "checking")
  /\ ui' = [ui EXCEPT ![p] = "picker"]
  /\ UNCHANGED <<target, exch, keys, wireVars>>

(* The picker lists the devices that are not paired yet. *)
Pick(p, q) ==
  /\ ui[p] = "picker"
  /\ q # p
  /\ keys[p][q] = 0
  /\ at[p]["init"] = "off"
  /\ ui' = [ui EXCEPT ![p] = "idle"]
  /\ target' = [target EXCEPT ![p] = q]
  /\ Goes(p, "init", "starting")
  /\ UNCHANGED <<active, engaged, exch, keys, wireVars>>

(* The picker is closed without a choice: pairEngaged is read ... *)
Cancel(p) ==
  /\ ui[p] = "picker"
  /\ ui' = [ui EXCEPT ![p] = IF engaged[p] THEN "idle" ELSE "ending"]
  /\ UNCHANGED <<active, engaged, target, at, exch, keys, wireVars>>

(* ... and the session ended if nothing had engaged it by then. *)
EndCancelled(p) ==
  /\ ui[p] = "ending"
  /\ ui' = [ui EXCEPT ![p] = "idle"]
  /\ active' = [active EXCEPT ![p] = FALSE]
  /\ UNCHANGED <<engaged, target, at, exch, keys, wireVars>>
----------------------------------------------------------------------------
(* pairInitProc up to its loop: an atomic exchange of pairEngaged. *)
InitStarts(p) ==
  /\ at[p]["init"] = "starting"
  /\ engaged' = [engaged EXCEPT ![p] = TRUE]
  /\ Goes(p, "init", IF engaged[p] THEN "off" ELSE "dialing")
  /\ UNCHANGED <<active, ui, target, exch, keys, wireVars>>

(* Mutant: the session is left running when the peer cannot be reached. *)
DialGivesUp_KeepsSession(p) ==
  /\ at[p]["init"] = "dialing"
  /\ Goes(p, "init", "off")
  /\ UNCHANGED <<sessionVars, exch, keys, wireVars>>

(* The loop ends without a connection: 15 s have passed when a connect returns. *)
DialGivesUp(p) ==
  /\ at[p]["init"] = "dialing"
  /\ Goes(p, "init", "off")
  /\ EndPairingSession(p)
  /\ UNCHANGED <<engaged, target, exch, keys, wireVars>>

(* The upgrade of a connection is never answered, and the connection does not end
   either: connect reads on, without a limit.  (acceptServerSide may, too: it keeps
   its thread, which holds no session, and is left out here.) *)
DialHangs(p) ==
  /\ at[p]["init"] = "dialing"
  /\ Goes(p, "init", "hanging")
  /\ UNCHANGED <<sessionVars, exch, keys, wireVars>>

(* Mutant: the acceptor does not keep the connection it has accepted. *)
Connect_AcceptorForgets(p, q) ==
  LET x == Len(ends) + 1
  IN  /\ at[p]["init"] = "dialing"
      /\ active[p]
      /\ target[p] = q
      /\ at[q]["acc"] = "listening"
      /\ x <= MaxExchanges
      /\ ends' = Append(ends, [init |-> p, acc |-> q])
      /\ at' = [at EXCEPT ![p]["init"] = "begin", ![q]["acc"] = "accepted"]
      /\ exch' = [exch EXCEPT ![p]["init"] = x]
      /\ UNCHANGED <<sessionVars, mail, hungUp, keys>>

(* The dial is answered inside wsAcceptOne of the other machine. *)
Connect(p, q) ==
  LET x == Len(ends) + 1
  IN  /\ at[p]["init"] = "dialing"
      /\ active[p]
      /\ target[p] = q
      /\ at[q]["acc"] = "listening"
      /\ x <= MaxExchanges
      /\ ends' = Append(ends, [init |-> p, acc |-> q])
      /\ at' = [at EXCEPT ![p]["init"] = "begin", ![q]["acc"] = "accepted"]
      /\ exch' = [exch EXCEPT ![p]["init"] = x, ![q]["acc"] = x]
      /\ UNCHANGED <<sessionVars, mail, hungUp, keys>>

(* Mutant: the acceptor that leaves its loop ends the session. *)
AcceptChecks_EndsSession(p) ==
  /\ at[p]["acc"] = "checking"
  /\ IF active[p] /\ ~engaged[p]
     THEN Goes(p, "acc", "listening") /\ UNCHANGED <<active, ui>>
     ELSE Goes(p, "acc", "off") /\ EndPairingSession(p)
  /\ UNCHANGED <<engaged, target, exch, keys, wireVars>>

(* pairAcceptProc: the condition of the loop. *)
AcceptChecks(p) ==
  /\ at[p]["acc"] = "checking"
  /\ Goes(p, "acc", IF active[p] /\ ~engaged[p] THEN "listening" ELSE "off")
  /\ UNCHANGED <<sessionVars, exch, keys, wireVars>>

(* 500 ms without a connection. *)
AcceptTimesOut(p) ==
  /\ at[p]["acc"] = "listening"
  /\ Goes(p, "acc", "checking")
  /\ UNCHANGED <<sessionVars, exch, keys, wireVars>>

Close(x, r) == hungUp' = [hungUp EXCEPT ![x] = @ \cup {r}]
Leaves(p, r) == exch' = [exch EXCEPT ![p][r] = 0]

(* Mutant: the acceptor does not ask whether this machine has initiated. *)
AcceptEngages_Unchecked(p) ==
  /\ at[p]["acc"] = "accepted"
  /\ engaged' = [engaged EXCEPT ![p] = TRUE]
  /\ ui' = [ui EXCEPT ![p] = IF @ = "picker" THEN "idle" ELSE @]
  /\ Goes(p, "acc", "begin")
  /\ UNCHANGED <<active, target, exch, keys, wireVars>>

(* pairEngaged is exchanged; the WM_CLOSE it posts dismisses the picker. *)
AcceptEngages(p) ==
  /\ at[p]["acc"] = "accepted"
  /\ engaged' = [engaged EXCEPT ![p] = TRUE]
  /\ IF engaged[p]
     THEN /\ Goes(p, "acc", "off")
          /\ Close(exch[p]["acc"], "acc")
          /\ Leaves(p, "acc")
          /\ UNCHANGED <<ui, mail>>
     ELSE /\ Goes(p, "acc", "begin")
          /\ ui' = [ui EXCEPT ![p] = IF @ = "picker" THEN "idle" ELSE @]
          /\ UNCHANGED <<exch, hungUp, mail>>
  /\ UNCHANGED <<active, target, keys, ends>>
----------------------------------------------------------------------------
(* runPairingSession, in either role. *)

Send(x, r, message) ==
  mail' = [mail EXCEPT ![x][Opposite(r)] =
             IF Opposite(r) \in hungUp[x] THEN @ ELSE Append(@, message)]

(* The session is over, whatever came of it: the connection is closed. *)
SessionEnds(p, r) ==
  /\ Goes(p, r, "off")
  /\ Leaves(p, r)
  /\ Close(exch[p][r], r)
  /\ EndPairingSession(p)
  /\ UNCHANGED <<engaged, target, mail, ends>>

(* PairingExchange::start: round 1. *)
Start(p, r) ==
  /\ at[p][r] = "begin"
  /\ Send(exch[p][r], r, "commit")
  /\ Goes(p, r, "awaitCommit")
  /\ UNCHANGED <<sessionVars, exch, keys, ends, hungUp>>

(* PairingExchange::poll on a message; it answers a commitment with round 2. *)
PollReceives(p, r) ==
  LET x == exch[p][r]
      wanted == IF at[p][r] = "awaitCommit" THEN "commit" ELSE "reveal"
  IN  /\ at[p][r] \in {"awaitCommit", "awaitReveal"}
      /\ mail[x][r] # <<>>
      /\ Head(mail[x][r]) = wanted
      /\ LET read == [mail EXCEPT ![x][r] = Tail(@)]
         IN  IF wanted = "commit"
             THEN /\ mail' = [read EXCEPT ![x][Opposite(r)] =
                        IF Opposite(r) \in hungUp[x] THEN @ ELSE Append(@, "reveal")]
                  /\ Goes(p, r, "awaitReveal")
             ELSE mail' = read /\ Goes(p, r, "confirm")
      /\ UNCHANGED <<sessionVars, exch, keys, ends, hungUp>>

(* The exchange fails: the start or a poll reports an error, or 30 s pass. *)
ExchangeFails(p, r) ==
  /\ at[p][r] \in {"begin", "awaitCommit", "awaitReveal"}
  /\ SessionEnds(p, r)
  /\ UNCHANGED keys

(* confirmPairingCode: on a yes the PSK and the device are stored. *)
Answer(p, r, yes) ==
  /\ at[p][r] = "confirm"
  /\ LET x == exch[p][r]
     IN  keys' = IF yes THEN [keys EXCEPT ![p][ends[x][Opposite(r)]] = x] ELSE keys
  /\ SessionEnds(p, r)

Threads(p) ==
  \/ EndCancelled(p)
  \/ InitStarts(p)
  \/ DialGivesUp(p)
  \/ \E q \in Peer : Connect(p, q)
  \/ AcceptChecks(p)
  \/ AcceptTimesOut(p)
  \/ AcceptEngages(p)
  \/ \E r \in Role : Start(p, r) \/ PollReceives(p, r) \/ ExchangeFails(p, r)

User(p) == AddDevice(p) \/ Cancel(p) \/ \E q \in Peer : Pick(p, q)

Next == \E p \in Peer :
  \/ Threads(p)
  \/ User(p)
  \/ DialHangs(p)
  \/ \E r \in Role, yes \in BOOLEAN : Answer(p, r, yes)

Spec == Init /\ [][Next]_vars

(* Threads run on while what they wait for has a limit: no one is made to answer a
   dialog, nothing is made to fail, and nothing ends a dial that hangs. *)
ThreadFairness(p) ==
  /\ WF_vars(EndCancelled(p))
  /\ WF_vars(InitStarts(p))
  /\ WF_vars(DialGivesUp(p) \/ \E q \in Peer : Connect(p, q))
  /\ WF_vars(AcceptChecks(p))
  /\ WF_vars(AcceptTimesOut(p) \/ \E q \in Peer : Connect(q, p))
  /\ WF_vars(AcceptEngages(p))
  /\ \A r \in Role : WF_vars(Start(p, r) \/ PollReceives(p, r) \/ ExchangeFails(p, r))

FairSpec == Spec /\ \A p \in Peer : ThreadFairness(p)
----------------------------------------------------------------------------
(* Properties *)

Running(p, r) == at[p][r] \in InExchange

(* "one exchange per session (init XOR accept)" (pairEngaged): the two threads
   of a machine never run an exchange each, whatever the order in which the
   user picks, the peer dials and sessions are begun again. *)
OneExchangePerSession == \A p \in Peer : ~(Running(p, "init") /\ Running(p, "acc"))

(* pairInitProc's dial is gated on pairingActive: nothing of the same session,
   the leaving acceptor first of all, ends the session under a dial. *)
DialKeepsItsSession == \A p \in Peer : at[p]["init"] \in Dialing => active[p]

(* A session that is not waiting for its user, in the picker or in front of a
   code, comes to its end: the limits of 15 s on the dial and of 30 s on the
   exchange see to that, but for a dial whose upgrade is never answered, which
   they do not reach. *)
WaitsForUser(p) == ui[p] = "picker" \/ \E r \in Role : at[p][r] = "confirm"
SessionsEnd == \A p \in Peer :
  active[p] ~> ~active[p] \/ WaitsForUser(p) \/ at[p]["init"] = "hanging"

(* "on mutual confirm, stores the PSK" (pairing_exchange.h): when no exchange is
   running, two machines have the same key for each other, or none. *)
AllIdle == \A p \in Peer : \A r \in Role : at[p][r] \notin InExchange
StoredOnMutualConfirm == AllIdle => \A p, q \in Peer : keys[p][q] = keys[q][p]

(* "The first side to connect wins the pairEngaged race; the other becomes the
   acceptor" (pairAcceptProc): the machine a dial has reached goes on to run the
   exchange as its acceptor, also when it was about to dial itself. *)
TheOtherAccepts == [][\A p \in Peer :
  at[p]["acc"] = "accepted" => at'[p]["acc"] \in {"accepted", "begin"}]_vars
=============================================================================
