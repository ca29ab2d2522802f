--------------------------- MODULE SecureChannel ---------------------------
(***************************************************************************)
(* The sealed link of two paired machines (net/encrypted_transport): every *)
(* frame carries a nonce, the role of its sender and a counter, and the    *)
(* receiver takes a frame only if its counter is above the last it took.   *)
(*                                                                         *)
(* Nothing is assumed of the transport below: a frame that was sealed may  *)
(* arrive at either end, at any time and any number of times, or never,    *)
(* and it may arrive changed.                                              *)
(***************************************************************************)
EXTENDS Naturals, Sequences

CONSTANTS
  Low, High,  \* the ids of the two machines
  Plaintext,  \* what is sent
  Fits,       \* the payloads that fit in the buffer of the receiver
  MaxCtr      \* UINT64_MAX: the counter that is never used

ASSUME ChannelAssumption ==
  Low \in Nat /\ High \in Nat /\ Low < High /\ MaxCtr \in Nat /\ Fits \subseteq Plaintext

VARIABLES
  sendCtr,   \* sendCtr_: the counter of the next frame
  lastRecv,  \* lastRecvCtr_
  haveRecv,  \* haveRecv_
  sealed,    \* the frames handed to the transport below, at either end
  taken      \* taken[p]: history, the frames p has taken, in that order

channelVars == <<sendCtr, lastRecv, haveRecv, sealed, taken>>

Peer == {Low, High}
otherEnd(p) == IF p = Low THEN High ELSE Low

(* The machine with the smaller id is the Initiator, role byte 0. *)
linkRoleFor(self, peer) == IF self < peer THEN 0 ELSE 1

sendRole(p) == linkRoleFor(p, otherEnd(p))
recvRole(p) == IF sendRole(p) = 0 THEN 1 ELSE 0

Frame == [role : {0, 1}, ctr : 0..MaxCtr, data : Plaintext, intact : BOOLEAN]

ChannelTypeOK ==
  /\ sendCtr \in [Peer -> 0..MaxCtr]
  /\ lastRecv \in [Peer -> 0..MaxCtr]
  /\ haveRecv \in [Peer -> BOOLEAN]
  /\ sealed \subseteq Frame
  /\ taken \in [Peer -> Seq(Frame)]

ChannelInit ==
  /\ sendCtr = [p \in Peer |-> 0]
  /\ lastRecv = [p \in Peer |-> 0]
  /\ haveRecv = [p \in Peer |-> FALSE]
  /\ sealed = {}
  /\ taken = [p \in Peer |-> <<>>]
----------------------------------------------------------------------------
Seal(p, m) == [role |-> sendRole(p), ctr |-> sendCtr[p], data |-> m, intact |-> TRUE]

(* Mutant: the counter moves only when the transport has taken the frame. *)
SealedSend_CountsSuccess(p, m) ==
  /\ sendCtr[p] < MaxCtr
  /\ sealed' = sealed \cup {Seal(p, m)}
  /\ \E ok \in BOOLEAN : sendCtr' = [sendCtr EXCEPT ![p] = IF ok THEN @ + 1 ELSE @]
  /\ UNCHANGED <<lastRecv, haveRecv, taken>>

(* Mutant: the counter is not refused its last value. *)
SealedSend_Unlimited(p, m) ==
  /\ sealed' = sealed \cup {Seal(p, m)}
  /\ sendCtr' = [sendCtr EXCEPT ![p] = @ + 1]
  /\ UNCHANGED <<lastRecv, haveRecv, taken>>

(* send: the counter moves whatever inner_->send then reports, and a link whose
   counter is spent sends nothing. *)
SealedSend(p, m) ==
  /\ sendCtr[p] < MaxCtr
  /\ sealed' = sealed \cup {Seal(p, m)}
  /\ sendCtr' = [sendCtr EXCEPT ![p] = @ + 1]
  /\ UNCHANGED <<lastRecv, haveRecv, taken>>

SendRefused(p) == sendCtr[p] = MaxCtr /\ UNCHANGED channelVars

(* What the transport below can hand to recv. *)
Arrives == sealed \cup {[f EXCEPT !.intact = FALSE] : f \in sealed}

(* Mutant: the frame taken last is taken again. *)
Acceptable_Repeats(p, f) ==
  /\ f.role = recvRole(p)
  /\ haveRecv[p] => f.ctr >= lastRecv[p]
  /\ f.data \in Fits
  /\ f.intact

(* The checks of recv, in its order: role, counter, size, authentication. *)
Acceptable(p, f) ==
  /\ f.role = recvRole(p)
  /\ haveRecv[p] => f.ctr > lastRecv[p]
  /\ f.data \in Fits
  /\ f.intact

SealedRecv(p, f) ==
  /\ Acceptable(p, f)
  /\ haveRecv' = [haveRecv EXCEPT ![p] = TRUE]
  /\ lastRecv' = [lastRecv EXCEPT ![p] = f.ctr]
  /\ taken' = [taken EXCEPT ![p] = Append(@, f)]
  /\ UNCHANGED <<sendCtr, sealed>>

(* recv reports an error and leaves the link as it was. *)
RecvRejects(p, f) == ~Acceptable(p, f) /\ UNCHANGED channelVars

ChannelNext == \E p \in Peer :
  \/ \E m \in Plaintext : SealedSend(p, m)
  \/ SendRefused(p)
  \/ \E f \in Arrives : SealedRecv(p, f) \/ RecvRejects(p, f)

ChannelSpec == ChannelInit /\ [][ChannelNext]_channelVars
----------------------------------------------------------------------------
(* Properties *)

(* "a strictly-incrementing per-direction nonce counter -- never reused", and
   the two directions of a link "can never generate the same nonce": a nonce,
   the role and the counter, stands for one frame, whatever the transport below
   reports of a send. *)
NonceIsNeverReused ==
  \A f, g \in sealed : f.role = g.role /\ f.ctr = g.ctr => f = g

(* A counter is spent when sealed: what makes NonceIsNeverReused inductive. *)
SealedIsSpent ==
  \A f \in sealed : \E p \in Peer :
    f.role = sendRole(p) /\ f.ctr < sendCtr[p] /\ f.intact

(* What a machine takes is what the other has sealed, as it was, in the order in
   which it was sealed and each frame at most once, with whatever lost, repeated,
   reordered or sent back in between (recv). *)
Increasing(s) == \A i, j \in 1..Len(s) : i < j => s[i].ctr < s[j].ctr
TakesWhatWasSent == \A p \in Peer :
  /\ Increasing(taken[p])
  /\ \A i \in 1..Len(taken[p]) :
       taken[p][i] \in sealed /\ taken[p][i].role = sendRole(otherEnd(p))

(* The counter of the last frame taken covers every frame taken before: what
   makes the order inductive. *)
LastCovers == \A p \in Peer : \A i \in 1..Len(taken[p]) :
  haveRecv[p] /\ taken[p][i].ctr <= lastRecv[p]
=============================================================================
