--------------------------- MODULE OwnershipRegister ---------------------------
(***************************************************************************)
(* What the ownership protocol promises, without messages, links, clocks   *)
(* or time-outs: the machines replicate one register whose values are      *)
(* claims, totally ordered by (sequence, origin).  A machine either issues *)
(* a claim nobody issued before, above the one it holds, or adopts a claim *)
(* somebody did issue, again above the one it holds.                       *)
(*                                                                         *)
(* The promise is that of the comments in core/ownership_state.h (a total  *)
(* order over claims; every machine computes the same winner).             *)
(***************************************************************************)
EXTENDS OwnershipState

CONSTANT Times          \* the logical times a claim may carry

VARIABLES
  issued,     \* every claim ever issued, the machines' boot claims included
  view        \* the claim each machine currently holds

regVars == <<issued, view>>

RegTypeOK ==
  /\ issued \in SUBSET Claim
  /\ view \in [Peer -> Claim]

RegInit ==
  /\ issued = {BootClaim(p) : p \in Peer}
  /\ view = [p \in Peer |-> BootClaim(p)]

(* The issuer and the logical time identify a claim. *)
NewStamp(c) == \A d \in issued : <<d.origin, d.sequence>> # <<c.origin, c.sequence>>

Issue(p, c) ==
  /\ NewStamp(c)
  /\ claimSupersedes(c, view[p])
  /\ issued' = issued \cup {c}
  /\ view' = [view EXCEPT ![p] = c]

Adopt(p, c) ==
  /\ c \in issued
  /\ claimSupersedes(c, view[p])
  /\ view' = [view EXCEPT ![p] = c]
  /\ UNCHANGED issued

RegNext ==
  \E p \in Peer :
    \/ \E t \in Peer, s \in Times : Issue(p, [target |-> t, origin |-> p, sequence |-> s])
    \/ \E c \in issued : Adopt(p, c)

RegSpec == RegInit /\ [][RegNext]_regVars
=============================================================================
