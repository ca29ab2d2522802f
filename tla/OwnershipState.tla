---------------------------- MODULE OwnershipState ----------------------------
(***************************************************************************)
(* The input-owner state machine of one machine: core/ownership_state.     *)
(*                                                                         *)
(* A machine is named by its PeerId, a string compared with operator>; a   *)
(* PeerId is a natural number here, because only the total order matters.  *)
(* The 64-bit logical clock is a natural number: it grows by one per       *)
(* switch, so 2^64 of them are needed to wrap it.                          *)
(***************************************************************************)
EXTENDS Integers

CONSTANT Peer           \* the machines of the mesh

ASSUME PeerAssumption == Peer \subseteq Nat

(* OwnershipClaim: who should own input, who says so, and the logical time. *)
Claim == [target : Peer, origin : Peer, sequence : Nat]

(* The two fields of OwnershipState besides self_. *)
OwnState == [current : Claim, clock : Nat]

(* Mutant: the logical time alone decides, so the first of a tie wins. *)
claimSupersedes_NoTieBreak(candidate, current) == candidate.sequence > current.sequence

(* The total order over claims: logical time first, then the issuer's id. *)
claimSupersedes(candidate, current) ==
  \/ candidate.sequence > current.sequence
  \/ /\ candidate.sequence = current.sequence
     /\ candidate.origin > current.origin

(* Mutant: the node is built before its identity is known, with the id "". *)
BootClaim_NoIdentity(self) == [target |-> 0, origin |-> 0, sequence |-> 0]

(* The constructor: a machine starts owning itself at logical time 0. *)
BootClaim(self) == [target |-> self, origin |-> self, sequence |-> 0]
BootState(self) == [current |-> BootClaim(self), clock |-> 0]

(* Mutant: the clock does not move with the claims that are seen. *)
applyClaim_NoClock(st, claim) ==
  [st EXCEPT !.current = IF claimSupersedes(claim, @) THEN claim ELSE @]

(* applyClaim: the clock never falls behind a claim that was seen, and the
   claim is adopted only if it supersedes the current one. *)
applyClaim(st, claim) ==
  [current |-> IF claimSupersedes(claim, st.current) THEN claim ELSE st.current,
   clock   |-> IF claim.sequence > st.clock THEN claim.sequence ELSE st.clock]

(* requestSwitchTo: the claim it builds and returns. The caller also applies
   it, with applyClaim, before anyone else can see it. *)
SwitchClaim(self, st, target) ==
  [target |-> target, origin |-> self, sequence |-> st.clock + 1]
=============================================================================
