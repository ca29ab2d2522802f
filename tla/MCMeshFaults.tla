----------------------------- MODULE MCMeshFaults -----------------------------
(***************************************************************************)
(* The mesh under faults its own documentation speaks about: what a later  *)
(* switch repairs after machines have reverted to local control, what      *)
(* becomes of the order over claims when a machine restarts, and which     *)
(* coordinator a settled mesh elects.                                      *)
(***************************************************************************)
EXTENDS MCMeshNode

VARIABLE repaired   \* history: a switch was made in a fully linked mesh, and
                    \* nothing broke, went silent or reverted since

FullyLinked == \A p \in Peer : /\ peers[p] = Others(p) /\ alive[p] = Others(p)
                               /\ \A q \in Others(p) : Wired(p, q)

(* A mesh whose wires never break; only delays, or a stalled machine, make
   peers look silent for a while.  With the history of switches. *)
RepairInit == StableInit /\ repaired = FALSE
RepairNext ==
  /\ Next
  /\ UNCHANGED wire
  /\ repaired' = IF \E p, t \in Peer : RequestSwitchTo(p, t)
                 THEN FullyLinked
                 ELSE repaired /\ FullyLinked' /\ issued' = issued
RepairSpec == RepairInit /\ [][RepairNext]_<<vars, repaired>>

(* After a revert to local control, "a later explicit switch re-establishes a
   single mesh-wide owner" (mesh_node.cpp, refreshOnlineAndFailSafe): once it
   was made in a fully linked mesh and every claim has arrived, all machines
   name the same owner. *)
LaterSwitchGivesSingleOwner ==
  repaired /\ Quiet /\ (\A p \in Peer : AtRest(p))
    => \A p, q \in Peer : Owner(p) = Owner(q)

(* The application at p is killed or the machine loses power, and it starts
   again: nothing of MeshNode is persisted, what p sent may still arrive. *)
Restart(p) ==
  /\ own' = [own EXCEPT ![p] = BootState(p)]
  /\ peers' = [peers EXCEPT ![p] = {}]
  /\ alive' = [alive EXCEPT ![p] = {}]
  /\ fresh' = [fresh EXCEPT ![p] = {}]
  /\ peerOnline' = [peerOnline EXCEPT ![p] = {}]
  /\ priority' = [priority EXCEPT ![p] = ConfigPriority[p]]
  /\ online' = [online EXCEPT ![p] = {}]
  /\ wire' = {w \in wire : p \notin w}
  /\ chan' = [q \in Peer |-> [chan[q] EXCEPT ![p] = <<>>]]
  /\ UNCHANGED issued

RestartSpec ==
  /\ Init /\ repaired = FALSE
  /\ [][(Next \/ \E p \in Peer : Restart(p)) /\ UNCHANGED repaired]_<<vars, repaired>>

(* "A total order over claims ... so every machine independently computes the
   same winner" (ownership_state.h): of two different claims that two machines
   hold, one supersedes the other. *)
ClaimsAreTotallyOrdered ==
  \A p, q \in Peer :
    LET c == own[p].current
        d == own[q].current
    IN  claimSupersedes(c, d) \/ claimSupersedes(d, c) \/ c = d

(* "Every machine computes the same result with no negotiation" (server_
   election.h): when all are linked and have seen each other online, they name
   the same coordinator. *)
NoPrimary == 0
Primary(p) == currentServer(priority[p], online[p], NoPrimary)
SinglePrimary ==
  FullyLinked /\ (\A p \in Peer : online[p] = Peer)
    => \A p, q \in Peer : Primary(p) = Primary(q)

JoinSpec == Init /\ repaired = FALSE /\ [][Next /\ UNCHANGED repaired]_<<vars, repaired>>
=============================================================================
