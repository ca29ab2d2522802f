------------------------------ MODULE MCMeshNode ------------------------------
(* Instances of MeshNode for TLC. *)
EXTENDS MeshNode

(* The lists the tray application configures: the paired devices, in the order
   of pairing, and never the machine itself (tray_win.cpp, setPriority). *)
PairedPriority == [p \in Peer |-> SelectSeq(<<3, 2, 1>>, LAMBDA q : q \in Peer \ {p})]

(* A mesh of connected machines in which the last machine loses its links one
   after the other, at any time, for good: it crashes, or its network does.  A
   peer is found silent once its wire is broken and drained, as it is when
   time-outs are long against delays. *)
DecayNext ==
  \/ \E p, q \in Peer : \/ WireDown(p, q) /\ q = 3
                        \/ RemovePeer(p, q) \/ PollRecv(p, q) \/ RequestSwitchTo(p, q)
  \/ \E p \in Peer : \E silent \in {{}, Gone(p)} : PollEnd(p, silent)

DecaySpec == StableInit /\ [][DecayNext]_vars
=============================================================================
