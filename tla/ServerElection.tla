---------------------------- MODULE ServerElection ----------------------------
(***************************************************************************)
(* The coordinator election of core/server_election: the first machine of  *)
(* the priority list that is online.  The list is a sequence of machines   *)
(* without repetition, the online list a set.                              *)
(***************************************************************************)
EXTENDS Integers, Sequences

Elements(list) == {list[i] : i \in DOMAIN list}

(* addToPriority / addUnique: append at lowest priority unless present. *)
addToPriority(list, id) == IF id \in Elements(list) THEN list ELSE Append(list, id)

(* currentServer: the first eligible machine that is online, or `none'. *)
currentServer(list, online, none) ==
  LET first == {i \in DOMAIN list : /\ list[i] \in online
                                    /\ \A j \in 1..(i - 1) : list[j] \notin online}
  IN  IF first = {} THEN none ELSE list[CHOOSE i \in first : TRUE]
=============================================================================
