--------------------------- MODULE ChunkOwnership ---------------------------
(***************************************************************************)
(* What the shared memory transport promises of a chunk: it belongs to one *)
(* process, or to the transport while it is on its way.  A process gets it *)
(* by allocation or from the transport, and gives it to the transport or   *)
(* frees it; nobody frees a chunk that is on its way.                      *)
(***************************************************************************)
CONSTANTS Processes, Handles

VARIABLE owner

Init == owner = [h \in Handles |-> "free"]

Moves(old, new) ==
    \/ old \in {"free", "wire"} /\ new \in Processes
    \/ old \in Processes /\ new \in {"free", "wire"}

Next ==
    /\ owner' \in [Handles -> Processes \cup {"free", "wire"}]
    /\ \A h \in Handles : owner'[h] = owner[h] \/ Moves(owner[h], owner'[h])

Spec == Init /\ [][Next]_owner
=============================================================================
