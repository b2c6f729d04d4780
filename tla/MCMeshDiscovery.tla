--------------------------- MODULE MCMeshDiscovery ---------------------------
(***************************************************************************)
(* An instance of Mesh and one of Discovery in one run.  They share no     *)
(* variable and no action, so each is explored by itself: the other stays  *)
(* in its initial state.                                                   *)
(***************************************************************************)
EXTENDS MCMesh, Discovery

CONSTANTS home, other

\* All scans run on one machine.
HomeScans == [s \in Scans |-> home]

VARIABLE part   \* which of the two takes steps

AllInit == part \in {"mesh", "discovery"} /\ Init /\ DiscoveryInit

AllNext ==
    /\ UNCHANGED part
    /\ \/ part = "mesh" /\ Next /\ UNCHANGED discoveryVars
       \/ part = "discovery" /\ DiscoveryNext /\ UNCHANGED vars

AllSpec == AllInit /\ [][AllNext]_<<part, vars, discoveryVars>>
=============================================================================
