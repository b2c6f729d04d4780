------------------------------ MODULE LanPeers ------------------------------
(***************************************************************************)
(* The peers of LAN meetings and the machines they are on.  A client draws *)
(* a new peer id for every meeting it creates or joins (commands.rs), so   *)
(* that a peer is one meeting of one machine.                              *)
(***************************************************************************)
EXTENDS FiniteSets

CONSTANTS
    Peers,
    NoPeer,
    Machines,
    MachineOf       \* peer -> the machine whose meeting it is

ASSUME PeersAreFinite == IsFiniteSet(Peers) /\ NoPeer \notin Peers
ASSUME MachineOfIsFunction == MachineOf \in [Peers -> Machines]
=============================================================================
