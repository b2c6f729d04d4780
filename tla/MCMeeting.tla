----------------------------- MODULE MCMeeting -----------------------------
(***************************************************************************)
(* Instances of Meeting for TLC.                                           *)
(***************************************************************************)
EXTENDS Meeting, MCPeers
=============================================================================
