------------------------------- MODULE MCMedia -------------------------------
(***************************************************************************)
(* Instances of MeetingMedia for TLC.                                      *)
(***************************************************************************)
EXTENDS MeetingMedia, MCPeers
=============================================================================
