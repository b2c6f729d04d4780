------------------------------- MODULE MCPeers -------------------------------
(***************************************************************************)
(* The peers of the instances of Meeting and MeetingMedia for TLC.         *)
(***************************************************************************)
EXTENDS LanPeers, TLC

CONSTANTS ann, ben, cyd

\* Every peer on a machine of its own, named like it.
OwnMachine == [p \in Peers |-> p]

\* The first machine has two meetings.
TwoMeetings == [p \in Peers |-> IF p = ben THEN ann ELSE p]

Guests == Permutations({ben, cyd})
=============================================================================
