---------------------------- MODULE MCMessageLog ----------------------------
(***************************************************************************)
(* Instances of MessageLog for TLC.                                        *)
(***************************************************************************)
EXTENDS MessageLog, TLC

CONSTANTS ann, ben, eve
=============================================================================
