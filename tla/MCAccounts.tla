----------------------------- MODULE MCAccounts -----------------------------
(***************************************************************************)
(* Instances of Accounts for TLC.                                          *)
(***************************************************************************)
EXTENDS Accounts, TLC

CONSTANTS ann, home, work, x, y

\* Nobody is registered, or ann is and one device remembers her.
EmptyOrAnn == {{}, {<<home, ann>>}}
=============================================================================
