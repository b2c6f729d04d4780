------------------------------- MODULE MCMesh -------------------------------
(***************************************************************************)
(* Instances of Mesh for TLC.                                              *)
(***************************************************************************)
EXTENDS Mesh, TLC

CONSTANTS ann, ben, eve

Guests == Permutations({ben, eve})
=============================================================================
