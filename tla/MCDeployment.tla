---------------------------- MODULE MCDeployment ----------------------------
(* Small instances of Deployment. *)
EXTENDS Deployment, TLC

Symmetry == Permutations(Requests)
=============================================================================
