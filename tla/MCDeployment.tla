---------------------------- MODULE MCDeployment ----------------------------
(***************************************************************************)
(* Deployment with three commands and three versions of the ruleset.       *)
(***************************************************************************)
EXTENDS Deployment
=============================================================================
