-------------------------- MODULE MCOperatorControl --------------------------
(* A small instance of OperatorControl: one NF, two sessions of one agent.   *)
EXTENDS OperatorControl
=============================================================================
