----------------------------- MODULE MCOttControl -----------------------------
(* The OTT portal and its UE by themselves, for what the portal's stop     *)
(* promises.                                                               *)
EXTENDS OttControl
===============================================================================
