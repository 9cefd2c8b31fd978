----------------------------- MODULE MCPortForwards -----------------------------
(***************************************************************************)
(* Instances of PortForwards for TLC.                                      *)
(***************************************************************************)
EXTENDS PortForwards, TLC

=============================================================================
