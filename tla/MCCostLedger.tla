---------------------------- MODULE MCCostLedger ----------------------------
(* Instances of CostLedger for TLC. *)
EXTENDS CostLedger, TLC

=============================================================================
