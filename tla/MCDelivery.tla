------------------------------ MODULE MCDelivery ------------------------------
(***************************************************************************)
(* Small deliveries for TLC: every run belongs to one workflow, which is   *)
(* where callbacks can be confused.                                        *)
(***************************************************************************)
EXTENDS Delivery

SameWorkflow == [r \in Runs |-> "deploy"]
===============================================================================
