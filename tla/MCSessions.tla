------------------------------ MODULE MCSessions ------------------------------
(***************************************************************************)
(* Sessions of one administrator for TLC.                                  *)
(***************************************************************************)
EXTENDS Sessions

Admin == [u \in {"admin"} |-> "root"]
===============================================================================
