-------------------------------- MODULE MCSetup -------------------------------
(***************************************************************************)
(* Small setups for TLC: two of three operators pick the same username.    *)
(***************************************************************************)
EXTENDS Setup

Usernames == [o \in Operators |-> IF o = "o3" THEN "ops" ELSE "admin"]
===============================================================================
