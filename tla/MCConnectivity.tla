---------------------------- MODULE MCConnectivity ----------------------------
(***************************************************************************)
(* Small deployments for TLC: "near" serves every environment, "far" only  *)
(* "prod"; two processes may share the credential "near".                  *)
(***************************************************************************)
EXTENDS Connectivity

WorkerGrants == [w \in Workers |-> IF w = "near" THEN Envs ELSE Envs \cap {"prod"}]

(* Processes "n1" and "n2" are replicas with one credential. *)
CredentialOf == [p \in Pollers |-> IF p = "f1" THEN "far" ELSE "near"]
===============================================================================
