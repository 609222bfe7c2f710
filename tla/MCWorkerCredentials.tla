------------------------- MODULE MCWorkerCredentials --------------------------
(***************************************************************************)
(* Small deployments for TLC.  Deployment "a" bootstraps under the name    *)
(* "fleet"; "e" is configured with the token of an enrolment.              *)
(***************************************************************************)
EXTENDS WorkerCredentials

DeployedName == [w \in Workers |-> IF w = "e" THEN "edge" ELSE "fleet"]

DeployedURL == [w \in Workers |-> IF w = "e" THEN "https://e" ELSE "https://a"]

RepoPipelines == [r \in Repos |-> IF r = "app" THEN {"prod"} ELSE {"staging"}]

(* The root actor enrols "edge" for every environment; a grant to "fleet" is *)
(* asked for by one who has that environment, or by one who has only others. *)
RequestedOrders ==
  [o \in Orders |->
     [kind   |-> IF o = "enrol" THEN "enrol" ELSE "grant",
      name   |-> IF o = "enrol" THEN "edge" ELSE "fleet",
      envs   |-> IF o = "enrol" THEN Envs ELSE {"prod"},
      scopes |-> IF o = "enrol" THEN {Envs} ELSE {{"prod"}, Envs \ {"prod"}}]]
===============================================================================
