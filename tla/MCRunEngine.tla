----------------------------- MODULE MCRunEngine ------------------------------
(***************************************************************************)
(* Small deployments for TLC.  Pipelines: "plan" does not mutate, "apply"  *)
(* does, "legacy" belongs to a provider without an adapter.                *)
(***************************************************************************)
EXTENDS RunSafety

AllTiers == [reader |-> TierReadOnly, agent |-> TierHumanInTheLoop,
             lead |-> TierAutonomous]

TwoTiers == [agent |-> TierHumanInTheLoop, lead |-> TierAutonomous]

IsMutating == [p \in Pipelines |-> p # "plan"]

WithAdapter == Pipelines \ {"legacy"}

(* One repository: every pipeline but "legacy" is the same workflow, and so *)
(* are the claims of every CI run.                                          *)
PipelineTarget == [p \in Pipelines |-> IF p = "legacy" THEN "jenkins" ELSE "github"]
CIClaims == [c \in CIRuns |-> "github"]

(* Worker "near" serves every environment, "far" only "prod". *)
WorkerGrants == [w \in Workers |-> IF w = "near" THEN Envs ELSE Envs \cap {"prod"}]
===============================================================================
