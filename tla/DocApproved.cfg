\* An approved run and the policy re-check of Worker.Work.
SPECIFICATION Spec
CONSTANTS
  NULL = NULL
  Actors = {"agent", "lead"}
  ActorTier <- TwoTiers
  Envs = {"prod"}
  Pipelines = {"apply"}
  Mutating <- IsMutating
  Registered <- WithAdapter
  Target <- PipelineTarget
  Workers = {"near"}
  Grants <- WorkerGrants
  CIRuns = {c1}
  CITarget <- CIClaims
  Calls = {k1}
  MaxRuns = 1
  MaxFaults = 0
  MaxAttempts = 2
INVARIANT ApprovedRunsExecute
CHECK_DEADLOCK FALSE
