\* One run, every tier and pipeline, two workers, two callbacks in flight,
\* and as many interruptions as River makes attempts.
SPECIFICATION FairSpec
CONSTANTS
  NULL = NULL
  Actors = {"reader", "agent", "lead"}
  ActorTier <- AllTiers
  Envs = {"prod"}
  Pipelines = {"plan", "apply", "legacy"}
  Mutating <- IsMutating
  Registered <- WithAdapter
  Target <- PipelineTarget
  Workers = {"near", "far"}
  Grants <- WorkerGrants
  CIRuns = {c1, c2}
  CITarget <- CIClaims
  Calls = {k1, k2}
  MaxRuns = 1
  MaxFaults = 2
  MaxAttempts = 2
INVARIANTS
  TypeOK
  ApprovalGate
  MintGate
  SoleHolder
  NoSilentLoss
  ClockAndCost
PROPERTIES
  OutcomeFinal
  RefinesLifecycle
  EventuallyDispatched
  UninterruptedRunStarts
CHECK_DEADLOCK FALSE
