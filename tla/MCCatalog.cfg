\* Two runs, one pipeline, two rates among the four scopes; a minute has two
\* milliseconds, a word sixteen values.
SPECIFICATION Spec
CONSTANTS
  NULL = NULL
  ActorTier <- OneOfEach
  Environments = {"prod"}
  Elsewhere = {"nowhere"}
  Providers = {"github_actions", "make"}
  KnownProviders = {"github_actions"}
  PerMinute <- EnteredRates
  Currencies = {"USD"}
  MsPerMinute = 2
  TickMs = 1
  HalfWord = 8
  Runs = {r1, r2}
  MaxPipelines = 1
  MaxRates = 2
  MaxTime = 1
  MaxFaults = 1
INVARIANTS
  VouchedFor
  PricedAtReport
  RollupAgrees
SYMMETRY Interchangeable
CHECK_DEADLOCK FALSE
