\* The documented rate of $0.008 for a minute, and one that is a whole number
\* of micro-units for a millisecond.
SPECIFICATION Spec
CONSTANTS
  NULL = NULL
  ActorTier <- LeadAlone
  Environments = {"prod"}
  Elsewhere = {}
  Providers = {"github_actions"}
  KnownProviders = {"github_actions"}
  PerMinute = {8000, 60000}
  Currencies = {"USD"}
  MsPerMinute = 60000
  TickMs = 60000
  HalfWord = 536870912
  Runs = {r1}
  MaxPipelines = 1
  MaxRates = 1
  MaxTime = 60000
  MaxFaults = 0
INVARIANTS
  MinuteCostsItsRate
CHECK_DEADLOCK FALSE
