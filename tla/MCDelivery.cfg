\* Two runs of one workflow, two workers of which one has a GitHub App, a
\* workflow run that may be run again and a pushed one; one fault.
SPECIFICATION FairSpec
CONSTANTS
  NULL = NULL
  Runs = {1, 2}
  RunTarget <- SameWorkflow
  Workers = {"w1", "w2"}
  AppWorkers = {"w1"}
  CIRuns = {"c1", "c2"}
  Conclusions = {"success", "skipped"}
  Pushed = {"c2"}
  Rerunnable = {"c1"}
  MaxFaults = 1
INVARIANTS
  SuccessIsReal
  InHand
PROPERTIES
  StepsOfLifecycle
  MintedRunReported
CHECK_DEADLOCK FALSE
