\* Bodies whose ttl_seconds overflows a duration.
SPECIFICATION Spec
CONSTANTS
  NULL = NULL
  Sessions <- Enrolling
  Environments = {"e1", "e2"}
  Keys = {"k"}
  Orders <- Bodies
  Agents = {11, 12}
  Requests = {q1, q2}
  HalfWord = 128
  Second = 4
  MaxAgentTTL = 8
  MaxTicks = 2
INVARIANTS
  TTLSecondsChecked
CHECK_DEADLOCK FALSE
