\* Two requests of any session with any body; the second may retry the first.
SPECIFICATION Spec
CONSTANTS
  NULL = NULL
  Sessions <- Enrolling
  Environments = {"e1", "e2"}
  Keys = {"k"}
  Orders <- Bodies
  Agents = {11, 12}
  Requests = {q1, q2}
  HalfWord = 128
  Second = 4
  MaxAgentTTL = 8
  MaxTicks = 2
SYMMETRY Symmetric
INVARIANTS
  TypeOK
  NoEscalation
  OneAgentPerKey
  ScopeOnRecord
  LifeBounded
CHECK_DEADLOCK FALSE
