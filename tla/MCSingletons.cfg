\* Three replicas start, crash and tick; opt-out, opt-in and opt-out again;
\* replicas are interchangeable, and no liveness is checked here.
SPECIFICATION Spec
CONSTANTS
  NULL = NULL
  Replicas = {r1, r2, r3}
  Senders = {r1, r2, r3}
  Calls = {c1}
  MaxStarts = 2
  MaxTicks = 2
  MaxToggles = 3
  MaxFaults = 2
INVARIANTS
  TypeOK
  OptOutTakesEffect
SYMMETRY Interchangeable
PROPERTIES
  RefinesChooseOnce
CHECK_DEADLOCK FALSE
