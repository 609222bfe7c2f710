\* One environment being registered, two checks, two replicas of one worker;
\* one interruption or lost message.
SPECIFICATION FairSpec
CONSTANTS
  NULL = NULL
  Envs = {"prod"}
  Workers = {"near", "far"}
  Grants <- WorkerGrants
  Pollers = {"n1", "n2"}
  Credential <- CredentialOf
  MaxChecks = 2
  MaxFaults = 1
INVARIANTS
  TypeOK
  VerdictSound
  OneVerifier
PROPERTIES
  VerdictFinal
  EventuallyVerified
CHECK_DEADLOCK FALSE
