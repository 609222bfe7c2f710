\* Three operators race, one opts in, two share a username; one fault.
SPECIFICATION FairSpec
CONSTANTS
  NoSession = NoSession
  Operators = {"o1", "o2", "o3"}
  Username <- Usernames
  OptIn = {"o1"}
  MinPassword = {"o1", "o2", "o3"}
  MaxRuns = 3
  MaxFaults = 1
INVARIANTS
  AllOrNothing
PROPERTIES
  RefinesChooseOnce
  EventuallySetUp
CHECK_DEADLOCK FALSE
