\* A bootstrapping worker, the enrolment of another, a grant; one failure: a
\* process dies, an answer is lost, or a handler stops half-way.
SPECIFICATION FairSpec
CONSTANTS
  NULL = NULL
  Names = {"fleet", "edge"}
  Envs = {"prod", "staging"}
  Repos = {"app"}
  PipelinesOf <- RepoPipelines
  Workers = {"a", "e"}
  NameOf <- DeployedName
  URLOf <- DeployedURL
  Bootstrapping = {"a"}
  Orders = {"enrol", "grant"}
  OrderOf <- RequestedOrders
  MaxTokens = 4
  MaxFailures = 1
INVARIANTS
  TypeOK
  GrantsAreOrders
  ServedInScope
  DiscoveryScoped
PROPERTIES
  EventuallyPolling
  GrantReachesWorker
CHECK_DEADLOCK FALSE
