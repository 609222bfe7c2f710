# Verification of agentic-idp

TLA+ models of the control plane, the remote worker and the command line client
of agentic-idp, the TLC runs that check them on small deployments, and TLAPS
proofs of what matters most for deployments of any size.

## The system and its parts

agentic-idp lets humans and AI agents run pipelines in a customer's CI, with
credentials scoped to a trust tier. The control plane (Go, Postgres, the River
job queue) never holds cloud credentials; a worker in the customer's network
polls it, triggers the pipeline, and answers the CI job's callback with
short-lived credentials.

| Component | State | Operations | What makes it correct |
|---|---|---|---|
| Policy gate (`policy`, `pkg/identity`) | none | `Check(tier, mutating)` | deny, ask or allow per tier, fail closed on an unknown one |
| Run state machine (`execution`, `api/runs.go`) | `runs`, `approvals` | request, decide, claim, report, resolve | one decision per approval, one claimant per run, final outcomes, status and decision agree |
| River queue (`execution/queue.go`) | `river_job` | enqueue, fetch, retry, discard, `Worker.Work` | no queued run is forgotten while attempts are left |
| Credential-mint gate (`handlePostWorkerRunResolve`) | `runs.ci_external_ref`, `audit_events` | find, update, re-check, audit, reveal | a role is revealed only if policy allows, audited, to one CI run at a time |
| Worker poller (`worker/internal/poller`) | the job in hand | poll, check, trigger, report | reports only what it was given, loses nothing it was given |
| CI callback (`worker/internal/ciauth`, `worker/internal/ci`) | detached status polls | verify, resolve, mint, poll, report | a success is a real one; every run given credentials is reported or timed out |
| Environments (`environment`, `api/environments.go`) | `environments`, `environment_aws_config`, `environment_aws_tier_roles` | register | an environment is usable only when complete |
| Verification queue (`verification`, `api/verifications.go`) | `environment_verifications` | request, claim, complete | a verdict is about all three tiers and never changes |
| Worker credentials (`workercred`, `api/workers.go`, `worker/internal/service`) | `worker_credentials` and their environments, the worker process | enrol, bootstrap (mint or rotate by name), grant, authenticate, register and discover callbacks | grants outlive rotations and come from those who may give them; requests are served in scope |
| Agents and actors (`actor`, `api/agents.go`) | `actors`, `actor_environments` | enrol, retry | nobody hands out more than it has; a key yields one agent |
| Sessions and tokens (`session`, `credential`, `pkg/identity`, `api/auth.go`) | `revoked_sessions`, issued tokens | log in, verify, revoke, prune | what is revoked is not accepted again |
| Setup and tenant (`api/setup.go`, `tenant`, `cli/.../setup.go`) | every first row, the session file | setup, telemetry toggle | one tenant with all its rows or nothing, and eventually one |
| Pipelines (`api/pipelines.go`) | `pipelines` | register | what the read-only tier may run was vouched for |
| Cost (`cost`, `api/cost.go`, `cli/.../cost.go`) | `cost_rates`, `run_costs` | set rate, capture, roll up | one cost per run, at a rate in force; totals agree with rows |
| Audit (`audit`) | `audit_events` | append | append-only; written before what it records is answered |
| Telemetry, signing key (`telemetry`, `signingkey`) | singleton rows, memory of each replica | load or create, tick | all replicas agree; an opt-out takes effect |

How they interact: HTTP handlers call stores, stores issue single SQL statements
(only `createRunWithApproval` and setup open a transaction), `Store.Request` and
`Store.Decide` insert River jobs, River calls `Worker.Work` in any replica, the
worker polls over HTTP and relays the callbacks of CI jobs. All shared state is
in Postgres.

What is hard here: every handler is a sequence of statements that any other
handler on any replica may interleave with and that may stop after any of them;
River redelivers; callbacks are retried and cannot be correlated with the run
that triggered them; a SELECT decides and a later UPDATE acts; a worker's
goroutines die with its process while its rows stay; uniqueness is left to
constraints whose violation reaches the caller as an error.

## Modules

| Module | Models |
|---|---|
| `Policy` | the tiers and `policy.Check` |
| `RunTable` | the rows of `runs` and `approvals`, and each SQL statement of `execution.sql.go` as the row it requires (`...Where`) and the row it leaves (`...Set`) |
| `RunEngine` | the handlers of `api/runs.go`, the store of `execution.go` and the River job of `queue.go`, one action per statement |
| `RunLifecycle` | the abstract run model: what the above promises of one run |
| `RunSafety` | the properties, the inductive invariant `IInv`, the refinement mapping |
| `RunEngineProofs` | `IInv` is invariant; the safety theorems; `RunEngine` implements `RunLifecycle` |
| `Connectivity` | environment registration, the verification queue, the verification half of the poller and the waiting `idpctl environment verify`; its properties and inductive invariant |
| `ConnectivityProofs` | the safety theorems of `Connectivity` |
| `Delivery` | the worker's half of a run: dispatch, GitHub, callback, minting, detached status poll, process death; on the statements of `RunTable` |
| `WorkerCredentials` | enrolment, bootstrap, grants, authentication and callback discovery, with the worker's start-up |
| `AgentEnrolment` | `POST /v1/agents` with its idempotent retry; EXTENDS `Policy` |
| `Sessions` | login, token verification, revocation, pruning |
| `ChooseOnce` | the abstract specification of a singleton: one value is chosen, once, and whoever learns a value learns that one |
| `Setup` | the serializable setup transaction and `idpctl setup` around it; implements `ChooseOnce` |
| `Singletons` | the replicas with signing key, telemetry identity and opt-in; implements `ChooseOnce` twice |
| `DeliveryProofs`, `WorkerCredentialsProofs`, `AgentEnrolmentProofs`, `SingletonsProofs`, `CatalogProofs` | their safety theorems; the steps of `Delivery` are steps of `RunLifecycle`, `Singletons` implements `ChooseOnce` |
| `AccessProofs` | the safety theorems of `Setup` and `Sessions`; `Setup` implements `ChooseOnce` |
| `Catalog` | pipelines, cost rates, cost capture and rollup; EXTENDS `Policy` |
| `MC...` | the deployments TLC checks, one for each of the above that has a run |

How they compose: `Delivery` and `RunEngine` meet in `RunTable` (the same WHERE
clauses and SETs, reached from the worker's goroutines in one and from the
control plane's handlers in the other), and in `RunLifecycle`: `RunEngine`
implements it, and a step of `Delivery` does to a run what a step of it may do.
`Connectivity` and `RunEngine` share the
tiers and nothing else: a check never touches a run. `RunEngine` takes
environments, grants and pipelines as constants; `WorkerCredentials` and
`Catalog` model how the latter two come about. `Setup` starts what
`WorkerCredentials` and `Singletons` wait for (`Setup`, `SetUp`). `Sessions`
relies on `Singletons` for replicas to sign with one key.

### RunEngine

`runs`, `approvals`, `audit` and `costs` are the tables; `jobs` is River's job of
each run. A handler in progress is a program counter: `req[r]` for the request
handler that created run `r`, `dec[r]` for the decision handler that won its
approval, `work[r]` for `Worker.Work`, `calls[k]` for an execution of the resolve
handler with what it remembers between its statements. `revealed` records the
role ARNs answered. `RequestAllowed, RequestQueue, RequestEnqueue, RequestAudit`
are the four statements of an allowed request, in the code's order;
`RequestForApproval` is the transaction of `createRunWithApproval`;
`DecideApproval, DecideTransition, DecideEnqueue, DecideAudit` those of a decision;
`RiverFetch, WorkClaim, WorkLoad, WorkFailClosed` one attempt of the job;
`NextRun` and `ReportResult` are the worker's calls;
`ResolveFind, ResolveUpdate, ResolveMint | ResolveDeny, ResolveReply` the resolve
handler. `...Interrupted` cuts a handler short: a failed statement or read, a
closed connection, a crash of the replica (all of its handlers), a job that
timed out. An interrupted River attempt is retried up to `MaxAttempts`.

Reads of columns that nothing updates (a pipeline, an actor's tier, the
requester of a run) are part of the step that uses them. Requests that change
nothing (a denied request, a lost decision, an empty poll) are no steps. Workers
report what the worker's code reports (`MayReport`): a failed dispatch of a
claimed run, the final status of a CI run whose callback this worker relayed, or
a timeout of its status poll, at any later moment.

### Connectivity

`envs` is the three environment tables (whether the row and the config exist,
which roles do), `checks` is `environment_verifications`, `audit` the audit log.
`reg[e]` and `ask[v]` are the program counters of the handlers that register an
environment and request a check. `hand[p]` is the job of worker process `p`,
through the control plane's handler that serves its GET (`config`, `roles`) and
its own checks (`checking`, `sent`); `posts` holds the reports under way; `cli[v]`
what the waiting `idpctl` told.

`CreateEnvironment, CreateAWSConfig, CreateAWSTierRole, RegisterAudit` are the
INSERTs of a registration; `NextJob` is the claim, after which `GetAWSConfig` and
`GetAWSTierRole` read row by row what a registration may still be writing, and a
missing row is a 500 that leaves the check claimed; `MintCredentials` is the
check of one tier with either outcome; `ReportResult` sends, `Complete` handles,
`PostLost` loses the report. `RegisterInterrupted, VerifyInterrupted,
PollInterrupted` cut a handler or a worker short; a report outlives its sender.
Processes and credentials are apart because replicas of a worker share one
credential, and `claimed_by` records only the credential.

### Delivery

`runs` is the table again; `hand[w]` is `pollRuns` of worker `w` (`NextRun`,
`InstallationToken`, `Trigger`, `FailRunDispatch`), `ci[c]` a workflow run on
GitHub, `cb[c]` the callback handler that serves it (`Callbacks`, `ResolveFind`,
`ResolveUpdate`, `MintCredentials`), `poll[c, r]` the goroutine of
`pollUntilTerminal` (`CheckStatus`, `PollTimeout`, `PollReport`). `minted` is
history. The worker learns nothing of the workflow run it dispatched, so a
callback is matched to a run by repository, workflow and ref alone: two runs of
one workflow, a pushed workflow run of the same target and a re-run, which keeps
its `run_id`, can each be taken for another. A failed or lost call is a fault,
and so is `Crash`, which takes `hand`, the callbacks in progress and the polls of
a worker along. `HandOver` is all that is left of `Worker.Work`; the re-check of
policy in the resolve handler belongs to `RunEngine`. GitHub starts, concludes,
pushes and re-runs as it likes, except that a job that was refused its
credentials does not succeed.

### WorkerCredentials

`creds` is the two tables by name (the name is unique), `minted` counts
`generateToken`. `proc[w]` is a worker process in its incarnation `inc`, which
grows when the process dies (`Crash`) and when a living one loses the answer of
its request (`AnswerLost`: a dropped connection, a proxy's 502 or 504, a body
that cannot be decoded), upon which `bootstrapRetry` sends another bootstrap, a
failed registration ends `Run`, and the poll loop asks again.
`boots[c]` and `calls[c]` are the handlers of a bootstrap and of an
authenticated request of incarnation `c`. Those of an earlier incarnation
(`GivenUp`) run on beside the new request until they end or the server notices
(`Abandoned`). `late` in a credential is history, not a column: its token was
written by a bootstrap already given up. `BootstrapLookup`, then `BootstrapMint`
or `BootstrapRotate`, then `BootstrapAudit` are `Store.Bootstrap` and its
handler; `VerifyToken` and `VerifyEnvironments` the two statements of
`Store.Verify`, `ServePoll` or `SetCICallbackURL` what follows with their result;
`EnrolWorker`, `GrantWorker`, `Grant` and `AuditOrder` an operator's enrolment or
grant, `Refuse` one by an actor that lacks an environment itself.
`DiscoverCallback` is `idpctl ci auth` asking for the newest credential with an
address and an environment of its repository.

### AgentEnrolment

`req[q]` is a request with the claims it came with. `Lookup` searches the key and
either goes on to `Create`, one `GrantEnvironment` per environment of the body,
`IssueToken` and `Enrolled`, or to the retry, `ListEnvironments`,
`ReissueAgentToken` and `Reissued`. `Stopped` ends a request after any statement.
`TTL` multiplies in a word of `2 * HalfWord` values as `time.Duration` does. Callers are
the sessions of people and every agent token answered so far; the sessions whose
authority shrank (`LeadNarrowed`, `LeadLowered`) are those of
`agents_test.go:284` and `agents_test.go:361`.

### Sessions

`call[c]` is `requireAuth`: `Parse` checks signature and expiry in memory,
`CheckRevoked` asks the database later. Between the two the session or its actor
may be revoked, the clock may pass `exp` and `PruneExpiredSessions` may delete
the row that revoked it. `login[l]` is `handlePostToken` in four steps. `killed`,
and what was dead when a request arrived, are history. Nothing in the
repository calls `Store.Revoke` or changes `actors.status` yet; both are there for
callers to come, and the model gives them one.

### Setup

`db` holds the committed rows by table, each named after the operator whose
request wrote it; `tx[o]` is a request with its snapshot and its uncommitted
writes. `FastPath` is the check outside the transaction, `BeginTx` the one inside,
`CreateTenant ... AuditSetup` the INSERTs, `CreateLocalUser` waits for and fails
on an equal username, `Commit` is refused if the tenants it read have changed
since (`Serializable`), `IssueAndSave` answers the token and writes the session
file. No constraint of the schema limits `tenants` to one row.

### Singletons

`rows` are the two singleton rows, `at[p]` and `held[p]` where a replica is and
what it holds in memory. `GetRow, CreateRow, CreatedRow, RereadRow,
StatementFails` are `LoadOrCreate`, the same in both packages: every error of the
INSERT is taken for a lost race. `Start` and `Crash` are the server, `Tick,
BuildPayload, Send` the telemetry sender, `SetTelemetry` and `AuditToggle` the
PATCH handler. `late` counts the payloads sent since the last opt-out.

### Catalog

`PostPipelines` registers with what an actor of its tier may declare, `PutCostRate`
upserts a rate of one of the four scopes. `ReportResult, FindRate,
CaptureCIDuration | CaptureFails` are what the handler of a report does after it:
the rate is read in one statement and the cost written in another, while
operators go on changing rates. `inForce` is history: the rates in force from
the report on, by a second definition of "most specific"
(`MostSpecific`, the order the documentation gives) that `FindCostRate`, the
translated ORDER BY, is checked against. Amounts are products
in a word of `2 * HalfWord` values.

## Runs

| Run | Instance | Shows |
|---|---|---|
| `runs` | 1 run, 3 tiers, 3 pipelines, 2 workers, 2 CI runs, 2 callbacks in flight, 2 interruptions, 2 attempts, fair | `ApprovalGate`, `MintGate`, `SoleHolder`, `NoSilentLoss`, `ClockAndCost`, `OutcomeFinal`; the refinement of `RunLifecycle`; `EventuallyDispatched`, and `UninterruptedRunStarts` |
| `connectivity` | 1 environment, 2 checks, 2 replicas of one worker credential, 1 interruption or loss, fair | `VerdictSound`, `OneVerifier`, `VerdictFinal`; a check left unclaimed until its environment is complete gets its verdict |
| `delivery` | 2 runs of one workflow, 2 workers, one with a GitHub App, 2 workflow runs, one rerunnable and one pushed, 1 fault, fair | `SuccessIsReal`, `InHand`; every step is one of `RunLifecycle` (`StepsOfLifecycle`); the run of a minted job is reported unless something fails |
| `worker` | 1 bootstrapping and 1 enrolled worker, 2 orders, one by an actor with or without the environment, 4 tokens, 1 failure, fair | `GrantsAreOrders`, `ServedInScope`, `DiscoveryScoped`; a worker gets polling and a grant reaches it, through deaths, lost answers and retries, unless a bootstrap that was given up writes last |
| `agents` | 2 requests with any of 7 bodies by 4 sessions or by agents, one key, a word of 256 values, 2 ticks | `NoEscalation`, `OneAgentPerKey`, `ScopeOnRecord`, `LifeBounded` |
| `sessions` | 2 sessions of one actor, 2 logins, 2 requests, 4 instants | `RevokedIsRejected` |
| `setup` | 3 operators, two with one username, 3 attempts each, 1 fault, fair | `AllOrNothing`, the refinement of `ChooseOnce`, `EventuallySetUp` |
| `singletons` | 3 replicas, 2 starts and 2 ticks each, 3 toggles, 2 faults | `OptOutTakesEffect`, the refinement of `ChooseOnce` by both rows |
| `catalog` | 1 actor of each tier, 1 pipeline, 2 runs, 2 changes of rates, 1 fault, a word of 16 values | `VouchedFor`, `PricedAtReport`, `RollupAgrees` |
| `doc_approved` | violation | an approved run is failed by `Worker.Work` |
| `doc_agent_ttl` | violation | a lifetime far over the limit passes its check |
| `doc_cost_rate` | violation | a minute at the documented rate costs nothing |

`TypeOK` is checked in the runs whose types say something of the code.

Bounds. In `runs`, handlers of different runs share nothing but the searches of
`NextRun` and `ResolveFind`; what two runs do to each other there is covered by
the proofs, which hold for any number of runs, and by the two runs of `delivery`;
two callbacks in flight are the least that race each other, and as many
interruptions as `MaxAttempts` (5 in the code) let River retry a job and discard
it. In `connectivity`, two checks let one overtake the other, and two replicas
can disturb a claim that is recorded by credential; one interruption is enough to
leave a dead sender's report behind while the other polls. In `delivery`, two
runs of one target are what makes a callback ambiguous; one workflow run comes
from the worker and one does not; one fault at any call is enough to strand
either run. In `worker`, one failure is a stopped handler, a death or a lost
answer; after either of the last two the request of the earlier incarnation runs
beside its successor's and may overtake it or be overtaken. Four tokens are
one for the enrolment and three for bootstraps, of which one failure leads to at
most two. In `agents`, two requests are a race or a call and its retry,
and the bodies hold a repeated and an unknown environment, a `ttl_seconds` in
range, beyond it, wrapping to a negative and wrapping to a small duration. In
`sessions`, two sessions tell revoking one from revoking the actor, and
`MaxTime` leaves room for issue, use, expiry and pruning. In `setup`, three
operators make the one who overtakes different from the one who waits for the
username. In `singletons`, of three replicas one creates, one loses the race and
one comes later; two starts separate a restart from a start, and three toggles
are off, on, off. In `catalog`, two rates of four scopes are the least that
compete, two runs the least a rollup can confuse, and the product of two
milliseconds and the largest entered rate overflows the word.
`doc_cost_rate` has the real 60,000 milliseconds in a minute.

Workflow runs, calls, requests, replicas and runs of `catalog` are symmetric
where nothing temporal but the refinement is checked. Deadlock is not checked: a
deployment whose requests are all answered, or whose bounds are used up, may stop.

### Fairness

Only what a running program does by itself is fair; faults, crashes, operators,
actors, GitHub and CI jobs never are, except where this list says so.

- `RunEngine!FairSpec`: a handler that has started, and a River client, keep
  taking steps (Go's scheduler, River's fetch loop). `EventuallyDispatched` excepts
  as many interruptions as there are attempts.
- `Connectivity!FairSpec`: started handlers run, the poll loop, a ticker without
  an exit but cancellation, goes on, and a report that is not lost is handled.
  The property excludes checks claimed while the environment was incomplete: the
  code never hands those out again.
- `Delivery!FairSpec`: the poll loop, the callback handlers and the status polls
  run. A poll ends because `pollTimeout` bounds it, whatever GitHub does.
- `WorkerCredentials!FairSpec`: handlers run, processes are started, restarted
  and retry (`bootstrapRetry` has no limit), orders are sent and handled; the
  operator sets the instance up (assumptions about persons: without setup no
  worker can ever bootstrap). Deaths, lost answers and
  retries are all included; `EventuallyPolling` and `GrantReachesWorker` except
  only a credential whose token a given-up bootstrap wrote last (`late`), which
  no fairness can repair: nothing but a restart bootstraps again.
- `Setup!FairSpec`: the server works, and an operator whose `idpctl` has no session
  runs it again, up to `MaxRuns`, as its message says (again
  an assumption about persons).

`AgentEnrolment`, `Sessions`, `Singletons` and `Catalog` state no liveness: their
requests may be dropped anywhere.

## Where code and documents part

Three runs show a disagreement between the code and what the repository says of
it:

- `doc_approved`: `Worker.Work` (`execution/queue.go:61`) fails every run for which
  `policy.Check` is not `Allow`, also those a human has approved;
  `pkg/identity/types.go:43` says of that tier "a human approves each action before
  execution".
- `doc_agent_ttl`: `time.Duration(req.TTLSeconds) * time.Second`
  (`api/agents.go:86`) wraps around before it is compared with the limit that the
  error message states. A product that wraps to a negative duration leaves an
  actor without a token, and with it a used key.
- `doc_cost_rate`: `idpctl cost set-rate` (`cli/internal/cmd/cost.go:143`) drops the
  fraction of a micro-unit per millisecond, so that `$0.008/minute`, the example of
  `docs/DATA-MODEL.md:308`, is stored as 0.

The models contain more of what the code does and a reader may not expect. It is
part of the actions, and no property says otherwise:

- `queue.go:48`: a run becomes executing, and claimable, before policy is asked
  again; a comment calls that check the credential-mint gate's twin. The mint gate
  repeats it (`MintGate`).
- `execution.sql.go:351`: `ResolveRunExternalRef` does not ask for the status, so a
  reference can still be recorded for a run that has just ended;
  `docs/REPO-STRUCTURE.md:105` speaks of an "approved, still-executing run".
- `runs.go:436`: a denial at the mint gate is reported in the name of the calling
  worker; if another one has claimed the run it is a 500 and the run stays
  executing.
- `verifications.go:250`: the completion of a check is not audited, its request is.
- `workercred.go:90`: a bootstrap is "Safe to call on every worker startup", but
  one that is handled after its caller has died, or after a living caller lost
  the answer and tried again (`service.go:112`), rotates the token in use, and the
  worker's polls are answered 401 until a restart. Two workers of one name do this
  to each other.
- `ciauth/handler.go:179`: a status poll reports once; if that fails, or the worker
  is not the claimant, the run stays executing although `pollTimeout` is there to
  prevent it.
- `pkg/identity/token.go:117`: expiry is checked before revocation, so a request
  that is in between while its session expires and is pruned is accepted after
  both. `RevokedIsRejected` therefore speaks of tokens that still live.
- `setup.go:182`: when the answer after the commit is lost, the retry is told that
  setup has already run, and the operator logs in with the password instead.

## Proofs

The theorems of `RunEngine` hold for any sets of actors, environments, pipelines,
workers, CI runs and calls, any bounds, and any policy-relevant configuration, from
`SizesAssumption`, `ConfigurationAssumption` (tiers are valid, grants are sets of
environments) and `NullAssumption` (NULL is no identity).

None of the properties is inductive. `IInv` adds what ties the handlers to the
rows: `RowsInv` (what the absence or presence of a row implies), `ApprovalInv`
(an approval exists for exactly the human-in-the-loop runs, and the run waits for
it and follows it), `Handlers` (where a handler stands tells what the row looks
like: nobody else has moved it, which is why its guarded UPDATEs match), `JobInv`
(River's job, `Worker.Work` and the run are in step) and `CallInv` (what the
resolve handler remembers of its run still holds: environment and pipeline are
immutable, a started run stays started, and past the UPDATE the reference is its
own until a report replaces it). `RunEngineProofs` shows first what each SQL
statement does to a row, then one lemma per action, one step per conjunct the
action can disturb.

| Theorem | States |
|---|---|
| `TypeCorrect`, `ApprovalSafe`, `MintSafe`, `HolderSafe`, `QueueSafe`, `ClockSafe` | `Spec => []P` for the invariants of `runs` |
| `OutcomeKept` | the action property `OutcomeFinal` |
| `Refinement` | `Spec => RefinesLifecycle` |
| `ConnectivityProofs`: `TypeCorrect`, `VerdictSafe`, `VerifierSafe` | `Spec => []P` for the invariants of `connectivity` |
| `ConnectivityProofs`: `VerdictKept` | the action property `VerdictFinal` |
| `DeliveryProofs`: `TypeCorrect`, `SuccessTrue`, `RunsInHand` | `Spec => []P` for the type invariant and the invariants of `delivery` |
| `DeliveryProofs`: `DeliverySteps` | the action property `StepsOfLifecycle` |
| `WorkerCredentialsProofs`: `TypeCorrect`, `GrantsOrdered`, `ScopeServed`, `DiscoveryInScope` | `Spec => []P` for the invariants of `worker` |
| `AccessProofs`: `SetupTypeCorrect`, `SetupSafe`, `SetupOnce` | `Spec => []TypeOK`, `Spec => []AllOrNothing`, `Spec => RefinesChooseOnce` |
| `AccessProofs`: `SessionsTypeCorrect`, `RevocationSafe` | `SessionsSpec => []P` for the type invariant and `RevokedIsRejected` |
| `SingletonsProofs`: `TypeCorrect`, `OptOutSafe` | `Spec => []P` for the invariants of `singletons` |
| `SingletonsProofs`: `SingletonsChosenOnce` | `Spec => RefinesChooseOnce`, for both tables |
| `AgentEnrolmentProofs`: `TypeCorrect`, `AuthorityKept`, `KeyNamesOneAgent`, `ScopeKept`, `LifeKept` | `Spec => []P` for the invariants of `agents` |
| `CatalogProofs`: `PipelinesVouchedFor`, `CostsPriced`, `RollupAddsUp` | `Spec => []P` for the invariants of `catalog` |

`Connectivity` is proved for any environments, workers, grants, processes and
bounds, from `BoundsAssumption`, `WorkersAssumption` and `NoNullAssumption`. Its
`IInv` adds to the two invariants `RegistrationInv` (the INSERTs happen in order),
`CheckInv` (only a claimed row has a verdict, and its claimant is granted the
environment) and `JobInv` (roles in a poller's hand are stored in the
environment, a job past the reads has all three tiers, a report speaks for each
of them). `VerdictFinal` does not follow from `CompleteVerification`'s WHERE
clause, which ignores the status; it follows from `OneVerifier`: a report under
way is the only one of its check and finds it pending.

`Sessions` is proved from `TimeAssumption` and `NoNullAssumption`. A request may
read the row of a revocation long after it arrived, so `RevokedIsRejected` needs
`TombstoneInv` (a revoked session has its row, with the expiry of its token,
until that time is over: only then may it be pruned) and `MemoryInv` (what a
request or a login remembers stays true). `Setup` is proved from
`SetupAssumption`: `TransactionInv` says what a transaction has written by how
far it has come, and that its snapshot had no tenant, so that a commit that
serializes finds the database empty; `SessionInv` says that a session is one of
the tenant. `Singletons` is proved from `SingletonsAssumption` and its
`NoNullAssumption`: what a replica holds is the row, and one that awaits the
answer to its INSERT wrote it (`AgreementInv`, with `ShapeInv` for the functions);
a payload that is under way at an opt-out is the first since (`LateInv`).

`AgentEnrolment` is proved from `WordAssumption`, `OrdersAssumption`,
`SessionsAssumption` and its `NoNullAssumption`. Its argument is monotony: rows of
`actors` are never updated and grants never taken back (`Grows`), so what a
request has checked, inserted, collected and signed (`Entitled`, `Bound`,
`Scoped`, `Signed`) stays true while others work, and so does what was answered
(`Answered`); that two calls with one key end at one agent is the unique index
(`ActorsInv`). `Catalog` is proved from `CatalogAssumption`: a pipeline that is not
mutating was vouched for when it was inserted (`DeclaredInv`), and policy lets
the read-only tier run no other (`RequestedInv`); the ORDER BY of `findCostRate`
finds the most specific rate in every table (`FindsMostSpecific`), and the rate
read for a report is one of those in force since (`CapturingInv`). For the
rollup, two adjacent windows part the captured rows (`RollupParts`: `RowsInv`
keeps every capture time within the clock). That sums over parts add up is
shown from the recursion of `SumFunction` itself: induction is not available as
a rule, so each lemma takes a smallest set for which it fails (`MinimalSubset`,
from the library's well-foundedness of finite subsets) and finds a smaller one.
In this way the recursion exists and is unique (`SumsExists`, `SumsUnique`), the
order in which elements are taken does not matter (`SumOfElement`), disjoint
sets add up (`SumOfSplit`) and renaming changes nothing (`SumRenamed`, from runs
to the rows shown for them). It needs what a database gives: finitely many runs.

`Delivery` is proved for any runs, workers, workflow runs, targets and number of
faults, from `BoundsAssumption`, `SubsetAssumption` and `NoNullAssumption`. Three
of its invariants are bookkeeping: only an executing run is claimed (`RowInv`), a
poll loop's run is claimed by its worker (`HandInv`), and a workflow run started
for a run was started by its claimant and its conclusions are remembered
(`WorkflowInv`). The argument is in the other three. `HolderInv`: while a run
executes, at most one workflow run has its credentials or is about to get them,
and it is the one recorded, because the reference is written before minting and
is replaced only by the report that ends the run. `TicketInv`: a status poll
goes with credentials that were minted, and what it is about to report it has
read from the workflow run that holds them; hence `SuccessIsReal`. `CallbackInv`:
a callback past its search remembers a run that was handed over. `InHand` is
inductive with these: the poll of a claimed run is the one that may report it,
and the one way to lose it is a fault. `DeliverySteps` maps each step to the
step of `RunLifecycle` with the same status, claimant and reference, or to a
stutter.

`WorkerCredentials` is proved for any workers, names, environments, orders and
bounds, from `BoundsAssumption`, `DeploymentAssumption` and `NoNullAssumption`. A
grant is never taken back, so what an order has granted so far can be told from
how far it has come (`OrdersInv`), every grant goes back to an order by an actor
that has the environment (`GrantedInv`), and a request that was authenticated
before a rotation is served with environments its credential still has
(`CallInv`). Tokens do change: `Owned` says of each token in the hands of a
process (`ProcessInv`), a bootstrap (`BootInv`), a request or an operator that it
opens the credential of the holder's own name or none. A bootstrap that
overtakes another replaces a token but never makes it anybody else's. One
lemma, `Written`, covers all statements that write the two tables.

Only model-checked: the liveness properties `EventuallyDispatched`,
`UninterruptedRunStarts`, `EventuallyVerified`, `MintedRunReported`,
`EventuallyPolling`, `GrantReachesWorker` and `EventuallySetUp`, because fairness is
out of the prover's reach. Every invariant, action property and refinement that
a passing run checks has a theorem.

## Not modelled

- Idempotency keys of runs: a duplicate fails on the unique index and changes
  nothing.
- The tenant: a deployment has exactly one (`Setup`), and every lookup is scoped to
  it.
- `ci_url`, `ci_raw_status`, `diff_ref`, instants of timestamps other than those of
  costs and tokens, HTTP encoding, request validation that changes nothing,
  logging, migrations, configuration, routes.
- Listings and other reads that nothing acts on (runs, approvals, audit events,
  costs by run other than the rollup); the printing of `idpctl`.
- Environments, their grants and pipelines change by insertion only and are
  constants of `RunEngine` and `Delivery`.
- `worker_credentials.revoked_at`, which no statement sets.
- `ci.Adapter.Cancel`, which nothing calls; STS session policies and names.
- River's leader election and its maintenance; a rescued job is an interrupted
  attempt. An attempt is not rescued while it still runs: `runJobTimeout` ends it
  long before.
- A repetition of the claiming GET by Go's HTTP transport: the first claim is an
  interrupted poll, the second a new one. POSTs are not repeated.
- `pollRuns` and `pollVerifications` within one loop: each only delays the other,
  which the models may do anyway.
- Verification results other than those `runChecks` computes from the job.
- The numbers in a telemetry payload; the cast of a rollup's SUM back to bigint;
  the re-read of an existing cost after ON CONFLICT, which the API cannot reach
  because a run is reported once.
- The events of the audit log as a sequence: a model keeps who wrote which, and
  when in the handler.

What the models keep and one may look for: an interrupted enrolment answers its
retry with the part of the scope that was recorded; the loser of a race for a key
gets a 500; a toggle of telemetry may lack its event (`api/tenant.go:61`); a
pipeline's environment need not be that of its runs; a failed capture of a cost is
never repeated; a rollup adds amounts of different currencies.

## Plan

Done: the run state machine with its queue and mint gate, its abstract model and
proofs; registration and connectivity checks with proofs; delivery, worker
credentials, agents, sessions, setup, singletons and catalog with their runs, and
a theorem for every safety property of a run. Next, in this order:

1. Theorems of `RunLifecycle` itself, which the refinement carries over to
   `RunEngine` and, step by step, to `Delivery`.
2. An abstract specification of a job that is claimed once and answered once; the
   verification half of the poller in `Connectivity` and the run half in `Delivery`
   are both meant to be one.
