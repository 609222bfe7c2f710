------------------------------- MODULE Catalog --------------------------------
(***************************************************************************)
(* What a tenant registers around its runs: pipelines (api/pipelines.go)   *)
(* and cost rates (api/cost.go, idpctl cost set-rate), and what becomes of *)
(* a run that was reported: its cost row, captured in two statements after *)
(* the report (cost.CaptureCIDuration), and the rollup per actor.          *)
(*                                                                         *)
(* Abstracted: a run between its request and its report (module RunEngine);*)
(* the names of providers and environments; currencies other than that     *)
(* they may differ; SUM's numeric, whose cast back to bigint fails when a  *)
(* total does not fit.  Money is in micro-units, time in milliseconds.    *)
(***************************************************************************)
EXTENDS Policy, Sequences, FiniteSets, FiniteSetsExt

CONSTANTS
  NULL,
  ActorTier,     \* tier in the session of each actor
  Environments,  \* the tenant's environments
  Elsewhere,     \* environments of no or another tenant
  Providers,     \* what a request may name as provider
  KnownProviders,\* pipelineProviders
  PerMinute,     \* rates as an operator enters them, in micro-units per minute
  Currencies,
  MsPerMinute,   \* 60_000
  TickMs,        \* how far the clock advances at a time
  HalfWord,      \* half the values of an int64, 2^63
  Runs,
  MaxPipelines,  \* bound: registered pipelines
  MaxRates,      \* bound: PUT requests
  MaxTime,       \* bound of the clock
  MaxFaults      \* bound: failed statements

ASSUME CatalogAssumption ==
  /\ MsPerMinute \in Nat \ {0} /\ TickMs \in Nat \ {0} /\ HalfWord \in Nat \ {0}
  /\ PerMinute \subseteq Int
  /\ {MaxPipelines, MaxRates, MaxTime, MaxFaults} \subseteq Nat
  /\ KnownProviders \subseteq Providers /\ NULL \notin Environments \cup Providers
  /\ Environments \cap Elsewhere = {} /\ IsFiniteSet(Runs)

VARIABLES
  pipelines,  \* table pipelines, a sequence of rows; history: vouched
  rates,      \* table cost_rates: by scope, a row or NULL
  runs,       \* table runs, and where the handler of a report is
  costs,      \* table run_costs: by run, a row or NULL
  inForce,    \* history: the rates in force for a run since it finished
  puts, clock, faults

vars == <<pipelines, rates, runs, costs, inForce, puts, clock, faults>>

-------------------------------------------------------------------------------
Actors == DOMAIN ActorTier

(* environment_id and ci_provider, each NULL for every one; a rate for a    *)
(* provider that no pipeline can have matches nothing and is left out.      *)
Scopes == (Environments \cup {NULL}) \X (KnownProviders \cup {NULL})

NoRun == [pc |-> "absent", actor |-> NULL, pipeline |-> 0, env |-> NULL,
          started |-> 0, finished |-> 0, rate |-> NULL]

Init ==
  /\ pipelines = <<>>
  /\ rates = [s \in Scopes |-> NULL]
  /\ runs = [r \in Runs |-> NoRun]
  /\ costs = [r \in Runs |-> NULL]
  /\ inForce = [r \in Runs |-> {}]
  /\ puts = 0 /\ clock = 0 /\ faults = 0

-------------------------------------------------------------------------------
(* Pipelines.                                                               *)

(* Mutant of Mutating: whoever registers a pipeline is believed. *)
MutatingAsSaid(tier, said) == said # FALSE

(* "mutating" unless an autonomous actor says otherwise; NULL is silence. *)
Mutating(tier, said) == ~(said = FALSE /\ tier = TierAutonomous)

(* INSERT INTO pipelines; rows are never updated. *)
CreatePipeline(row) == pipelines' = Append(pipelines, row)

GetPipeline(p) == pipelines[p]

(* POST /v1/pipelines: an actor above the read-only tier, a known provider, *)
(* an environment of the tenant.                                            *)
PostPipelines(a, env, provider, said) ==
  /\ ActorTier[a] # TierReadOnly
  /\ provider \in KnownProviders
  /\ env \in Environments
  /\ Len(pipelines) < MaxPipelines
  /\ CreatePipeline(
       [env |-> env, provider |-> provider,
        mutating |-> Mutating(ActorTier[a], said),
        vouched |-> ActorTier[a] = TierAutonomous /\ said = FALSE])
  /\ UNCHANGED <<rates, runs, costs, inForce, puts, clock, faults>>

(* idpctl pipeline register: without --mutating the body is silent. *)
RunPipelineRegister(a) ==
  \E env \in Environments \cup Elsewhere, provider \in Providers,
     said \in {TRUE, FALSE, NULL} :
       PostPipelines(a, env, provider, said)

-------------------------------------------------------------------------------
(* Cost rates.                                                              *)

(* int64(ratePerMinute * microsPerCurrencyUnit / 60_000) drops the fraction. *)
RateMicrosPerMs(perMinute) ==
  IF perMinute >= 0 THEN perMinute \div MsPerMinute ELSE -((-perMinute) \div MsPerMinute)

Matching(table, env, provider) ==
  {s \in {env, NULL} \X {provider, NULL} : table[s] # NULL}

(* ORDER BY (environment_id IS NOT NULL) DESC, (ci_provider IS NOT NULL) DESC *)
Before(s, t) ==
  \/ s[1] # NULL /\ t[1] = NULL
  \/ (s[1] = NULL <=> t[1] = NULL) /\ (s[2] # NULL \/ t[2] = NULL)

(* Mutant of FindCostRate: the provider is ordered by first. *)
FindCostRateByProvider(table, env, provider) ==
  LET rows == Matching(table, env, provider)
      ranks(s, t) == \/ s[2] # NULL /\ t[2] = NULL
                     \/ (s[2] = NULL <=> t[2] = NULL) /\ (s[1] # NULL \/ t[1] = NULL)
  IN IF rows = {} THEN NULL ELSE table[CHOOSE s \in rows : \A t \in rows : ranks(s, t)]

(* The first matching row, LIMIT 1; no row is no rate. *)
FindCostRate(table, env, provider) ==
  LET rows == Matching(table, env, provider)
  IN IF rows = {} THEN NULL ELSE table[CHOOSE s \in rows : \A t \in rows : Before(s, t)]

(* The scope an operator means: environment and provider, environment,      *)
(* provider, tenant, in this order ("the most specific matching row wins"). *)
MostSpecific(table, env, provider) ==
  LET wins == <<<<env, provider>>, <<env, NULL>>, <<NULL, provider>>, <<NULL, NULL>>>>
      set == {i \in 1..4 : table[wins[i]] # NULL}
  IN IF set = {} THEN NULL ELSE table[wins[Min(set)]]

(* The report of the run is being handled. *)
Capturing == {r \in Runs : runs[r].pc \in {"find", "insert"}}

ProviderOf(r) == GetPipeline(runs[r].pipeline).provider

(* INSERT INTO cost_rates ... ON CONFLICT (the scope) DO UPDATE. *)
UpsertCostRate(scope, row) == rates' = [rates EXCEPT ![scope] = row]

(* PUT /v1/cost-rates, by an actor above the read-only tier; a negative rate *)
(* is refused.                                                               *)
PutCostRate(a, scope, row) ==
  /\ ActorTier[a] # TierReadOnly
  /\ row.perMs >= 0
  /\ puts < MaxRates /\ puts' = puts + 1
  /\ UpsertCostRate(scope, row)
  /\ inForce' = [r \in Runs |->
       IF r \in Capturing
         THEN inForce[r] \cup {MostSpecific(rates', runs[r].env, ProviderOf(r))}
         ELSE inForce[r]]
  /\ UNCHANGED <<pipelines, runs, costs, clock, faults>>

(* idpctl cost set-rate; the row keeps what was entered as history. *)
RunCostSetRate(a) ==
  \E scope \in Scopes, perMinute \in PerMinute, currency \in Currencies :
    PutCostRate(a, scope, [perMs |-> RateMicrosPerMs(perMinute),
                           perMinute |-> perMinute, currency |-> currency])

-------------------------------------------------------------------------------
(* Runs and their cost.                                                     *)

(* A run that policy does not deny has been requested, approved where it    *)
(* must be, and executes; its environment need not be its pipeline's.       *)
Execute(r, a, p, env) ==
  /\ runs[r].pc = "absent"
  /\ Check(ActorTier[a], GetPipeline(p).mutating) # "deny"
  /\ runs' = [runs EXCEPT ![r] =
       [NoRun EXCEPT !.pc = "executing", !.actor = a, !.pipeline = p,
                     !.env = env, !.started = clock]]
  /\ UNCHANGED <<pipelines, rates, costs, inForce, puts, clock, faults>>

(* handlePostWorkerRunResult, first statement; it matches once. *)
ReportResult(r) ==
  /\ runs[r].pc = "executing"
  /\ runs' = [runs EXCEPT ![r].pc = "find", ![r].finished = clock]
  /\ inForce' = [inForce EXCEPT ![r] = {MostSpecific(rates, runs[r].env, ProviderOf(r))}]
  /\ UNCHANGED <<pipelines, rates, costs, puts, clock, faults>>

FindRate(r) ==
  /\ runs[r].pc = "find"
  /\ runs' = [runs EXCEPT ![r].pc = "insert",
                          ![r].rate = FindCostRate(rates, runs[r].env, ProviderOf(r))]
  /\ UNCHANGED <<pipelines, rates, costs, inForce, puts, clock, faults>>

(* Two's complement. *)
Wrapped(x) == ((x + HalfWord) % (2 * HalfWord)) - HalfWord

(* durationMS * rate.RateMicrosPerMs; no amount without a rate. *)
Priced(duration, rate) ==
  [amount |-> IF rate = NULL THEN NULL ELSE Wrapped(duration * rate.perMs),
   currency |-> IF rate = NULL THEN "USD" ELSE rate.currency]

Duration(r) == runs[r].finished - runs[r].started

(* INSERT INTO run_costs, at most one row per run. *)
CreateRunCost(r, row) ==
  costs' = [costs EXCEPT ![r] = IF @ = NULL THEN row ELSE @]

CaptureCIDuration(r) ==
  LET price == Priced(Duration(r), runs[r].rate) IN
  /\ runs[r].pc = "insert"
  /\ CreateRunCost(r, [duration |-> Duration(r), amount |-> price.amount,
                       currency |-> price.currency, capturedAt |-> clock])
  /\ runs' = [runs EXCEPT ![r].pc = "done", ![r].rate = NULL]
  /\ UNCHANGED <<pipelines, rates, inForce, puts, clock, faults>>

(* The failure is logged, the report is answered 200: nobody tries again. *)
CaptureFails(r) ==
  /\ r \in Capturing
  /\ faults < MaxFaults /\ faults' = faults + 1
  /\ runs' = [runs EXCEPT ![r].pc = "done", ![r].rate = NULL]
  /\ UNCHANGED <<pipelines, rates, costs, inForce, puts, clock>>

Tick ==
  /\ clock + TickMs <= MaxTime
  /\ clock' = clock + TickMs
  /\ UNCHANGED <<pipelines, rates, runs, costs, inForce, puts, faults>>

-------------------------------------------------------------------------------
(* GET /v1/runs/{id}/cost. *)
GetCostsForRun(r) == {costs[r]} \ {NULL}

(* Mutant of SumCostByActor: the window includes its end. *)
SumCostByActorInclusive(a, from, to) ==
  LET rows == {r \in Runs : /\ costs[r] # NULL /\ runs[r].actor = a
                            /\ costs[r].capturedAt >= from /\ costs[r].capturedAt <= to}
      priced == {r \in rows : costs[r].amount # NULL}
  IN [amount |-> SumFunction([r \in priced |-> costs[r].amount]),
      hasAmount |-> priced # {},
      duration |-> SumFunction([r \in rows |-> costs[r].duration]),
      count |-> Cardinality(rows)]

(* GET /v1/costs/by-actor: one actor's row; the window is half-open.        *)
SumCostByActor(a, from, to) ==
  LET rows == {r \in Runs : /\ costs[r] # NULL /\ runs[r].actor = a
                            /\ costs[r].capturedAt >= from /\ costs[r].capturedAt < to}
      priced == {r \in rows : costs[r].amount # NULL}
  IN [amount |-> SumFunction([r \in priced |-> costs[r].amount]),
      hasAmount |-> priced # {},
      duration |-> SumFunction([r \in rows |-> costs[r].duration]),
      count |-> Cardinality(rows)]

-------------------------------------------------------------------------------
Next ==
  \/ \E a \in Actors :
       \/ RunPipelineRegister(a)
       \/ RunCostSetRate(a)
       \/ \E r \in Runs, p \in 1..Len(pipelines), e \in Environments : Execute(r, a, p, e)
  \/ \E r \in Runs : ReportResult(r) \/ FindRate(r) \/ CaptureCIDuration(r) \/ CaptureFails(r)
  \/ Tick

Spec == Init /\ [][Next]_vars

-------------------------------------------------------------------------------
(* What the read-only tier runs unattended was vouched for by an autonomous *)
(* actor ("only Autonomous, which already acts unsupervised, may vouch for  *)
(* it"): policy.Check, handlePostPipelines and the silent default together  *)
(* leave no other way.                                                      *)
VouchedFor ==
  \A r \in Runs :
    runs[r].pc # "absent" /\ ActorTier[runs[r].actor] = TierReadOnly =>
      GetPipeline(runs[r].pipeline).vouched

(* A captured cost is the run's own duration at the most specific rate that *)
(* was in force at some moment between its report and the capture, or no    *)
(* amount if there was none; later rates do not touch it                    *)
(* (CaptureCIDuration, findCostRate).  Of a product beyond the word, which  *)
(* wraps around in the code, only its rate's currency is said here.         *)
PricedAtReport ==
  \A r \in Runs : costs[r] # NULL =>
    /\ costs[r].duration = runs[r].finished - runs[r].started
    /\ \E rate \in inForce[r] :
         IF rate = NULL THEN costs[r].amount = NULL
         ELSE /\ costs[r].currency = rate.currency
              /\ costs[r].duration * rate.perMs < HalfWord =>
                   costs[r].amount = costs[r].duration * rate.perMs

(* The rollup is a live query over the rows that are shown run by run: the  *)
(* actors' totals over adjacent windows add up to the rows of their runs,   *)
(* none of them counted twice or lost at a boundary (sumCostByActor).       *)
RollupAgrees ==
  \A a \in Actors, mid \in 0..MaxTime :
    LET rows == UNION {GetCostsForRun(r) \X {r} : r \in {r \in Runs : runs[r].actor = a}}
        before == SumCostByActor(a, 0, mid)
        after == SumCostByActor(a, mid, MaxTime + 1)
        priced == {c \in rows : c[1].amount # NULL}
    IN /\ before.count + after.count = Cardinality(rows)
       /\ before.duration + after.duration = SumFunction([c \in rows |-> c[1].duration])
       /\ before.amount + after.amount = SumFunction([c \in priced |-> c[1].amount])
       /\ before.hasAmount \/ after.hasAmount <=> priced # {}

-------------------------------------------------------------------------------
(* What the documentation says of rates and the code does not keep.         *)

(* A minute of CI run time costs what the operator entered for a minute:    *)
(* "The cost of one minute of CI run time, as billed to you"                *)
(* (idpctl cost set-rate).                                                  *)
MinuteCostsItsRate ==
  \A r \in Runs :
    costs[r] # NULL /\ NULL \notin inForce[r] /\ costs[r].duration = MsPerMinute =>
      \E rate \in inForce[r] : costs[r].amount = rate.perMinute
===============================================================================
