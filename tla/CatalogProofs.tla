---------------------------- MODULE CatalogProofs ----------------------------
(***************************************************************************)
(* Proofs that the read-only tier runs what was vouched for, that a cost   *)
(* is priced at the most specific rate in force, and that the rollup adds  *)
(* up to the rows of the runs, for any actors, environments, providers,    *)
(* pipelines, rates and finite set of runs.                                *)
(*                                                                         *)
(* The argument: a pipeline that is not mutating was registered as such by *)
(* an autonomous actor (DeclaredInv); policy lets the read-only tier run   *)
(* no other, and rows of pipelines are never updated (RequestedInv).  The  *)
(* ORDER BY of findCostRate finds the most specific rate                   *)
(* (FindsMostSpecific); while a report is handled, the rate in force and   *)
(* the one read are among those in force since (CapturingInv).             *)
(* Adjacent windows part the rows of run_costs (RollupParts, from the      *)
(* capture times of RowsInv), and what is summed over the parts is summed  *)
(* over the whole (SumOfSplit), run by run or row by row (SumRenamed).     *)
(***************************************************************************)
EXTENDS Catalog, FiniteSetTheorems, TLAPS

Pipeline == [env : Environments, provider : Providers, mutating : BOOLEAN, vouched : BOOLEAN]

(* Rows of pipelines; what is not mutating was vouched for. *)
DeclaredInv ==
  /\ pipelines \in Seq(Pipeline)
  /\ \A p \in 1..Len(pipelines) : ~pipelines[p].mutating => pipelines[p].vouched

Fields == {"pc", "actor", "pipeline", "env", "started", "finished", "rate"}

(* A run is of a registered pipeline that policy lets its actor run. *)
RequestedInv ==
  /\ runs = [r \in Runs |-> runs[r]]
  /\ \A r \in Runs : DOMAIN runs[r] = Fields
  /\ \A r \in Runs : runs[r].pc # "absent" =>
       /\ runs[r].pipeline \in 1..Len(pipelines)
       /\ ActorTier[runs[r].actor] = TierReadOnly => ~pipelines[runs[r].pipeline].mutating

IInv == DeclaredInv /\ RequestedInv

LEMMA InitIInv == Init => IInv
  BY DEF Init, IInv, DeclaredInv, RequestedInv, NoRun, Fields

(* policy.Check: the read-only tier is denied what is mutating. *)
LEMMA ReadOnlyIsDenied ==
  ASSUME NEW mutating \in BOOLEAN, Check(TierReadOnly, mutating) # "deny"
  PROVE  ~mutating
<1>1. Valid(TierReadOnly)
  BY DEF Valid, TierReadOnly, TierAutonomous
<1> QED BY <1>1 DEF Check, TierReadOnly, TierHumanInTheLoop, TierAutonomous

(* POST /v1/pipelines adds a row at the end. *)
LEMMA RowAdded ==
  ASSUME IInv, NEW a \in Actors, RunPipelineRegister(a)
  PROVE  /\ UNCHANGED <<rates, runs, costs, inForce, clock>>
         /\ pipelines' \in Seq(Pipeline) /\ Len(pipelines') = Len(pipelines) + 1
         /\ \A p \in 1..Len(pipelines) : pipelines'[p] = pipelines[p]
         /\ LET row == pipelines'[Len(pipelines) + 1]
            IN (~row.mutating => row.vouched) /\ row.provider \in KnownProviders
<1>1. PICK env \in Environments, provider \in KnownProviders, said \in {TRUE, FALSE, NULL} :
        PostPipelines(a, env, provider, said)
  BY DEF RunPipelineRegister, PostPipelines
<1> DEFINE row == [env |-> env, provider |-> provider,
                   mutating |-> Mutating(ActorTier[a], said),
                   vouched |-> ActorTier[a] = TierAutonomous /\ said = FALSE]
<1>2. pipelines' = Append(pipelines, row) /\ UNCHANGED <<rates, runs, costs, inForce, clock>>
  BY <1>1 DEF PostPipelines, CreatePipeline
<1>3. row \in Pipeline /\ (~row.mutating => row.vouched) /\ row.provider \in KnownProviders
  BY CatalogAssumption DEF Pipeline, Mutating
<1> HIDE DEF row
<1> QED BY <1>2, <1>3 DEF IInv, DeclaredInv

LEMMA PostPipelinesStep ==
  ASSUME IInv, NEW a \in Actors, RunPipelineRegister(a)
  PROVE  IInv'
<1>1. Len(pipelines) \in Nat /\ Len(pipelines') = Len(pipelines) + 1
  BY RowAdded DEF IInv, DeclaredInv
<1>2. DeclaredInv'
  <2> SUFFICES ASSUME NEW p \in 1..Len(pipelines'), ~pipelines'[p].mutating
               PROVE  pipelines'[p].vouched
    BY RowAdded DEF DeclaredInv
  <2>1. CASE p = Len(pipelines) + 1
    BY <2>1, RowAdded
  <2>2. CASE p \in 1..Len(pipelines)
    BY <2>2, RowAdded DEF IInv, DeclaredInv
  <2> QED BY <1>1, <2>1, <2>2
<1>3. RequestedInv'
  BY <1>1, RowAdded DEF IInv, RequestedInv
<1> QED BY <1>2, <1>3 DEF IInv

(* A run is requested if policy does not deny it. *)
LEMMA ExecuteStep ==
  ASSUME IInv, NEW r \in Runs, NEW a \in Actors, NEW p \in 1..Len(pipelines),
         NEW env \in Environments, Execute(r, a, p, env)
  PROVE  IInv'
<1>1. /\ runs' = [q \in Runs |-> runs'[q]] /\ UNCHANGED pipelines
      /\ \A q \in Runs : q # r => runs'[q] = runs[q]
      /\ runs'[r].pipeline = p /\ runs'[r].actor = a /\ DOMAIN runs'[r] = Fields
  BY DEF Execute, NoRun, IInv, RequestedInv, Fields
<1>2. ActorTier[a] = TierReadOnly => ~pipelines[p].mutating
  <2>1. pipelines[p].mutating \in BOOLEAN
    <3>1. pipelines[p] \in Pipeline
      BY DEF IInv, DeclaredInv
    <3> QED BY <3>1, Zenon DEF Pipeline
  <2> QED BY <2>1, ReadOnlyIsDenied DEF Execute, GetPipeline
<1> QED BY <1>1, <1>2 DEF IInv, DeclaredInv, RequestedInv

(* What comes after a run's request leaves its pipeline and its actor. *)
LEMMA RunStep ==
  ASSUME IInv, NEW r \in Runs,
         ReportResult(r) \/ FindRate(r) \/ CaptureCIDuration(r) \/ CaptureFails(r)
  PROVE  IInv'
<1>1. UNCHANGED pipelines /\ runs[r].pc # "absent"
  BY DEF ReportResult, FindRate, CaptureCIDuration, CaptureFails, Capturing
<1>2. /\ runs' = [q \in Runs |-> runs'[q]]
      /\ \A q \in Runs : q # r => runs'[q] = runs[q]
      /\ runs'[r].pipeline = runs[r].pipeline /\ runs'[r].actor = runs[r].actor
      /\ DOMAIN runs'[r] = Fields
  BY DEF ReportResult, FindRate, CaptureCIDuration, CaptureFails, IInv, RequestedInv, Fields
<1> QED BY <1>1, <1>2 DEF IInv, DeclaredInv, RequestedInv

LEMMA NextIInv == IInv /\ [Next]_vars => IInv'
<1> SUFFICES ASSUME IInv, [Next]_vars PROVE IInv'
  OBVIOUS
<1>1. ASSUME NEW a \in Actors, RunCostSetRate(a) PROVE IInv'
  BY <1>1 DEF RunCostSetRate, PutCostRate, IInv, DeclaredInv, RequestedInv
<1>2. CASE Tick
  BY <1>2 DEF Tick, IInv, DeclaredInv, RequestedInv
<1>3. CASE UNCHANGED vars
  BY <1>3 DEF vars, IInv, DeclaredInv, RequestedInv
<1> QED BY <1>1, <1>2, <1>3, PostPipelinesStep, ExecuteStep, RunStep DEF Next

LEMMA Invariance == Spec => []IInv
  BY InitIInv, NextIInv, PTL DEF Spec

(* "Only Autonomous, which already acts unsupervised, may vouch for it", for *)
(* any number of pipelines and runs.                                         *)
THEOREM PipelinesVouchedFor == Spec => []VouchedFor
<1>1. IInv => VouchedFor
  BY DEF IInv, DeclaredInv, RequestedInv, VouchedFor, GetPipeline
<1> QED BY <1>1, Invariance, PTL

-------------------------------------------------------------------------------
(* The rate of a run.                                                       *)

Rate == [perMs : Nat, perMinute : PerMinute, currency : Currencies]

USE DEF Matching, Before

(* ORDER BY ... LIMIT 1 takes the first matching scope in the documented      *)
(* order.                                                                     *)
LEMMA FirstInOrder ==
  ASSUME NEW table, NEW env, NEW provider, env # NULL, provider # NULL,
         NEW s \in {env, NULL} \X {provider, NULL}, table[s] # NULL,
         \A t \in {env, NULL} \X {provider, NULL} : table[t] # NULL => Before(s, t)
  PROVE  FindCostRate(table, env, provider) = table[s]
<1> DEFINE rows == Matching(table, env, provider)
<1>1. s \in rows /\ \A t \in rows : Before(s, t)
  OBVIOUS
<1>2. ASSUME NEW t \in rows, Before(s, t), Before(t, s) PROVE t = s
  BY <1>2
<1>3. (CHOOSE t \in rows : \A u \in rows : Before(t, u)) = s
  BY <1>1, <1>2
<1> QED BY <1>1, <1>3 DEF FindCostRate

LEMMA FindsMostSpecific ==
  ASSUME NEW table, NEW env, NEW provider, env # NULL, provider # NULL
  PROVE  FindCostRate(table, env, provider) = MostSpecific(table, env, provider)
<1> DEFINE wins == <<<<env, provider>>, <<env, NULL>>, <<NULL, provider>>, <<NULL, NULL>>>>
           set == {i \in 1..4 : table[wins[i]] # NULL}
<1>1. CASE set = {}
  <2>1. Matching(table, env, provider) = {}
    BY <1>1
  <2> QED BY <1>1, <2>1 DEF FindCostRate, MostSpecific
<1>2. CASE set # {}
  <2>1. PICK i \in set : \A j \in set : i <= j
    BY <1>2
  <2>2. Min(set) = i
    BY <2>1 DEF Min
  <2>3. \A t \in {env, NULL} \X {provider, NULL} : table[t] # NULL => Before(wins[i], t)
    BY <2>1
  <2>4. FindCostRate(table, env, provider) = table[wins[i]]
    BY <2>1, <2>3, FirstInOrder
  <2> QED BY <1>2, <2>2, <2>4 DEF MostSpecific
<1> QED BY <1>1, <1>2

InForce(r) == MostSpecific(rates, runs[r].env, ProviderOf(r))

RatesInv ==
  /\ clock \in Nat
  /\ rates \in [Scopes -> Rate \cup {NULL}]
  /\ \A p \in 1..Len(pipelines) : pipelines[p].provider \in KnownProviders

(* A run has its scope from the start, and its times are in order. *)
TimesInv ==
  \A r \in Runs : runs[r].pc # "absent" =>
    /\ runs[r].env \in Environments
    /\ runs[r].started \in 0..clock
    /\ runs[r].pc # "executing" => runs[r].finished \in runs[r].started..clock

(* While a report is handled, the rate in force and the one that was read    *)
(* are among those in force since; there is no cost before.                  *)
CapturingInv ==
  /\ inForce \in [Runs -> SUBSET (Rate \cup {NULL})]
  /\ costs = [r \in Runs |-> costs[r]]
  /\ \A r \in Runs :
       /\ runs[r].pc \in {"find", "insert"} => InForce(r) \in inForce[r]
       /\ runs[r].pc = "insert" => runs[r].rate \in inForce[r]
       /\ runs[r].pc # "done" => costs[r] = NULL
       /\ runs[r].pc \in {"absent", "executing", "find", "insert", "done"}

CostInv == IInv /\ RatesInv /\ TimesInv /\ CapturingInv /\ PricedAtReport

LEMMA MostSpecificIsRate ==
  ASSUME NEW table \in [Scopes -> Rate \cup {NULL}],
         NEW env \in Environments, NEW provider \in KnownProviders
  PROVE  MostSpecific(table, env, provider) \in Rate \cup {NULL}
<1> DEFINE wins == <<<<env, provider>>, <<env, NULL>>, <<NULL, provider>>, <<NULL, NULL>>>>
           set == {i \in 1..4 : table[wins[i]] # NULL}
<1>1. CASE set = {}
  BY <1>1 DEF MostSpecific
<1>2. CASE set # {}
  <2>1. PICK i \in set : \A j \in set : i <= j
    BY <1>2
  <2>2. Min(set) = i
    BY <2>1 DEF Min
  <2>3. wins[i] \in Scopes
    BY <2>1 DEF Scopes
  <2>4. table[wins[i]] \in Rate \cup {NULL}
    BY <2>3
  <2> QED BY <1>2, <2>2, <2>4 DEF MostSpecific
<1> QED BY <1>1, <1>2

LEMMA RateInForce ==
  ASSUME IInv, RatesInv, TimesInv, NEW r \in Runs, runs[r].pc # "absent"
  PROVE  /\ FindCostRate(rates, runs[r].env, ProviderOf(r)) = InForce(r)
         /\ InForce(r) \in Rate \cup {NULL}
         /\ runs[r].env \in Environments /\ ProviderOf(r) \in KnownProviders
         /\ ProviderOf(r) = pipelines[runs[r].pipeline].provider
<1>1. runs[r].env \in Environments /\ ProviderOf(r) \in KnownProviders
  BY DEF IInv, RequestedInv, RatesInv, TimesInv, ProviderOf, GetPipeline
<1>2. runs[r].env # NULL /\ ProviderOf(r) # NULL
  BY <1>1, CatalogAssumption
<1>3. FindCostRate(rates, runs[r].env, ProviderOf(r)) = InForce(r)
  BY <1>2, FindsMostSpecific DEF InForce
<1>4. InForce(r) \in Rate \cup {NULL}
  BY <1>1, MostSpecificIsRate DEF RatesInv, InForce
<1> QED BY <1>1, <1>3, <1>4 DEF ProviderOf, GetPipeline

LEMMA InitCostInv == Init => CostInv
<1> SUFFICES ASSUME Init PROVE CostInv
  OBVIOUS
<1>1. RatesInv /\ TimesInv
  BY DEF Init, RatesInv, TimesInv, NoRun
<1>2. CapturingInv /\ PricedAtReport
  BY DEF Init, CapturingInv, PricedAtReport, NoRun
<1> QED BY <1>1, <1>2, InitIInv DEF CostInv

LEMMA PostPipelinesCost ==
  ASSUME CostInv, NEW a \in Actors, RunPipelineRegister(a)
  PROVE  CostInv'
<1> USE DEF CostInv
<1>1. /\ UNCHANGED <<rates, runs, costs, inForce, clock>>
      /\ Len(pipelines') = Len(pipelines) + 1 /\ Len(pipelines) \in Nat
  BY RowAdded DEF IInv, DeclaredInv
<1>2. RatesInv'
  <2> SUFFICES ASSUME NEW p \in 1..Len(pipelines') PROVE pipelines'[p].provider \in KnownProviders
    BY <1>1 DEF RatesInv
  <2>1. CASE p = Len(pipelines) + 1
    BY <2>1, RowAdded
  <2>2. CASE p \in 1..Len(pipelines)
    BY <2>2, RowAdded DEF RatesInv
  <2> QED BY <1>1, <2>1, <2>2
<1>3. TimesInv'
  BY <1>1 DEF TimesInv
<1>4. CapturingInv'
  <2>1. ASSUME NEW r \in Runs, runs[r].pc # "absent" PROVE InForce(r)' = InForce(r)
    BY <1>1, <2>1, RowAdded DEF IInv, RequestedInv, InForce, ProviderOf, GetPipeline
  <2> QED BY <1>1, <2>1 DEF CapturingInv
<1>5. PricedAtReport'
  BY <1>1 DEF PricedAtReport
<1> QED BY <1>2, <1>3, <1>4, <1>5, PostPipelinesStep

LEMMA PutCostRateStep ==
  ASSUME CostInv, NEW a \in Actors, RunCostSetRate(a)
  PROVE  CostInv'
<1> USE DEF CostInv
<1>1. PICK scope \in Scopes, row \in Rate : PutCostRate(a, scope, row)
  <2>1. PICK scope \in Scopes, perMinute \in PerMinute, currency \in Currencies :
          PutCostRate(a, scope, [perMs |-> RateMicrosPerMs(perMinute),
                                 perMinute |-> perMinute, currency |-> currency])
    BY DEF RunCostSetRate
  <2>2. RateMicrosPerMs(perMinute) \in Int /\ RateMicrosPerMs(perMinute) >= 0
    BY <2>1, CatalogAssumption DEF PutCostRate, RateMicrosPerMs
  <2> QED BY <2>1, <2>2 DEF Rate
<1>2. /\ rates' = [rates EXCEPT ![scope] = row]
      /\ UNCHANGED <<pipelines, runs, costs, clock, faults>>
  BY <1>1 DEF PutCostRate, UpsertCostRate
<1>3. IInv' /\ RatesInv' /\ TimesInv'
  BY <1>1, <1>2 DEF IInv, DeclaredInv, RequestedInv, RatesInv, TimesInv
<1>4. /\ inForce' \in [Runs -> SUBSET (Rate \cup {NULL})]
      /\ \A r \in Runs : inForce[r] \subseteq inForce'[r]
      /\ \A r \in Capturing : InForce(r)' \in inForce'[r]
  <2>1. inForce' = [r \in Runs |->
          IF r \in Capturing THEN inForce[r] \cup {InForce(r)'} ELSE inForce[r]]
    BY <1>1, <1>2 DEF PutCostRate, InForce, ProviderOf, GetPipeline
  <2>2. ASSUME NEW r \in Capturing PROVE InForce(r)' \in Rate \cup {NULL}
    <3>1. runs[r].env \in Environments /\ ProviderOf(r) \in KnownProviders
      BY <2>2, RateInForce DEF Capturing
    <3> QED BY <1>2, <1>3, <3>1, MostSpecificIsRate DEF RatesInv, InForce, ProviderOf, GetPipeline
  <2> QED BY <2>1, <2>2 DEF CapturingInv, Capturing
<1>5. CapturingInv'
  BY <1>2, <1>4 DEF CapturingInv, Capturing
<1>6. PricedAtReport'
  BY <1>2, <1>4 DEF PricedAtReport
<1> QED BY <1>3, <1>5, <1>6

LEMMA ExecuteCost ==
  ASSUME CostInv, NEW r \in Runs, NEW a \in Actors, NEW p \in 1..Len(pipelines),
         NEW env \in Environments, Execute(r, a, p, env)
  PROVE  CostInv'
<1> USE DEF CostInv
<1>1. /\ \A q \in Runs : q # r => runs'[q] = runs[q]
      /\ UNCHANGED <<pipelines, rates, costs, inForce, clock>>
      /\ runs[r].pc = "absent" /\ runs'[r].pc = "executing" /\ runs'[r].env = env
      /\ runs'[r].started = clock
  BY DEF Execute, NoRun, IInv, RequestedInv
<1>2. IInv' /\ RatesInv'
  BY <1>1, ExecuteStep DEF RatesInv
<1>3. TimesInv'
  BY <1>1 DEF TimesInv, RatesInv
<1>4. CapturingInv'
  BY <1>1 DEF CapturingInv, InForce, ProviderOf, GetPipeline
<1>5. PricedAtReport'
  BY <1>1 DEF CapturingInv, PricedAtReport
<1> QED BY <1>2, <1>3, <1>4, <1>5

(* The steps of a run's report. *)
Captures(r) == ReportResult(r) \/ FindRate(r) \/ CaptureCIDuration(r) \/ CaptureFails(r)

LEMMA CapturesFrame ==
  ASSUME CostInv, NEW r \in Runs, Captures(r)
  PROVE  /\ \A q \in Runs : q # r =>
              runs'[q] = runs[q] /\ inForce'[q] = inForce[q] /\ costs'[q] = costs[q]
         /\ UNCHANGED <<pipelines, rates, clock>> /\ runs[r].pc # "absent"
         /\ runs'[r].pipeline = runs[r].pipeline /\ runs'[r].env = runs[r].env
         /\ runs'[r].started = runs[r].started
         /\ IInv' /\ RatesInv' /\ ProviderOf(r)' = ProviderOf(r)
<1>1. IInv' /\ UNCHANGED <<pipelines, rates, clock>>
  BY RunStep DEF Captures, CostInv, ReportResult, FindRate, CaptureCIDuration, CaptureFails
<1>2. RatesInv'
  BY <1>1 DEF CostInv, RatesInv
<1>3. /\ \A q \in Runs : q # r => runs'[q] = runs[q]
      /\ runs[r].pc # "absent"
      /\ runs'[r].pipeline = runs[r].pipeline /\ runs'[r].env = runs[r].env
      /\ runs'[r].started = runs[r].started
  BY DEF Captures, CostInv, IInv, RequestedInv, Fields, Capturing,
         ReportResult, FindRate, CaptureCIDuration, CaptureFails
<1>4. \A q \in Runs : q # r => inForce'[q] = inForce[q] /\ costs'[q] = costs[q]
  BY DEF Captures, CostInv, CapturingInv, CreateRunCost,
         ReportResult, FindRate, CaptureCIDuration, CaptureFails
<1>5. ProviderOf(r)' = ProviderOf(r)
  BY <1>1, <1>3 DEF ProviderOf, GetPipeline
<1> QED BY <1>1, <1>2, <1>3, <1>4, <1>5

(* What is left to show of a step is what it does to its own run. *)
CostOf(r) ==
  costs[r] # NULL =>
    /\ costs[r].duration = runs[r].finished - runs[r].started
    /\ \E rate \in inForce[r] :
         IF rate = NULL THEN costs[r].amount = NULL
         ELSE /\ costs[r].currency = rate.currency
              /\ costs[r].duration * rate.perMs < HalfWord =>
                   costs[r].amount = costs[r].duration * rate.perMs

LEMMA CapturesOwn ==
  ASSUME CostInv, NEW r \in Runs, Captures(r),
         costs' = [q \in Runs |-> costs'[q]],
         inForce' \in [Runs -> SUBSET (Rate \cup {NULL})],
         runs'[r].pc \in {"find", "insert", "done"},
         runs'[r].finished \in runs[r].started..clock,
         runs'[r].pc \in {"find", "insert"} => InForce(r) \in inForce'[r],
         runs'[r].pc = "insert" => runs'[r].rate \in inForce'[r],
         runs'[r].pc # "done" => costs'[r] = NULL,
         CostOf(r)'
  PROVE  CostInv'
<1> USE CapturesFrame
<1>1. InForce(r)' = InForce(r)
  BY DEF InForce
<1>2. \A q \in Runs : q # r => InForce(q)' = InForce(q)
  BY DEF InForce, ProviderOf, GetPipeline
<1>3. TimesInv'
  BY DEF CostInv, TimesInv
<1>4. CapturingInv'
  BY <1>1, <1>2 DEF CostInv, CapturingInv
<1>5. PricedAtReport'
  <2>1. \A q \in Runs : q # r => CostOf(q)'
    BY DEF CostInv, PricedAtReport, CostOf
  <2> QED BY <2>1 DEF PricedAtReport, CostOf
<1> QED BY <1>3, <1>4, <1>5 DEF CostInv

LEMMA ReportResultStep ==
  ASSUME CostInv, NEW r \in Runs, ReportResult(r)
  PROVE  CostInv'
<1>1. Captures(r)
  BY DEF Captures
<1>2. /\ runs'[r].pc = "find" /\ runs'[r].finished = clock /\ costs' = costs /\ costs[r] = NULL
  BY DEF ReportResult, CostInv, IInv, RequestedInv, Fields, CapturingInv
<1>3. InForce(r) \in Rate \cup {NULL}
  BY RateInForce DEF CostInv, ReportResult
<1>4. inForce' \in [Runs -> SUBSET (Rate \cup {NULL})] /\ inForce'[r] = {InForce(r)}
  BY <1>3 DEF ReportResult, CostInv, CapturingInv, InForce
<1>5. clock \in runs[r].started..clock
  BY DEF ReportResult, CostInv, TimesInv, RatesInv
<1> QED BY <1>1, <1>2, <1>4, <1>5, CapturesOwn DEF CostInv, CapturingInv, CostOf

LEMMA FindRateStep ==
  ASSUME CostInv, NEW r \in Runs, FindRate(r)
  PROVE  CostInv'
<1>1. Captures(r)
  BY DEF Captures
<1>2. /\ runs'[r].pc = "insert" /\ runs'[r].finished = runs[r].finished
      /\ runs'[r].rate = FindCostRate(rates, runs[r].env, ProviderOf(r))
      /\ UNCHANGED <<costs, inForce>>
  BY DEF FindRate, CostInv, IInv, RequestedInv, Fields
<1>3. runs'[r].rate = InForce(r)
  BY <1>2, RateInForce DEF CostInv, FindRate
<1>4. costs[r] = NULL /\ InForce(r) \in inForce[r]
  BY DEF FindRate, CostInv, CapturingInv
<1>5. runs[r].finished \in runs[r].started..clock
  BY DEF FindRate, CostInv, TimesInv
<1> QED BY <1>1, <1>2, <1>3, <1>4, <1>5, CapturesOwn DEF CostInv, CapturingInv, CostOf

(* A product within the word is not changed. *)
LEMMA WrappedWithin ==
  ASSUME NEW x \in Nat, x < HalfWord
  PROVE  Wrapped(x) = x
<1>1. x + HalfWord \in 0..(2 * HalfWord - 1) /\ HalfWord \in Nat \ {0}
  BY CatalogAssumption
<1>2. (x + HalfWord) % (2 * HalfWord) = x + HalfWord
  BY <1>1
<1> QED BY <1>1, <1>2 DEF Wrapped

LEMMA CaptureCIDurationStep ==
  ASSUME CostInv, NEW r \in Runs, CaptureCIDuration(r)
  PROVE  CostInv'
<1> DEFINE rate == runs[r].rate
           price == Priced(Duration(r), rate)
           row == [duration |-> Duration(r), amount |-> price.amount,
                   currency |-> price.currency, capturedAt |-> clock]
<1>1. Captures(r)
  BY DEF Captures
<1>2. /\ runs'[r].pc = "done" /\ runs'[r].finished = runs[r].finished
      /\ runs'[r].started = runs[r].started /\ UNCHANGED inForce
  BY DEF CaptureCIDuration, CostInv, IInv, RequestedInv, Fields
<1>3. costs' = [q \in Runs |-> costs'[q]] /\ costs'[r] = row
  BY DEF CaptureCIDuration, CostInv, CapturingInv, CreateRunCost
<1>4. runs[r].finished \in runs[r].started..clock /\ runs[r].started \in Nat /\ clock \in Nat
  BY DEF CaptureCIDuration, CostInv, TimesInv, RatesInv
<1>5. rate \in inForce[r] /\ rate \in Rate \cup {NULL}
  BY DEF CaptureCIDuration, CostInv, CapturingInv
<1>6. CostOf(r)'
  <2>1. Duration(r) \in Nat /\ row.duration = runs'[r].finished - runs'[r].started
    BY <1>2, <1>4 DEF Duration
  <2>2. CASE rate = NULL
    BY <1>2, <1>3, <1>5, <2>1, <2>2 DEF CostOf, Priced
  <2>3. CASE rate # NULL
    <3>1. rate.perMs \in Nat
      BY <1>5, <2>3 DEF Rate
    <3>2. Duration(r) * rate.perMs \in Nat
      BY <2>1, <3>1
    <3>3. row.currency = rate.currency /\ row.amount = Wrapped(Duration(r) * rate.perMs)
      BY <2>3 DEF Priced
    <3>4. Duration(r) * rate.perMs < HalfWord => row.amount = Duration(r) * rate.perMs
      BY <3>2, <3>3, WrappedWithin
    <3> QED BY <1>2, <1>3, <1>5, <2>1, <2>3, <3>3, <3>4 DEF CostOf
  <2> QED BY <2>2, <2>3
<1> HIDE DEF row
<1> QED BY <1>1, <1>2, <1>3, <1>4, <1>6, CapturesOwn DEF CostInv, CapturingInv

LEMMA CaptureFailsStep ==
  ASSUME CostInv, NEW r \in Runs, CaptureFails(r)
  PROVE  CostInv'
<1>1. Captures(r)
  BY DEF Captures
<1>2. /\ runs'[r].pc = "done" /\ runs'[r].finished = runs[r].finished
      /\ UNCHANGED <<costs, inForce>>
  BY DEF CaptureFails, CostInv, IInv, RequestedInv, Fields
<1>3. costs[r] = NULL
  BY DEF CaptureFails, Capturing, CostInv, CapturingInv
<1>4. runs[r].finished \in runs[r].started..clock
  BY DEF CaptureFails, Capturing, CostInv, TimesInv
<1> QED BY <1>1, <1>2, <1>3, <1>4, CapturesOwn DEF CostInv, CapturingInv, CostOf

LEMMA NextCostInv == CostInv /\ [Next]_vars => CostInv'
<1> SUFFICES ASSUME CostInv, [Next]_vars PROVE CostInv'
  OBVIOUS
<1>1. CASE Tick
  <2>1. IInv'
    BY <1>1, NextIInv DEF CostInv, Next
  <2>2. RatesInv' /\ TimesInv'
    BY <1>1, CatalogAssumption DEF Tick, CostInv, RatesInv, TimesInv
  <2>3. CapturingInv' /\ PricedAtReport'
    BY <1>1 DEF Tick, CostInv, CapturingInv, PricedAtReport, InForce, ProviderOf, GetPipeline
  <2> QED BY <2>1, <2>2, <2>3 DEF CostInv
<1>2. CASE UNCHANGED vars
  <2>1. IInv'
    BY <1>2, NextIInv DEF CostInv
  <2>2. RatesInv' /\ TimesInv'
    BY <1>2 DEF vars, CostInv, RatesInv, TimesInv
  <2>3. CapturingInv' /\ PricedAtReport'
    BY <1>2 DEF vars, CostInv, CapturingInv, PricedAtReport, InForce, ProviderOf, GetPipeline
  <2> QED BY <2>1, <2>2, <2>3 DEF CostInv
<1> QED BY <1>1, <1>2, PostPipelinesCost, PutCostRateStep, ExecuteCost, ReportResultStep,
           FindRateStep, CaptureCIDurationStep, CaptureFailsStep DEF Next

(* A captured cost is priced at the most specific rate in force at some      *)
(* moment between report and capture, for any number of runs and rates       *)
(* (findCostRate, CaptureCIDuration).                                        *)
THEOREM CostsPriced == Spec => []PricedAtReport
<1>1. Spec => []CostInv
  BY InitCostInv, NextCostInv, PTL DEF Spec
<1>2. CostInv => PricedAtReport
  BY DEF CostInv
<1> QED BY <1>1, <1>2, PTL

-------------------------------------------------------------------------------
(* Sums over finite sets.  SumFunction recurses over the subsets of its       *)
(* domain and takes the element CHOOSE gives it.  What holds of its result is *)
(* shown by a smallest set for which it fails (MinimalSubset): the recursion  *)
(* exists and is unique, the order of the elements does not matter            *)
(* (SumOfElement), sums over disjoint sets add up (SumOfSplit), and renaming  *)
(* the elements changes nothing (SumRenamed).                                 *)

(* The element MapThenSumSet takes first. *)
First(s) == CHOOSE x \in s : TRUE

(* g is the recursion of a sum of f over the subsets of S. *)
Sums(g, f, S) ==
  g = [s \in SUBSET S |-> IF s = {} THEN 0 ELSE f[First(s)] + g[s \ {First(s)}]]

LEMMA FirstIn == \A s : s # {} => First(s) \in s
  BY DEF First

(* Induction over the subsets of a finite set, for sets instead of            *)
(* predicates.                                                                *)
LEMMA MinimalSubset ==
  ASSUME NEW S, IsFiniteSet(S), NEW Bad, Bad \subseteq SUBSET S, Bad # {}
  PROVE  \E T \in Bad : \A U \in SUBSET T : U # T => U \notin Bad
<1>1. IsWellFoundedOn(StrictSubsetOrdering(S), SUBSET S)
  BY FS_FiniteSubsetsOfFinite, FS_StrictSubsetOrderingWellFounded
<1>2. PICK T \in Bad : \A U \in Bad : <<U, T>> \notin StrictSubsetOrdering(S)
  BY <1>1, WFMin
<1> QED BY <1>2 DEF StrictSubsetOrdering

LEMMA SumsUnique ==
  ASSUME NEW f, NEW S, NEW T, IsFiniteSet(S), NEW g, NEW h, Sums(g, f, S), Sums(h, f, T)
  PROVE  \A s \in (SUBSET S) \cap (SUBSET T) : g[s] = h[s]
<1> DEFINE Bad == {s \in SUBSET S : s \in SUBSET T /\ g[s] # h[s]}
<1> SUFFICES ASSUME Bad # {} PROVE FALSE
  OBVIOUS
<1>1. PICK s \in Bad : \A u \in SUBSET s : u # s => u \notin Bad
  <2>1. Bad \subseteq SUBSET S
    OBVIOUS
  <2> HIDE DEF Bad
  <2> QED BY <2>1, MinimalSubset
<1>2. CASE s = {}
  BY <1>2 DEF Sums
<1>3. CASE s # {}
  <2>1. First(s) \in s
    BY <1>3, FirstIn
  <2>2. g[s \ {First(s)}] = h[s \ {First(s)}]
    BY <1>1, <2>1
  <2>3. g[s] = f[First(s)] + g[s \ {First(s)}] /\ h[s] = f[First(s)] + h[s \ {First(s)}]
    BY <1>3 DEF Sums
  <2> QED BY <2>2, <2>3
<1> QED BY <1>2, <1>3

(* The recursion of the sum of f over S. *)
Adding(f, S) == CHOOSE g : Sums(g, f, S)

LEMMA SumsExists ==
  ASSUME NEW f, NEW S, IsFiniteSet(S)
  PROVE  \E g : Sums(g, f, S)
<1> DEFINE Bad == {T \in SUBSET S : ~ \E g : Sums(g, f, T)}
<1> SUFFICES ASSUME Bad # {} PROVE FALSE
  OBVIOUS
<1>1. PICK T \in Bad : \A U \in SUBSET T : U # T => U \notin Bad
  <2>1. Bad \subseteq SUBSET S
    OBVIOUS
  <2> HIDE DEF Bad
  <2> QED BY <2>1, MinimalSubset
<1> DEFINE w == [s \in SUBSET T |-> IF s = {} THEN 0
                   ELSE f[First(s)] + Adding(f, s \ {First(s)})[s \ {First(s)}]]
<1>2. \A u \in SUBSET T : u # T => Sums(Adding(f, u), f, u)
  BY <1>1 DEF Adding
<1>3. ASSUME NEW u \in SUBSET T, u # T PROVE w[u] = Adding(f, u)[u]
  <2>1. CASE u = {}
    BY <1>2, <1>3, <2>1 DEF Sums
  <2>2. CASE u # {}
    <3> DEFINE v == u \ {First(u)}
    <3>1. v \in SUBSET u /\ v # u /\ v # T /\ v \in SUBSET T
      BY <1>3, <2>2, FirstIn
    <3>2. Adding(f, u)[u] = f[First(u)] + Adding(f, u)[v]
      BY <1>2, <1>3, <2>2 DEF Sums
    <3>3. IsFiniteSet(u)
      BY FS_Subset
    <3>4. Sums(Adding(f, u), f, u) /\ Sums(Adding(f, v), f, v)
      BY <1>2, <1>3, <3>1
    <3>5. Adding(f, u)[v] = Adding(f, v)[v]
      <4> HIDE DEF v
      <4> QED BY <3>1, <3>3, <3>4, SumsUnique
    <3> QED BY <2>2, <3>2, <3>5
  <2> QED BY <2>1, <2>2
<1>4. Sums(w, f, T)
  <2>1. ASSUME NEW s \in SUBSET T, s # {}
        PROVE  w[s \ {First(s)}] = Adding(f, s \ {First(s)})[s \ {First(s)}]
    <3>1. s \ {First(s)} \in SUBSET T /\ s \ {First(s)} # T
      BY <2>1, FirstIn
    <3> HIDE DEF w
    <3> QED BY <1>3, <3>1
  <2>2. \A s \in SUBSET T : w[s] = IF s = {} THEN 0 ELSE f[First(s)] + w[s \ {First(s)}]
    BY <2>1
  <2>3. w = [s \in SUBSET T |-> w[s]]
    OBVIOUS
  <2> HIDE DEF w
  <2> QED BY <2>2, <2>3 DEF Sums
<1> QED BY <1>1, <1>4

LEMMA AddingSums ==
  ASSUME NEW f, NEW S, IsFiniteSet(S)
  PROVE  Sums(Adding(f, S), f, S)
  BY SumsExists DEF Adding

(* The sum of f over a finite set. *)
SumOf(f, S) == Adding(f, S)[S]

LEMMA SumOfEmpty == \A f : SumOf(f, {}) = 0
<1> SUFFICES ASSUME NEW f PROVE SumOf(f, {}) = 0
  OBVIOUS
<1>1. Sums(Adding(f, {}), f, {})
  BY AddingSums, FS_EmptySet
<1> QED BY <1>1 DEF Sums, SumOf

(* Which element is taken first does not matter. *)
LEMMA SumOfFirst ==
  ASSUME NEW f, NEW S, IsFiniteSet(S), S # {}
  PROVE  SumOf(f, S) = f[First(S)] + SumOf(f, S \ {First(S)})
<1> DEFINE v == S \ {First(S)}
<1>1. IsFiniteSet(v) /\ v \in SUBSET S
  BY FS_Subset
<1>2. Sums(Adding(f, S), f, S) /\ Sums(Adding(f, v), f, v)
  BY <1>1, AddingSums
<1>3. Adding(f, S)[S] = f[First(S)] + Adding(f, S)[v]
  BY <1>2 DEF Sums
<1>4. Adding(f, S)[v] = Adding(f, v)[v]
  <2>1. v \in (SUBSET S) \cap (SUBSET v)
    BY <1>1
  <2> HIDE DEF v
  <2> QED BY <1>2, <2>1, SumsUnique
<1> QED BY <1>3, <1>4 DEF SumOf

LEMMA SumOfInt ==
  ASSUME NEW S, IsFiniteSet(S), NEW f, \A x \in S : f[x] \in Int
  PROVE  SumOf(f, S) \in Int
<1> DEFINE Bad == {T \in SUBSET S : SumOf(f, T) \notin Int}
<1> SUFFICES ASSUME Bad # {} PROVE FALSE
  OBVIOUS
<1>1. PICK T \in Bad : \A U \in SUBSET T : U # T => U \notin Bad
  <2>1. Bad \subseteq SUBSET S
    OBVIOUS
  <2> HIDE DEF Bad
  <2> QED BY <2>1, MinimalSubset
<1>2. T # {}
  <2> SUFFICES ASSUME T = {} PROVE FALSE
    OBVIOUS
  <2>1. SumOf(f, {}) = 0
    BY SumOfEmpty
  <2> QED BY <1>1, <2>1
<1>3. IsFiniteSet(T)
  BY FS_Subset
<1>4. First(T) \in T
  BY <1>2, FirstIn
<1>5. SumOf(f, T \ {First(T)}) \in Int
  BY <1>1, <1>4
<1>6. SumOf(f, T) = f[First(T)] + SumOf(f, T \ {First(T)})
  BY <1>2, <1>3, SumOfFirst
<1> QED BY <1>1, <1>4, <1>5, <1>6

LEMMA SumOfElement ==
  ASSUME NEW S, IsFiniteSet(S), NEW f, \A y \in S : f[y] \in Int, NEW x \in S
  PROVE  SumOf(f, S) = f[x] + SumOf(f, S \ {x})
<1> DEFINE Bad == {T \in SUBSET S : \E y \in T : SumOf(f, T) # f[y] + SumOf(f, T \ {y})}
<1> SUFFICES ASSUME Bad # {} PROVE FALSE
  OBVIOUS
<1>1. PICK T \in Bad : \A U \in SUBSET T : U # T => U \notin Bad
  <2>1. Bad \subseteq SUBSET S
    OBVIOUS
  <2> HIDE DEF Bad
  <2> QED BY <2>1, MinimalSubset
<1>2. PICK y \in T : SumOf(f, T) # f[y] + SumOf(f, T \ {y})
  BY <1>1
<1> DEFINE z == First(T)
<1>3. z \in T
  BY <1>2, FirstIn
<1>4. IsFiniteSet(T)
  BY FS_Subset
<1>5. SumOf(f, T) = f[z] + SumOf(f, T \ {z})
  BY <1>3, <1>4, SumOfFirst
<1> HIDE DEF z
<1>6. y # z
  BY <1>2, <1>5
<1> DEFINE rest == SumOf(f, (T \ {z}) \ {y})
<1>7. SumOf(f, T \ {z}) = f[y] + rest
  BY <1>1, <1>3, <1>6
<1>8. SumOf(f, T \ {y}) = f[z] + rest
  <2>1. (T \ {z}) \ {y} = (T \ {y}) \ {z}
    OBVIOUS
  <2>2. SumOf(f, T \ {y}) = f[z] + SumOf(f, (T \ {y}) \ {z})
    BY <1>1, <1>2, <1>3, <1>6
  <2> QED BY <2>1, <2>2
<1>9. rest \in Int
  <2>1. IsFiniteSet((T \ {z}) \ {y})
    BY <1>4, FS_Subset
  <2> QED BY <2>1, SumOfInt
<1>10. f[y] \in Int /\ f[z] \in Int
  BY <1>2, <1>3
<1> HIDE DEF rest
<1>11. SumOf(f, T) = f[y] + SumOf(f, T \ {y})
  BY <1>5, <1>7, <1>8, <1>9, <1>10
<1> QED BY <1>2, <1>11

(* Disjoint sets. *)
LEMMA SumOfUnion ==
  ASSUME NEW S, IsFiniteSet(S), NEW T, IsFiniteSet(T), S \cap T = {},
         NEW f, \A x \in S \cup T : f[x] \in Int
  PROVE  SumOf(f, S \cup T) = SumOf(f, S) + SumOf(f, T)
<1> DEFINE Bad == {U \in SUBSET S : SumOf(f, U \cup T) # SumOf(f, U) + SumOf(f, T)}
<1> SUFFICES ASSUME Bad # {} PROVE FALSE
  OBVIOUS
<1>1. PICK U \in Bad : \A V \in SUBSET U : V # U => V \notin Bad
  <2>1. Bad \subseteq SUBSET S
    OBVIOUS
  <2> HIDE DEF Bad
  <2> QED BY <2>1, MinimalSubset
<1>2. SumOf(f, T) \in Int
  BY SumOfInt
<1>3. U # {}
  <2> SUFFICES ASSUME U = {} PROVE FALSE
    OBVIOUS
  <2>1. U \cup T = T /\ SumOf(f, U) = 0
    BY SumOfEmpty
  <2> QED BY <1>1, <1>2, <2>1
<1>4. PICK x \in U : TRUE
  BY <1>3
<1>5. IsFiniteSet(U) /\ IsFiniteSet(U \cup T) /\ IsFiniteSet(U \ {x})
  BY FS_Subset, FS_Union
<1>6. SumOf(f, U \cup T) = f[x] + SumOf(f, (U \ {x}) \cup T)
  <2>1. (U \cup T) \ {x} = (U \ {x}) \cup T
    BY <1>4
  <2> QED BY <1>4, <1>5, <2>1, SumOfElement
<1>7. SumOf(f, U) = f[x] + SumOf(f, U \ {x})
  BY <1>4, <1>5, SumOfElement
<1>8. SumOf(f, (U \ {x}) \cup T) = SumOf(f, U \ {x}) + SumOf(f, T)
  BY <1>1, <1>4
<1>9. f[x] \in Int /\ SumOf(f, U \ {x}) \in Int
  BY <1>4, <1>5, SumOfInt
<1> QED BY <1>1, <1>2, <1>6, <1>7, <1>8, <1>9

(* As many names as are named. *)
LEMMA FS_Renamed ==
  ASSUME NEW S, IsFiniteSet(S), NEW k, \A x, y \in S : k[x] = k[y] => x = y
  PROVE  /\ IsFiniteSet({k[x] : x \in S})
         /\ Cardinality({k[x] : x \in S}) = Cardinality(S)
<1> DEFINE T == {k[x] : x \in S}
           e == [x \in S |-> k[x]]
<1>1. e \in Bijection(S, T)
  BY DEF Bijection, Injection, Surjection, IsInjective
<1>2. ExistsBijection(S, T)
  BY <1>1 DEF ExistsBijection
<1> QED BY <1>2, FS_Bijection

(* Renamed summands. *)
LEMMA SumOfRenamed ==
  ASSUME NEW S, IsFiniteSet(S), NEW f, NEW g, NEW k,
         \A x \in S : f[x] \in Int /\ g[k[x]] = f[x],
         \A x, y \in S : k[x] = k[y] => x = y
  PROVE  SumOf(g, {k[x] : x \in S}) = SumOf(f, S)
<1> DEFINE Image(U) == {k[x] : x \in U}
           Bad == {U \in SUBSET S : ~(IsFiniteSet(Image(U)) /\ SumOf(g, Image(U)) = SumOf(f, U))}
<1> SUFFICES ASSUME Bad # {} PROVE FALSE
  OBVIOUS
<1>1. PICK U \in Bad : \A V \in SUBSET U : V # U => V \notin Bad
  <2>1. Bad \subseteq SUBSET S
    OBVIOUS
  <2> HIDE DEF Bad
  <2> QED BY <2>1, MinimalSubset
<1>2. U # {}
  <2> SUFFICES ASSUME U = {} PROVE FALSE
    OBVIOUS
  <2>1. Image(U) = {}
    OBVIOUS
  <2> QED BY <1>1, <2>1, SumOfEmpty, FS_EmptySet
<1>3. PICK x \in U : TRUE
  BY <1>2
<1> DEFINE V == U \ {x}
<1>4. IsFiniteSet(Image(V)) /\ SumOf(g, Image(V)) = SumOf(f, V)
  BY <1>1, <1>3
<1>5. Image(U) = Image(V) \cup {k[x]} /\ k[x] \notin Image(V)
  BY <1>3
<1>6. IsFiniteSet(Image(U)) /\ IsFiniteSet(U)
  BY <1>4, <1>5, FS_AddElement, FS_Subset
<1>7. SumOf(f, U) = f[x] + SumOf(f, V)
  BY <1>3, <1>6, SumOfElement
<1>8. SumOf(g, Image(U)) = g[k[x]] + SumOf(g, Image(U) \ {k[x]})
  <2>1. \A y \in Image(U) : g[y] \in Int
    OBVIOUS
  <2>2. k[x] \in Image(U)
    BY <1>3
  <2> HIDE DEF Image
  <2> QED BY <1>6, <2>1, <2>2, SumOfElement
<1>9. Image(U) \ {k[x]} = Image(V)
  BY <1>5
<1> QED BY <1>1, <1>3, <1>4, <1>6, <1>7, <1>8, <1>9
(* The library's sum is this sum. *)
LEMMA SumIsSumOf ==
  ASSUME NEW f, NEW S, IsFiniteSet(S), DOMAIN f = S
  PROVE  SumFunction(f) = SumOf(f, S)
<1> DEFINE body(g) == [s \in SUBSET S |->
             IF s = {} THEN 0 ELSE f[CHOOSE x \in s : TRUE] + g[s \ {CHOOSE x \in s : TRUE}]]
           iter == CHOOSE g : g = body(g)
<1>1. SumFunction(f) = iter[S]
  BY DEF SumFunction, SumFunctionOnSet, FoldFunctionOnSet, MapThenFoldSet
<1>2. \A g : Sums(g, f, S) <=> g = body(g)
  BY DEF Sums, First
<1>3. Sums(iter, f, S)
  <2>1. \E g : g = body(g)
    <3>1. PICK g : Sums(g, f, S)
      BY SumsExists
    <3> HIDE DEF body
    <3> QED BY <1>2, <3>1
  <2> HIDE DEF body
  <2> QED BY <1>2, <2>1
<1>4. iter[S] = Adding(f, S)[S]
  <2> HIDE DEF iter
  <2> QED BY <1>3, AddingSums, SumsUnique
<1> QED BY <1>1, <1>4 DEF SumOf

LEMMA SumOfSplit ==
  ASSUME NEW S, IsFiniteSet(S), NEW T, IsFiniteSet(T), S \cap T = {},
         NEW f, DOMAIN f = S \cup T, \A x \in S \cup T : f[x] \in Int,
         NEW g, DOMAIN g = S, \A x \in S : g[x] = f[x],
         NEW h, DOMAIN h = T, \A x \in T : h[x] = f[x]
  PROVE  SumFunction(g) + SumFunction(h) = SumFunction(f)
<1>1. ASSUME NEW U, IsFiniteSet(U), U \subseteq S \cup T, NEW e, \A x \in U : e[x] = f[x]
      PROVE  SumOf(e, U) = SumOf(f, U)
  <2> DEFINE k == [x \in U |-> x]
  <2>1. {k[x] : x \in U} = U
    OBVIOUS
  <2>2. SumOf(e, {k[x] : x \in U}) = SumOf(f, U)
    <3>1. \A x \in U : f[x] \in Int /\ e[k[x]] = f[x]
      BY <1>1
    <3>2. \A x, y \in U : k[x] = k[y] => x = y
      OBVIOUS
    <3> HIDE DEF k
    <3> QED BY <1>1, <3>1, <3>2, SumOfRenamed
  <2> QED BY <2>1, <2>2
<1>2. SumOf(g, S) = SumOf(f, S) /\ SumOf(h, T) = SumOf(f, T)
  BY <1>1
<1>3. SumOf(f, S \cup T) = SumOf(f, S) + SumOf(f, T)
  BY SumOfUnion
<1>4. IsFiniteSet(S \cup T)
  BY FS_Union
<1> QED BY <1>2, <1>3, <1>4, SumIsSumOf

LEMMA SumRenamed ==
  ASSUME NEW S, IsFiniteSet(S), NEW f, DOMAIN f = S, \A x \in S : f[x] \in Int,
         NEW k, DOMAIN k = S, \A x, y \in S : k[x] = k[y] => x = y,
         NEW g, DOMAIN g = {k[x] : x \in S}, \A x \in S : g[k[x]] = f[x]
  PROVE  SumFunction(g) = SumFunction(f)
<1>1. IsFiniteSet({k[x] : x \in S})
  BY FS_Renamed
<1>2. SumOf(g, {k[x] : x \in S}) = SumOf(f, S)
  BY SumOfRenamed
<1> QED BY <1>1, <1>2, SumIsSumOf

-------------------------------------------------------------------------------
(* The rollup.                                                                *)

(* What a row of run_costs holds. *)
RowOf(r) ==
  costs[r] # NULL =>
    /\ costs[r].duration \in Int
    /\ costs[r].amount \in Int \cup {NULL}
    /\ costs[r].capturedAt \in 0..MaxTime

RowsInv == clock \in 0..MaxTime /\ \A r \in Runs : RowOf(r)

LEMMA InitRowsInv == Init => RowsInv
  BY CatalogAssumption DEF Init, RowsInv, RowOf

LEMMA WrappedInt ==
  ASSUME NEW x \in Int
  PROVE  Wrapped(x) \in Int
<1>1. x + HalfWord \in Int /\ 2 * HalfWord \in Nat \ {0} /\ HalfWord \in Int
  BY CatalogAssumption
<1>2. (x + HalfWord) % (2 * HalfWord) \in Int
  BY <1>1
<1> QED BY <1>1, <1>2 DEF Wrapped

LEMMA CaptureCIDurationRow ==
  ASSUME CostInv, RowsInv, NEW r \in Runs, CaptureCIDuration(r)
  PROVE  RowsInv'
<1> DEFINE rate == runs[r].rate
           price == Priced(Duration(r), rate)
           row == [duration |-> Duration(r), amount |-> price.amount,
                   currency |-> price.currency, capturedAt |-> clock]
<1>1. clock' = clock /\ costs[r] = NULL
  BY DEF CaptureCIDuration, CostInv, CapturingInv
<1>2. costs'[r] = row /\ \A q \in Runs : q # r => costs'[q] = costs[q]
  BY DEF CaptureCIDuration, CostInv, CapturingInv, CreateRunCost
<1>3. Duration(r) \in Int
  BY DEF CaptureCIDuration, CostInv, TimesInv, RatesInv, Duration
<1>4. price.amount \in Int \cup {NULL}
  <2>1. rate \in Rate \cup {NULL}
    BY DEF CaptureCIDuration, CostInv, CapturingInv
  <2>2. CASE rate = NULL
    BY <2>2 DEF Priced
  <2>3. CASE rate # NULL
    <3>1. Duration(r) * rate.perMs \in Int
      BY <1>3, <2>1, <2>3 DEF Rate
    <3>2. price.amount = Wrapped(Duration(r) * rate.perMs)
      BY <2>3 DEF Priced
    <3> QED BY <3>1, <3>2, WrappedInt
  <2> QED BY <2>2, <2>3
<1>5. RowOf(r)'
  BY <1>1, <1>2, <1>3, <1>4 DEF RowsInv, RowOf
<1> HIDE DEF row
<1> QED BY <1>1, <1>2, <1>5 DEF RowsInv, RowOf

LEMMA NextRowsInv == CostInv /\ RowsInv /\ [Next]_vars => RowsInv'
<1> SUFFICES ASSUME CostInv, RowsInv, [Next]_vars PROVE RowsInv'
  OBVIOUS
<1>1. CASE Tick
  BY <1>1, CatalogAssumption DEF Tick, RowsInv, RowOf
<1>2. CASE UNCHANGED vars
  BY <1>2 DEF vars, RowsInv, RowOf
<1>3. ASSUME NEW a \in Actors, RunPipelineRegister(a) PROVE RowsInv'
  BY <1>3 DEF RunPipelineRegister, PostPipelines, RowsInv, RowOf
<1>4. ASSUME NEW a \in Actors, RunCostSetRate(a) PROVE RowsInv'
  BY <1>4 DEF RunCostSetRate, PutCostRate, RowsInv, RowOf
<1>5. ASSUME NEW r \in Runs, NEW a, NEW p, NEW e, Execute(r, a, p, e) PROVE RowsInv'
  BY <1>5 DEF Execute, RowsInv, RowOf
<1>6. ASSUME NEW r \in Runs, ReportResult(r) \/ FindRate(r) \/ CaptureFails(r) PROVE RowsInv'
  BY <1>6 DEF ReportResult, FindRate, CaptureFails, RowsInv, RowOf
<1> QED BY <1>1, <1>2, <1>3, <1>4, <1>5, <1>6, CaptureCIDurationRow DEF Next

(* The runs of an actor whose cost is known. *)
Mine(a) == {r \in Runs : costs[r] # NULL /\ runs[r].actor = a}

LEMMA CardinalityOfParts ==
  ASSUME NEW E, IsFiniteSet(E), NEW L, IsFiniteSet(L), E \cap L = {}
  PROVE  Cardinality(E \cup L) = Cardinality(E) + Cardinality(L)
<1>1. Cardinality(E \cup L) = Cardinality(E) + Cardinality(L) - Cardinality(E \cap L)
  BY FS_Union
<1>2. Cardinality(E \cap L) = 0
  BY FS_EmptySet
<1>3. Cardinality(E) \in Nat /\ Cardinality(L) \in Nat
  BY FS_CardinalityType
<1> QED BY <1>1, <1>2, <1>3

(* Of the runs in S, those captured before mid and those captured from then on. *)
Early(S, mid) == {r \in S : costs[r].capturedAt >= 0 /\ costs[r].capturedAt < mid}
Late(S, mid) == {r \in S : costs[r].capturedAt >= mid /\ costs[r].capturedAt < MaxTime + 1}

LEMMA RollupParts ==
  ASSUME RowsInv, NEW mid \in 0..MaxTime, NEW S, S \subseteq {r \in Runs : costs[r] # NULL}
  PROVE  /\ IsFiniteSet(S) /\ IsFiniteSet(Early(S, mid)) /\ IsFiniteSet(Late(S, mid))
         /\ Early(S, mid) \cap Late(S, mid) = {} /\ Early(S, mid) \cup Late(S, mid) = S
<1>1. S \in SUBSET Runs /\ Early(S, mid) \in SUBSET Runs /\ Late(S, mid) \in SUBSET Runs
  BY DEF Early, Late
<1>2. IsFiniteSet(S) /\ IsFiniteSet(Early(S, mid)) /\ IsFiniteSet(Late(S, mid))
  BY <1>1, CatalogAssumption, FS_Subset
<1>3. \A r \in S : costs[r].capturedAt \in 0..MaxTime
  BY DEF RowsInv, RowOf
<1> QED BY <1>2, <1>3, CatalogAssumption DEF Early, Late

(* What is summed over runs is summed over their rows. *)
LEMMA RowsOfRuns ==
  ASSUME NEW S, IsFiniteSet(S)
  PROVE  /\ Cardinality({<<costs[r], r>> : r \in S}) = Cardinality(S)
         /\ (\A r \in S : costs[r].duration \in Int) =>
              SumFunction([c \in {<<costs[r], r>> : r \in S} |-> c[1].duration]) =
              SumFunction([r \in S |-> costs[r].duration])
         /\ (\A r \in S : costs[r].amount \in Int) =>
              SumFunction([c \in {<<costs[r], r>> : r \in S} |-> c[1].amount]) =
              SumFunction([r \in S |-> costs[r].amount])
<1> DEFINE k == [r \in S |-> <<costs[r], r>>]
           T == {<<costs[r], r>> : r \in S}
<1>1. DOMAIN k = S /\ T = {k[r] : r \in S} /\ \A r, q \in S : k[r] = k[q] => r = q
  OBVIOUS
<1>2. Cardinality(T) = Cardinality(S)
  <2> HIDE DEF k, T
  <2> QED BY <1>1, FS_Renamed
<1>3. ASSUME \A r \in S : costs[r].duration \in Int
      PROVE  SumFunction([c \in T |-> c[1].duration]) = SumFunction([r \in S |-> costs[r].duration])
  <2> DEFINE f == [r \in S |-> costs[r].duration]
             g == [c \in T |-> c[1].duration]
  <2>1. DOMAIN f = S /\ DOMAIN g = {k[r] : r \in S}
    BY <1>1
  <2>2. \A r \in S : f[r] \in Int /\ g[k[r]] = f[r]
    BY <1>3
  <2>3. SumFunction(g) = SumFunction(f)
    <3> HIDE DEF f, g, k
    <3> QED BY <1>1, <2>1, <2>2, SumRenamed
  <2> QED BY <2>3
<1>4. ASSUME \A r \in S : costs[r].amount \in Int
      PROVE  SumFunction([c \in T |-> c[1].amount]) = SumFunction([r \in S |-> costs[r].amount])
  <2> DEFINE f == [r \in S |-> costs[r].amount]
             g == [c \in T |-> c[1].amount]
  <2>1. DOMAIN f = S /\ DOMAIN g = {k[r] : r \in S}
    BY <1>1
  <2>2. \A r \in S : f[r] \in Int /\ g[k[r]] = f[r]
    BY <1>4
  <2>3. SumFunction(g) = SumFunction(f)
    <3> HIDE DEF f, g, k
    <3> QED BY <1>1, <2>1, <2>2, SumRenamed
  <2> QED BY <2>3
<1> QED BY <1>2, <1>3, <1>4

LEMMA RollupOfActor ==
  ASSUME RowsInv, NEW a \in Actors, NEW mid \in 0..MaxTime
  PROVE  LET rows == UNION {GetCostsForRun(r) \X {r} : r \in {r \in Runs : runs[r].actor = a}}
             before == SumCostByActor(a, 0, mid)
             after == SumCostByActor(a, mid, MaxTime + 1)
             priced == {c \in rows : c[1].amount # NULL}
         IN /\ before.count + after.count = Cardinality(rows)
            /\ before.duration + after.duration = SumFunction([c \in rows |-> c[1].duration])
            /\ before.amount + after.amount = SumFunction([c \in priced |-> c[1].amount])
            /\ before.hasAmount \/ after.hasAmount <=> priced # {}
<1> DEFINE rows == UNION {GetCostsForRun(r) \X {r} : r \in {r \in Runs : runs[r].actor = a}}
           priced == {c \in rows : c[1].amount # NULL}
           S == Mine(a)
           P == {r \in S : costs[r].amount # NULL}
           E == Early(S, mid)
           L == Late(S, mid)
           PE == {r \in E : costs[r].amount # NULL}
           PL == {r \in L : costs[r].amount # NULL}
<1>1. rows = {<<costs[r], r>> : r \in S} /\ priced = {<<costs[r], r>> : r \in P}
  BY DEF GetCostsForRun, Mine
<1>2. /\ \A r \in S : costs[r].duration \in Int
      /\ \A r \in P : costs[r].amount \in Int
  BY DEF RowsInv, RowOf, Mine
<1>3. /\ IsFiniteSet(S) /\ IsFiniteSet(E) /\ IsFiniteSet(L)
      /\ E \cap L = {} /\ E \cup L = S
  <2>1. S \subseteq {r \in Runs : costs[r] # NULL}
    BY DEF Mine
  <2> HIDE DEF S
  <2> QED BY <2>1, RollupParts
<1>4. /\ IsFiniteSet(P) /\ IsFiniteSet(PE) /\ IsFiniteSet(PL)
      /\ PE \cap PL = {} /\ PE \cup PL = P
  <2> HIDE DEF S, E, L
  <2>1. P \in SUBSET S /\ PE \in SUBSET S /\ PL \in SUBSET S
    BY <1>3
  <2>2. IsFiniteSet(P) /\ IsFiniteSet(PE) /\ IsFiniteSet(PL)
    BY <1>3, <2>1, FS_Subset
  <2> QED BY <1>3, <2>2
<1>5. SumCostByActor(a, 0, mid) =
        [amount |-> SumFunction([r \in PE |-> costs[r].amount]), hasAmount |-> PE # {},
         duration |-> SumFunction([r \in E |-> costs[r].duration]), count |-> Cardinality(E)]
  <2>1. E = {r \in Runs : /\ costs[r] # NULL /\ runs[r].actor = a
                          /\ costs[r].capturedAt >= 0 /\ costs[r].capturedAt < mid}
    BY DEF Mine, Early
  <2> HIDE DEF E
  <2> QED BY <2>1 DEF SumCostByActor
<1>6. SumCostByActor(a, mid, MaxTime + 1) =
        [amount |-> SumFunction([r \in PL |-> costs[r].amount]), hasAmount |-> PL # {},
         duration |-> SumFunction([r \in L |-> costs[r].duration]), count |-> Cardinality(L)]
  <2>1. L = {r \in Runs : /\ costs[r] # NULL /\ runs[r].actor = a
                          /\ costs[r].capturedAt >= mid /\ costs[r].capturedAt < MaxTime + 1}
    BY DEF Mine, Late
  <2> HIDE DEF L
  <2> QED BY <2>1 DEF SumCostByActor
<1>7. SumFunction([r \in E |-> costs[r].duration]) + SumFunction([r \in L |-> costs[r].duration]) =
      SumFunction([c \in rows |-> c[1].duration])
  <2> DEFINE f == [r \in S |-> costs[r].duration]
             g == [r \in E |-> costs[r].duration]
             h == [r \in L |-> costs[r].duration]
  <2> HIDE DEF S, E, L
  <2>1. /\ DOMAIN f = E \cup L /\ DOMAIN g = E /\ DOMAIN h = L
        /\ \A r \in E \cup L : f[r] \in Int
        /\ (\A r \in E : g[r] = f[r]) /\ (\A r \in L : h[r] = f[r])
    BY <1>2, <1>3
  <2>2. SumFunction(g) + SumFunction(h) = SumFunction(f)
    <3> HIDE DEF f, g, h
    <3> QED BY <1>3, <2>1, SumOfSplit
  <2>3. SumFunction([c \in rows |-> c[1].duration]) = SumFunction(f)
    BY <1>1, <1>2, <1>3, RowsOfRuns
  <2> QED BY <2>2, <2>3
<1>8. SumFunction([r \in PE |-> costs[r].amount]) + SumFunction([r \in PL |-> costs[r].amount]) =
      SumFunction([c \in priced |-> c[1].amount])
  <2> DEFINE f == [r \in P |-> costs[r].amount]
             g == [r \in PE |-> costs[r].amount]
             h == [r \in PL |-> costs[r].amount]
  <2> HIDE DEF P, PE, PL
  <2>1. /\ DOMAIN f = PE \cup PL /\ DOMAIN g = PE /\ DOMAIN h = PL
        /\ \A r \in PE \cup PL : f[r] \in Int
        /\ (\A r \in PE : g[r] = f[r]) /\ (\A r \in PL : h[r] = f[r])
    BY <1>2, <1>4
  <2>2. SumFunction(g) + SumFunction(h) = SumFunction(f)
    <3> HIDE DEF f, g, h
    <3> QED BY <1>4, <2>1, SumOfSplit
  <2>3. SumFunction([c \in priced |-> c[1].amount]) = SumFunction(f)
    BY <1>1, <1>2, <1>4, RowsOfRuns
  <2> QED BY <2>2, <2>3
<1>9. Cardinality(E) + Cardinality(L) = Cardinality(rows)
  <2> HIDE DEF S, E, L
  <2>1. Cardinality(rows) = Cardinality(S)
    BY <1>1, <1>3, RowsOfRuns
  <2>2. Cardinality(E \cup L) = Cardinality(E) + Cardinality(L)
    BY <1>3, CardinalityOfParts
  <2> QED BY <1>3, <2>1, <2>2
<1>10. PE # {} \/ PL # {} <=> priced # {}
  <2> HIDE DEF priced, P, PE, PL
  <2>1. P # {} <=> priced # {}
    BY <1>1
  <2>2. PE # {} \/ PL # {} <=> P # {}
    BY <1>4
  <2> QED BY <2>1, <2>2
<1> HIDE DEF rows, priced, E, L, PE, PL
<1> DEFINE before == SumCostByActor(a, 0, mid)
           after == SumCostByActor(a, mid, MaxTime + 1)
<1>11. before.count + after.count = Cardinality(rows)
  BY <1>5, <1>6, <1>9
<1>12. before.duration + after.duration = SumFunction([c \in rows |-> c[1].duration])
  BY <1>5, <1>6, <1>7
<1>13. before.amount + after.amount = SumFunction([c \in priced |-> c[1].amount])
  BY <1>5, <1>6, <1>8
<1>14. before.hasAmount \/ after.hasAmount <=> priced # {}
  <2>1. before.hasAmount = (PE # {})
    BY <1>5
  <2>2. after.hasAmount = (PL # {})
    BY <1>6
  <2> HIDE DEF before, after
  <2> QED BY <1>10, <2>1, <2>2
<1> QED BY <1>11, <1>12, <1>13, <1>14 DEF rows, priced

(* The rollup adds up to the rows of the runs, for any number of runs and any *)
(* split of the time (sumCostByActor).                                        *)
THEOREM RollupAddsUp == Spec => []RollupAgrees
<1>1. Spec => [](CostInv /\ RowsInv)
  BY InitCostInv, NextCostInv, InitRowsInv, NextRowsInv, PTL DEF Spec
<1>2. RowsInv => RollupAgrees
  BY RollupOfActor DEF RollupAgrees
<1> QED BY <1>1, <1>2, PTL
===============================================================================
