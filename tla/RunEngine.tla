------------------------------ MODULE RunEngine -------------------------------
(***************************************************************************)
(* The control plane's run state machine: the HTTP handlers of             *)
(* controlplane/internal/api/runs.go, the Store of                         *)
(* controlplane/internal/execution/execution.go they call, and the River   *)
(* job of queue.go.  A handler is a process that performs one SQL          *)
(* statement per step; between two of its statements any other handler,    *)
(* on this or on another replica, may run its own.  A handler may also be  *)
(* cut short between two statements (a failed statement, a closed          *)
(* connection, a crash): what it had not yet done is not done.  A crash of *)
(* the whole process is the sequence of the interruptions of its handlers. *)
(*                                                                         *)
(* Remote workers and CI jobs are the environment.  A worker asks for runs,*)
(* reports results and relays the callbacks of CI jobs in any order;       *)
(* MayReport restricts its reports to those the worker's code makes.       *)
(***************************************************************************)
EXTENDS Policy, RunTable, FiniteSets

CONSTANTS
  Actors,        \* authenticated actors
  ActorTier,     \* the tier in an actor's verified claims
  Envs,          \* registered environments
  Pipelines,     \* registered pipelines; no statement updates a pipeline
  Mutating,      \* pipelines.mutating
  Registered,    \* the pipelines whose provider has an adapter
  Target,        \* provider, repository, workflow and ref of a pipeline
  Workers,       \* worker credentials
  Grants,        \* the environments granted to a worker credential
  CIRuns,        \* CI runs: external references
  CITarget,      \* the verified claims of a CI run's token
  Calls,         \* concurrent executions of handlePostWorkerRunResolve
  MaxRuns,       \* bound: run rows
  MaxFaults,     \* bound: interruptions of handlers
  MaxAttempts    \* runJobMaxAttempts

Runs == 1..MaxRuns

ASSUME SizesAssumption ==
  /\ MaxRuns \in Nat
  /\ MaxFaults \in Nat
  /\ MaxAttempts \in Nat \ {0}

ASSUME ConfigurationAssumption ==
  /\ ActorTier \in [Actors -> Tiers]
  /\ Mutating \in [Pipelines -> BOOLEAN]
  /\ Registered \subseteq Pipelines
  /\ Grants \in [Workers -> SUBSET Envs]

(* NULL is no identity, no tier and no timestamp. *)
ASSUME NullAssumption ==
  /\ NULL \notin Actors \cup Envs \cup Pipelines \cup Workers \cup CIRuns
  /\ NULL \notin Runs
  /\ NULL \notin Tiers
  /\ NULL # "set"

VARIABLES
  runs,       \* table runs
  approvals,  \* table approvals, keyed by run
  jobs,       \* River's job of each run
  req,        \* where the request handler that created a run stands
  dec,        \* where the decision handler that won a run's approval stands
  work,       \* where Worker.Work on a run's job stands
  calls,      \* executions of the resolve handler
  audit,      \* table audit_events: <<action, run>>
  revealed,   \* role ARNs answered: <<CI run, worker, run>>
  costs,      \* table run_costs: the runs whose CI duration is recorded
  faults      \* interruptions so far

vars == <<runs, approvals, jobs, req, dec, work, calls, audit, revealed,
          costs, faults>>

-------------------------------------------------------------------------------
JobStates == {"none", "available", "running", "completed", "discarded"}
ReqSteps == {"idle", "queue", "enqueue", "audit"}
DecSteps == {"idle", "transition", "enqueue", "audit"}
WorkSteps == {"idle", "claim", "load", "fail"}
InCall == {"update", "gate", "reply"}
Answers == {"idle", "granted", "not_found", "conflict", "denied", "internal"}

RunRow ==
  [status : Status, actor : Actors \cup {NULL}, tier : Tiers \cup {NULL},
   env : Envs \cup {NULL}, pipeline : Pipelines \cup {NULL},
   claimedBy : Workers \cup {NULL}, extRef : CIRuns \cup {NULL},
   startedAt : Timestamps, finishedAt : Timestamps]

ApprovalRow == [decision : ApprovalDecisions, approver : Actors \cup {NULL}]

JobRow == [state : JobStates, attempt : 0..MaxAttempts]

CallState ==
  [pc : InCall \cup Answers, ci : CIRuns \cup {NULL},
   worker : Workers \cup {NULL}, run : Runs \cup {NULL}]

(* A call that is not running, with the answer its last execution gave. *)
Ended(answer) == [pc |-> answer, ci |-> NULL, worker |-> NULL, run |-> NULL]

AuditActions == {"run.requested", "approval.decided", "credential.minted"}

(* Type invariant: every table, River job and handler position stays in    *)
(* its column types and steps.                                             *)
TypeOK ==
  /\ runs \in [Runs -> RunRow]
  /\ approvals \in [Runs -> ApprovalRow]
  /\ jobs \in [Runs -> JobRow]
  /\ req \in [Runs -> ReqSteps]
  /\ dec \in [Runs -> DecSteps]
  /\ work \in [Runs -> WorkSteps]
  /\ calls \in [Calls -> CallState]
  /\ audit \subseteq AuditActions \X Runs
  /\ revealed \subseteq CIRuns \X Workers \X Runs
  /\ costs \subseteq Runs
  /\ faults \in 0..MaxFaults

Init ==
  /\ runs = [r \in Runs |-> NoRow]
  /\ approvals = [r \in Runs |-> NoApproval]
  /\ jobs = [r \in Runs |-> [state |-> "none", attempt |-> 0]]
  /\ req = [r \in Runs |-> "idle"]
  /\ dec = [r \in Runs |-> "idle"]
  /\ work = [r \in Runs |-> "idle"]
  /\ calls = [k \in Calls |-> Ended("idle")]
  /\ audit = {}
  /\ revealed = {}
  /\ costs = {}
  /\ faults = 0

(* Whether policy lets the run's own tier execute its pipeline unattended. *)
Allowed(row) == Check(row.tier, Mutating[row.pipeline]) = "allow"

(* Queue.Enqueue: river.Insert of a job of at most MaxAttempts attempts. *)
Enqueue(r) == jobs' = [jobs EXCEPT ![r].state = "available"]

Interrupt == faults < MaxFaults /\ faults' = faults + 1

-------------------------------------------------------------------------------
(* handlePostRuns and Store.Request.                                        *)

(* The next row of the runs table is r. *)
NextId(r) ==
  /\ runs[r].status = "absent"
  /\ \A q \in Runs : q < r => runs[q].status # "absent"

(* Policy allows: the row is inserted as policy_checked.  A denied request  *)
(* changes nothing.                                                         *)
RequestAllowed(r, a, e, p) ==
  /\ NextId(r)
  /\ Check(ActorTier[a], Mutating[p]) = "allow"
  /\ runs' = [runs EXCEPT
       ![r] = CreateRun(a, ActorTier[a], e, p, "policy_checked")]
  /\ req' = [req EXCEPT ![r] = "queue"]
  /\ UNCHANGED <<approvals, jobs, dec, work, calls, audit, revealed, costs,
                 faults>>

(* createRunWithApproval: the run and its approval in one transaction. *)
RequestForApproval(r, a, e, p) ==
  /\ NextId(r)
  /\ Check(ActorTier[a], Mutating[p]) = "requires_approval"
  /\ runs' = [runs EXCEPT
       ![r] = CreateRun(a, ActorTier[a], e, p, "awaiting_approval")]
  /\ approvals' = [approvals EXCEPT ![r] = CreateApproval]
  /\ req' = [req EXCEPT ![r] = "audit"]
  /\ UNCHANGED <<jobs, dec, work, calls, audit, revealed, costs, faults>>

(* Nothing but this handler writes a policy_checked row, so the WHERE clause *)
(* of its UPDATE matches (Handlers, in RunSafety).                           *)
RequestQueue(r) ==
  /\ req[r] = "queue"
  /\ UpdateRunStatusWhere(runs[r], "policy_checked")
  /\ runs' = [runs EXCEPT ![r] = UpdateRunStatusSet(@, "queued")]
  /\ req' = [req EXCEPT ![r] = "enqueue"]
  /\ UNCHANGED <<approvals, jobs, dec, work, calls, audit, revealed, costs,
                 faults>>

RequestEnqueue(r) ==
  /\ req[r] = "enqueue"
  /\ Enqueue(r)
  /\ req' = [req EXCEPT ![r] = "audit"]
  /\ UNCHANGED <<runs, approvals, dec, work, calls, audit, revealed, costs,
                 faults>>

RequestAudit(r) ==
  /\ req[r] = "audit"
  /\ audit' = audit \cup {<<"run.requested", r>>}
  /\ req' = [req EXCEPT ![r] = "idle"]
  /\ UNCHANGED <<runs, approvals, jobs, dec, work, calls, revealed, costs,
                 faults>>

RequestInterrupted(r) ==
  /\ req[r] # "idle"
  /\ Interrupt
  /\ req' = [req EXCEPT ![r] = "idle"]
  /\ UNCHANGED <<runs, approvals, jobs, dec, work, calls, audit, revealed,
                 costs>>

-------------------------------------------------------------------------------
(* handlePostRunDecision and Store.Decide.                                  *)

(* The tier and separation-of-duties checks read columns nothing updates,   *)
(* so they belong to the step of the guarded UPDATE.  A caller that loses   *)
(* the UPDATE is answered 409 and changes nothing.                          *)
DecideApproval(r, a, decision) ==
  /\ ActorTier[a] # TierReadOnly
  /\ runs[r].status # "absent"
  /\ runs[r].actor # a
  /\ DecideApprovalWhere(approvals[r])
  /\ approvals' = [approvals EXCEPT ![r] = DecideApprovalSet(decision, a)]
  /\ dec' = [dec EXCEPT ![r] = "transition"]
  /\ UNCHANGED <<runs, jobs, req, work, calls, audit, revealed, costs, faults>>

(* Mutant of DecideTransition: the decision is not looked at. *)
TransitionAlways(r) ==
  /\ dec[r] = "transition"
  /\ UpdateRunStatusWhere(runs[r], "awaiting_approval")
  /\ runs' = [runs EXCEPT ![r] = UpdateRunStatusSet(@, "queued")]
  /\ dec' = [dec EXCEPT ![r] = "enqueue"]
  /\ UNCHANGED <<approvals, jobs, req, work, calls, audit, revealed, costs,
                 faults>>

(* Likewise, only the winner of the approval moves an awaiting_approval row. *)
DecideTransition(r) ==
  /\ dec[r] = "transition"
  /\ UpdateRunStatusWhere(runs[r], "awaiting_approval")
  /\ \/ /\ approvals[r].decision = "approved"
        /\ runs' = [runs EXCEPT ![r] = UpdateRunStatusSet(@, "queued")]
        /\ dec' = [dec EXCEPT ![r] = "enqueue"]
     \/ /\ approvals[r].decision = "denied"
        /\ runs' = [runs EXCEPT ![r] = UpdateRunStatusSet(@, "denied")]
        /\ dec' = [dec EXCEPT ![r] = "audit"]
  /\ UNCHANGED <<approvals, jobs, req, work, calls, audit, revealed, costs,
                 faults>>

(* Mutant of DecideEnqueue: an approved run is queued and not enqueued. *)
DecideNotEnqueued(r) ==
  /\ dec[r] = "enqueue"
  /\ dec' = [dec EXCEPT ![r] = "audit"]
  /\ UNCHANGED <<runs, approvals, jobs, req, work, calls, audit, revealed,
                 costs, faults>>

DecideEnqueue(r) ==
  /\ dec[r] = "enqueue"
  /\ Enqueue(r)
  /\ dec' = [dec EXCEPT ![r] = "audit"]
  /\ UNCHANGED <<runs, approvals, req, work, calls, audit, revealed, costs,
                 faults>>

DecideAudit(r) ==
  /\ dec[r] = "audit"
  /\ audit' = audit \cup {<<"approval.decided", r>>}
  /\ dec' = [dec EXCEPT ![r] = "idle"]
  /\ UNCHANGED <<runs, approvals, jobs, req, work, calls, revealed, costs,
                 faults>>

DecideInterrupted(r) ==
  /\ dec[r] # "idle"
  /\ Interrupt
  /\ dec' = [dec EXCEPT ![r] = "idle"]
  /\ UNCHANGED <<runs, approvals, jobs, req, work, calls, audit, revealed,
                 costs>>

-------------------------------------------------------------------------------
(* River and Worker.Work.                                                   *)

(* River hands the job to Work, counting the attempt. *)
RiverFetch(r) ==
  /\ jobs[r].state = "available"
  /\ jobs' = [jobs EXCEPT ![r].state = "running", ![r].attempt = @ + 1]
  /\ work' = [work EXCEPT ![r] = "claim"]
  /\ UNCHANGED <<runs, approvals, req, dec, calls, audit, revealed, costs,
                 faults>>

(* Work returned nil. *)
JobDone(r) ==
  /\ jobs' = [jobs EXCEPT ![r].state = "completed"]
  /\ work' = [work EXCEPT ![r] = "idle"]

(* queued -> executing; no row means the job was delivered before. *)
WorkClaim(r) ==
  /\ work[r] = "claim"
  /\ \/ /\ UpdateRunStatusWhere(runs[r], "queued")
        /\ runs' = [runs EXCEPT ![r] = UpdateRunStatusSet(@, "executing")]
        /\ work' = [work EXCEPT ![r] = "load"]
        /\ UNCHANGED jobs
     \/ /\ ~UpdateRunStatusWhere(runs[r], "queued")
        /\ JobDone(r)
        /\ UNCHANGED runs
  /\ UNCHANGED <<approvals, req, dec, calls, audit, revealed, costs, faults>>

(* The pipeline is loaded, policy re-checked and the adapter looked up. *)
WorkLoad(r) ==
  /\ work[r] = "load"
  /\ \/ /\ Allowed(runs[r]) /\ runs[r].pipeline \in Registered
        /\ JobDone(r)
     \/ /\ ~Allowed(runs[r]) \/ runs[r].pipeline \notin Registered
        /\ work' = [work EXCEPT ![r] = "fail"]
        /\ UNCHANGED jobs
  /\ UNCHANGED <<runs, approvals, req, dec, calls, audit, revealed, costs,
                 faults>>

(* failClosed: executing -> failed, and no row is not an error. *)
WorkFailClosed(r) ==
  /\ work[r] = "fail"
  /\ \/ /\ UpdateRunStatusWhere(runs[r], "executing")
        /\ runs' = [runs EXCEPT ![r] = UpdateRunStatusSet(@, "failed")]
     \/ /\ ~UpdateRunStatusWhere(runs[r], "executing")
        /\ UNCHANGED runs
  /\ JobDone(r)
  /\ UNCHANGED <<approvals, req, dec, calls, audit, revealed, costs, faults>>

(* Mutant of WorkInterrupted: one attempt too few is granted. *)
WorkNotRetried(r) ==
  /\ work[r] # "idle"
  /\ Interrupt
  /\ jobs' = [jobs EXCEPT
       ![r].state = IF jobs[r].attempt < MaxAttempts - 1
                    THEN "available" ELSE "discarded"]
  /\ work' = [work EXCEPT ![r] = "idle"]
  /\ UNCHANGED <<runs, approvals, req, dec, calls, audit, revealed, costs>>

(* Mutant of WorkInterrupted: the last attempt is retried as well. *)
WorkRetriedAgain(r) ==
  /\ work[r] # "idle"
  /\ Interrupt
  /\ jobs' = [jobs EXCEPT
       ![r].state = IF jobs[r].attempt <= MaxAttempts
                    THEN "available" ELSE "discarded"]
  /\ work' = [work EXCEPT ![r] = "idle"]
  /\ UNCHANGED <<runs, approvals, req, dec, calls, audit, revealed, costs>>

(* Work returned an error, ran into runJobTimeout, or died and was rescued: *)
(* River retries until the attempts are used up.                            *)
WorkInterrupted(r) ==
  /\ work[r] # "idle"
  /\ Interrupt
  /\ jobs' = [jobs EXCEPT
       ![r].state = IF jobs[r].attempt < MaxAttempts
                    THEN "available" ELSE "discarded"]
  /\ work' = [work EXCEPT ![r] = "idle"]
  /\ UNCHANGED <<runs, approvals, req, dec, calls, audit, revealed, costs>>

-------------------------------------------------------------------------------
(* The worker-facing handlers.                                              *)

(* handleGetNextWorkerRun and Store.Claim; whether the answer arrives does  *)
(* not matter to the row, which stays claimed.                              *)
NextRun(w) ==
  /\ \E locked \in SUBSET Runs :
       \E r \in ClaimNextExecutingRun(runs, Grants[w], locked) :
          runs' = [runs EXCEPT ![r] = ClaimSet(@, w)]
  /\ UNCHANGED <<approvals, jobs, req, dec, work, calls, audit, revealed,
                 costs, faults>>

(* The reports a worker makes: failRunDispatch after a failed dispatch, and *)
(* pollUntilTerminal for a CI run whose callback it relayed, with the CI    *)
(* run's final status, or timed_out and no reference.                       *)
MayReport(w, r, status, ref) ==
  \/ status = "failed" /\ ref = NULL
  \/ status \in Terminal /\ <<ref, w, r>> \in revealed
  \/ /\ status = "timed_out" /\ ref = NULL
     /\ \E c \in CIRuns : <<c, w, r>> \in revealed

(* handlePostWorkerRunResult: the result and, best effort, the cost of a    *)
(* run that has started.  The cost row is read by no handler of this        *)
(* module, so its INSERT is not a step of its own.                          *)
ReportResult(w, r, status, ref) ==
  /\ MayReport(w, r, status, ref)
  /\ ReportRunResultWhere(runs[r], w)
  /\ runs' = [runs EXCEPT ![r] = ReportRunResultSet(@, status, ref)]
  /\ \/ /\ costs' = IF runs[r].startedAt # NULL THEN costs \cup {r} ELSE costs
        /\ UNCHANGED faults
     \/ /\ Interrupt
        /\ UNCHANGED costs
  /\ UNCHANGED <<approvals, jobs, req, dec, work, calls, audit, revealed>>

-------------------------------------------------------------------------------
(* handlePostWorkerRunResolve: a worker relays the callback of a CI run.    *)

Candidates(w, c) ==
  FindUnresolvedExecutingRuns(runs, Grants[w], Target, CITarget[c])

(* ResolveExternalRef's search: exactly one match, or no step further. *)
ResolveFind(k, w, c) ==
  /\ calls[k].pc \in Answers
  /\ LET found == Candidates(w, c) IN
     \/ \E r \in found :
          /\ found = {r}
          /\ calls' = [calls EXCEPT
               ![k] = [pc |-> "update", ci |-> c, worker |-> w, run |-> r]]
     \/ /\ found = {}
        /\ calls' = [calls EXCEPT ![k] = Ended("not_found")]
     \/ /\ \E r, q \in found : r # q
        /\ calls' = [calls EXCEPT ![k] = Ended("conflict")]
  /\ UNCHANGED <<runs, approvals, jobs, req, dec, work, audit, revealed, costs,
                 faults>>

(* ResolveRunExternalRef on the run found before. *)
ResolveUpdate(k) ==
  /\ calls[k].pc = "update"
  /\ LET r == calls[k].run IN
     \/ /\ ResolveRunExternalRefWhere(runs[r])
        /\ runs' = [runs EXCEPT
             ![r] = ResolveRunExternalRefSet(@, calls[k].ci)]
        /\ calls' = [calls EXCEPT ![k].pc = "gate"]
     \/ /\ ~ResolveRunExternalRefWhere(runs[r])
        /\ calls' = [calls EXCEPT ![k] = Ended("not_found")]
        /\ UNCHANGED runs
  /\ UNCHANGED <<approvals, jobs, req, dec, work, audit, revealed, costs,
                 faults>>

(* Policy no longer allows: the run is reported failed on behalf of the     *)
(* relaying worker, whose claim the report requires; otherwise 500.         *)
ResolveDeny(k) ==
  /\ calls[k].pc = "gate"
  /\ LET r == calls[k].run IN
     /\ ~Allowed(runs[r])
     /\ \/ /\ ReportRunResultWhere(runs[r], calls[k].worker)
           /\ runs' = [runs EXCEPT
                ![r] = ReportRunResultSet(@, "failed", calls[k].ci)]
           /\ calls' = [calls EXCEPT ![k] = Ended("denied")]
        \/ /\ ~ReportRunResultWhere(runs[r], calls[k].worker)
           /\ calls' = [calls EXCEPT ![k] = Ended("internal")]
           /\ UNCHANGED runs
  /\ UNCHANGED <<approvals, jobs, req, dec, work, audit, revealed, costs,
                 faults>>

(* Mutant of ResolveMint: the policy re-check is dropped. *)
MintUnchecked(k) ==
  /\ calls[k].pc = "gate"
  /\ audit' = audit \cup {<<"credential.minted", calls[k].run>>}
  /\ calls' = [calls EXCEPT ![k].pc = "reply"]
  /\ UNCHANGED <<runs, approvals, jobs, req, dec, work, revealed, costs,
                 faults>>

(* Policy allows: the mint is audited before the role is revealed. *)
ResolveMint(k) ==
  /\ calls[k].pc = "gate"
  /\ Allowed(runs[calls[k].run])
  /\ audit' = audit \cup {<<"credential.minted", calls[k].run>>}
  /\ calls' = [calls EXCEPT ![k].pc = "reply"]
  /\ UNCHANGED <<runs, approvals, jobs, req, dec, work, revealed, costs,
                 faults>>

ResolveReply(k) ==
  /\ calls[k].pc = "reply"
  /\ revealed' = revealed \cup {<<calls[k].ci, calls[k].worker, calls[k].run>>}
  /\ calls' = [calls EXCEPT ![k] = Ended("granted")]
  /\ UNCHANGED <<runs, approvals, jobs, req, dec, work, audit, costs, faults>>

ResolveInterrupted(k) ==
  /\ calls[k].pc \in InCall
  /\ Interrupt
  /\ calls' = [calls EXCEPT ![k] = Ended("internal")]
  /\ UNCHANGED <<runs, approvals, jobs, req, dec, work, audit, revealed, costs>>

-------------------------------------------------------------------------------
RequestStep(r) == RequestQueue(r) \/ RequestEnqueue(r) \/ RequestAudit(r)

DecideStep(r) == DecideTransition(r) \/ DecideEnqueue(r) \/ DecideAudit(r)

RiverStep(r) ==
  RiverFetch(r) \/ WorkClaim(r) \/ WorkLoad(r) \/ WorkFailClosed(r)

ResolveStep(k) ==
  ResolveUpdate(k) \/ ResolveDeny(k) \/ ResolveMint(k) \/ ResolveReply(k)

Next ==
  \/ \E r \in Runs :
       \/ \E a \in Actors, e \in Envs, p \in Pipelines :
            RequestAllowed(r, a, e, p) \/ RequestForApproval(r, a, e, p)
       \/ RequestStep(r)
       \/ RequestInterrupted(r)
       \/ \E a \in Actors, d \in {"approved", "denied"} :
            DecideApproval(r, a, d)
       \/ DecideStep(r)
       \/ DecideInterrupted(r)
       \/ RiverStep(r)
       \/ WorkInterrupted(r)
       \/ \E w \in Workers, s \in Terminal, c \in CIRuns \cup {NULL} :
            ReportResult(w, r, s, c)
  \/ \E w \in Workers : NextRun(w)
  \/ \E k \in Calls :
       \/ \E w \in Workers, c \in CIRuns : ResolveFind(k, w, c)
       \/ ResolveStep(k)
       \/ ResolveInterrupted(k)

Spec == Init /\ [][Next]_vars

(* A handler that has started keeps running, and River keeps fetching: what *)
(* Go's scheduler and River's client loop provide.  Nothing is assumed of   *)
(* actors, workers or CI jobs.                                              *)
Fairness ==
  /\ \A r \in Runs : /\ WF_vars(RequestStep(r))
                     /\ WF_vars(DecideStep(r))
                     /\ WF_vars(RiverStep(r))
  /\ \A k \in Calls : WF_vars(ResolveStep(k))

FairSpec == Spec /\ Fairness
===============================================================================
