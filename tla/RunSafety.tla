------------------------------ MODULE RunSafety -------------------------------
(***************************************************************************)
(* The properties of RunEngine, the inductive invariant behind them, and   *)
(* the refinement mapping to RunLifecycle.                                 *)
(***************************************************************************)
EXTENDS RunEngine

Dispatched == {"queued", "executing"} \cup Terminal

-------------------------------------------------------------------------------
(* The status of a run agrees with its approval for ever: a run of the      *)
(* human-in-the-loop tier is queued, executing or finished only if its      *)
(* approval says approved, denied only if it says denied, and the approver  *)
(* is not the requester and not of the read-only tier.  Two concurrent      *)
(* decisions, or a decision racing the request handler, cannot part them    *)
(* (Store.Decide, createRunWithApproval, handlePostRunDecision).            *)
ApprovalGate ==
  \A r \in Runs :
    /\ runs[r].tier = TierHumanInTheLoop /\ runs[r].status \in Dispatched =>
         approvals[r].decision = "approved"
    /\ runs[r].status = "denied" => approvals[r].decision = "denied"
    /\ approvals[r].decision \in {"approved", "denied"} =>
         \E a \in Actors : /\ approvals[r].approver = a
                           /\ a # runs[r].actor
                           /\ ActorTier[a] # TierReadOnly

(* A role ARN is revealed only for a run whose tier policy allows to run    *)
(* unattended, after the mint was audited, to a worker granted the run's    *)
(* environment, for a CI run with the claims of the run's pipeline, however *)
(* the run moved since it was found (handlePostWorkerRunResolve).           *)
MintGate ==
  \A c \in CIRuns, w \in Workers, r \in Runs :
    <<c, w, r>> \in revealed =>
      /\ runs[r].status \in {"executing"} \cup Terminal
      /\ Allowed(runs[r])
      /\ <<"credential.minted", r>> \in audit
      /\ runs[r].env \in Grants[w]
      /\ Target[runs[r].pipeline] = CITarget[c]

(* While a run executes, and after it succeeded, the only CI run that may   *)
(* hold its credentials is the one recorded in ci_external_ref; a run       *)
(* succeeds only through a CI run relayed by the worker that claimed it     *)
(* (ResolveRunExternalRef, ReportRunResult).                                *)
SoleHolder ==
  \A r \in Runs :
    /\ runs[r].status \in {"executing", "succeeded"} =>
         \A c \in CIRuns, w \in Workers :
           <<c, w, r>> \in revealed => runs[r].extRef = c
    /\ runs[r].status = "succeeded" =>
         <<runs[r].extRef, runs[r].claimedBy, r>> \in revealed

(* A job that River has put aside never leaves its run behind: a completed  *)
(* job's run has left queued, and a run is left queued without a live job   *)
(* only after all of runJobMaxAttempts attempts (Worker.Work).              *)
NoSilentLoss ==
  \A r \in Runs :
    /\ jobs[r].state # "none" => runs[r].status \in Dispatched
    /\ jobs[r].state = "completed" => runs[r].status # "queued"
    /\ jobs[r].state = "discarded" => jobs[r].attempt = MaxAttempts

(* started_at and finished_at follow the status on every path, so the       *)
(* duration of a reported run can be computed (handlePostWorkerRunResult    *)
(* dereferences both), and only a run that a worker finished has a cost.    *)
ClockAndCost ==
  \A r \in Runs :
    /\ runs[r].startedAt = "set" <=> runs[r].status \in {"executing"} \cup Terminal
    /\ runs[r].finishedAt = "set" <=> runs[r].status \in Terminal
    /\ r \in costs => runs[r].status \in Terminal /\ runs[r].claimedBy # NULL

(* A final status is final, with its claimant and timestamps: neither a     *)
(* late report, nor failClosed of the River job, nor a second decision      *)
(* changes the outcome of a run (UpdateRunStatus, ReportRunResult).         *)
OutcomeFinal ==
  [][\A r \in Runs :
       runs[r].status \in Terminal \cup {"denied"} =>
         runs'[r] = [runs[r] EXCEPT !.extRef = runs'[r].extRef]]_vars

(* A request that nothing interrupts ends up executing, or denied by its    *)
(* approver: once a run is admitted and needs no decision any more, the     *)
(* handlers queue and enqueue it and River starts it (Store.Request,        *)
(* Store.Decide, Queue.Enqueue).                                            *)
UninterruptedRunStarts ==
  \A r \in Runs :
    runs[r].status # "absent" /\ approvals[r].decision # "pending"
      ~> runs[r].status \in {"denied", "executing"} \cup Terminal \/ faults > 0

(* A run with a live River job leaves queued, unless as many attempts fail  *)
(* as River makes (Worker.Work, runJobMaxAttempts).                         *)
EventuallyDispatched ==
  \A r \in Runs :
    jobs[r].state \in {"available", "running"} ~>
      runs[r].status # "queued" \/ faults >= MaxAttempts

-------------------------------------------------------------------------------
(* The inductive invariant.                                                 *)

Begun == {"executing"} \cup Terminal

(* What a row, or its absence, implies about everything keyed by the run. *)
RowsInv ==
  \A r \in Runs :
    /\ runs[r].status = "absent" =>
         /\ runs[r].claimedBy = NULL
         /\ approvals[r].decision = "absent"
         /\ jobs[r].state = "none"
         /\ req[r] = "idle" /\ dec[r] = "idle" /\ work[r] = "idle"
    /\ runs[r].status # "absent" =>
         /\ runs[r].actor \in Actors
         /\ runs[r].tier = ActorTier[runs[r].actor]
         /\ runs[r].env \in Envs
         /\ runs[r].pipeline \in Pipelines
         /\ Check(runs[r].tier, Mutating[runs[r].pipeline]) # "deny"

(* An approval exists for exactly the human-in-the-loop runs, and the run  *)
(* waits for it, then follows it.                                          *)
ApprovalInv ==
  \A r \in Runs :
    /\ approvals[r].decision # "absent" <=> runs[r].tier = TierHumanInTheLoop
    /\ runs[r].status = "awaiting_approval" => approvals[r].decision # "absent"
    /\ runs[r].status = "policy_checked" => approvals[r].decision = "absent"
    /\ approvals[r].decision = "pending" => runs[r].status = "awaiting_approval"
    /\ approvals[r].decision = "denied" =>
         runs[r].status \in {"awaiting_approval", "denied"}

(* Where a handler stands tells what it has written, and that nobody else  *)
(* has moved the row: the WHERE clauses of its own UPDATEs match.          *)
Handlers ==
  \A r \in Runs :
    /\ req[r] = "queue" => runs[r].status = "policy_checked"
    /\ req[r] = "enqueue" => /\ runs[r].status = "queued"
                             /\ jobs[r].state = "none"
                             /\ approvals[r].decision = "absent"
    /\ dec[r] = "transition" =>
         /\ runs[r].status = "awaiting_approval"
         /\ approvals[r].decision \in {"approved", "denied"}
    /\ dec[r] = "enqueue" => /\ runs[r].status = "queued"
                             /\ jobs[r].state = "none"
                             /\ approvals[r].decision = "approved"
    /\ dec[r] # "idle" => approvals[r].decision \in {"approved", "denied"}

(* River's job and Work in step with each other and with the run. *)
JobInv ==
  \A r \in Runs :
    /\ jobs[r].state = "none" =>
         runs[r].status \notin Begun /\ jobs[r].attempt = 0
    /\ jobs[r].state = "available" => jobs[r].attempt < MaxAttempts
    /\ jobs[r].state = "running" <=> work[r] # "idle"
    /\ work[r] \in {"load", "fail"} => runs[r].status \in Begun
    /\ runs[r].claimedBy # NULL => runs[r].status \in Begun

(* What a resolve handler remembers of its run still holds of it; past the *)
(* UPDATE, the reference is its own until a report replaces it.            *)
CallInv ==
  \A k \in Calls :
    calls[k].pc \in InCall =>
      /\ calls[k].ci \in CIRuns
      /\ calls[k].worker \in Workers
      /\ calls[k].run \in Runs
      /\ runs[calls[k].run].status \in Begun
      /\ runs[calls[k].run].env \in Grants[calls[k].worker]
      /\ Target[runs[calls[k].run].pipeline] = CITarget[calls[k].ci]
      /\ /\ calls[k].pc # "update"
         /\ runs[calls[k].run].status \in {"executing", "succeeded"}
         => runs[calls[k].run].extRef = calls[k].ci
      /\ calls[k].pc = "reply" =>
           /\ Allowed(runs[calls[k].run])
           /\ <<"credential.minted", calls[k].run>> \in audit

IInv ==
  /\ TypeOK /\ RowsInv /\ ApprovalInv /\ Handlers /\ JobInv /\ CallInv
  /\ ApprovalGate /\ MintGate /\ SoleHolder /\ NoSilentLoss /\ ClockAndCost

-------------------------------------------------------------------------------
(* Refinement: the columns of the two tables are the abstract run. *)
Lifecycle ==
  INSTANCE RunLifecycle WITH
    status <- [r \in Runs |-> runs[r].status],
    decision <- [r \in Runs |-> approvals[r].decision],
    claimant <- [r \in Runs |-> runs[r].claimedBy]

(* The handlers, the River job and the workers together implement the run   *)
(* model: every statement either leaves it alone or moves one run one step. *)
RefinesLifecycle == Lifecycle!LSpec

-------------------------------------------------------------------------------
(* What the documentation says of the run state machine and the code does   *)
(* not keep.                                                                *)

(* A run of a registered provider that was approved does not fail before a  *)
(* worker has claimed it: "a human approves each action before execution"   *)
(* (pkg/identity/types.go).                                                 *)
ApprovedRunsExecute ==
  \A r \in Runs :
    /\ approvals[r].decision = "approved"
    /\ runs[r].status = "failed"
    /\ runs[r].pipeline \in Registered
    => runs[r].claimedBy # NULL
===============================================================================
