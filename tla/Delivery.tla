------------------------------- MODULE Delivery -------------------------------
(***************************************************************************)
(* Delivery of executing runs: the run half of the worker's poll loop      *)
(* (worker/internal/poller), its CI callback handler and the detached      *)
(* status poll (worker/internal/ciauth), the GitHub Actions adapter and    *)
(* the GitHub side as the worker sees it.                                  *)
(*                                                                         *)
(* RunEngine leaves a run in the status executing and says what reports    *)
(* the control plane accepts; this module starts there and says which ones *)
(* the worker's goroutines make.  The statements of the control plane are  *)
(* those of RunTable.  A worker is a credential with one process; the      *)
(* process may die and takes its goroutines along, while rows and CI runs  *)
(* stay.                                                                   *)
(*                                                                         *)
(* Abstracted: time (pollTimeout may elapse at any moment of a poll), the  *)
(* policy gate of the resolve handler, which RunEngine models (policy      *)
(* still allows these runs), installation tokens and AWS credentials       *)
(* (obtained or not), URLs and raw statuses.                               *)
(***************************************************************************)
EXTENDS RunTable

CONSTANTS
  Runs,         \* numbered in the order of requested_at
  RunTarget,    \* repository, workflow and ref of a run's pipeline
  Workers,      \* worker credentials, all granted the environment of the runs
  AppWorkers,   \* the workers with a GitHub App
  CIRuns,       \* workflow runs on GitHub
  Pushed,       \* those that a push or a person starts, not the worker
  Conclusions,  \* the conclusions of workflow runs that are looked at
  Rerunnable,   \* bound: those that are run again, once
  MaxFaults     \* bound: failed or lost calls, and process deaths

ASSUME BoundsAssumption == Runs \subseteq Nat /\ MaxFaults \in Nat
ASSUME SubsetAssumption ==
  /\ AppWorkers \subseteq Workers
  /\ Pushed \subseteq CIRuns /\ Rerunnable \subseteq CIRuns
  /\ Conclusions \subseteq {"success", "failure", "cancelled", "timed_out", "skipped"}
ASSUME NoNullAssumption == NULL \notin Runs /\ NULL \notin Workers /\ NULL \notin CIRuns

VARIABLES
  runs,     \* table runs
  hand,     \* pollRuns of a worker
  ci,       \* workflow runs
  cb,       \* the callback handler serving a workflow run
  poll,     \* the detached status poll of a workflow run, for a run
  minted,   \* credentials minted: workflow run, worker, run
  faults

vars == <<runs, hand, ci, cb, poll, minted, faults>>

-------------------------------------------------------------------------------
Targets == {RunTarget[r] : r \in Runs}

RunRow ==
  [status : {"queued", "executing"} \cup Terminal, actor : {NULL}, tier : {NULL},
   env : {"env"}, pipeline : Runs, claimedBy : Workers \cup {NULL},
   extRef : CIRuns \cup {NULL}, startedAt : Timestamps, finishedAt : Timestamps]

Hand == [pc : {"idle", "token", "trigger", "report"}, run : Runs \cup {NULL}]

CIRun ==
  [state : {"none", "queued", "in_progress"} \cup Conclusions,
   target : Targets \cup {NULL}, for : Runs \cup {NULL},
   concluded : SUBSET Conclusions, rerun : BOOLEAN]

Callback ==
  [pc : {"none", "find", "update", "mint", "served", "refused"},
   worker : Workers \cup {NULL}, run : Runs \cup {NULL}]

RunResult == [status : Terminal \cup {NULL}, ref : CIRuns \cup {NULL}]

Poll == [pc : {"none", "polling", "report"}, worker : Workers \cup {NULL},
         result : RunResult]

Idle == [pc |-> "idle", run |-> NULL]
NoCIRun == [state |-> "none", target |-> NULL, for |-> NULL, concluded |-> {}, rerun |-> FALSE]
NoCallback == [pc |-> "none", worker |-> NULL, run |-> NULL]
NoResult == [status |-> NULL, ref |-> NULL]
NoPoll == [pc |-> "none", worker |-> NULL, result |-> NoResult]

(* Type invariant: the table, the goroutines and the workflow runs keep     *)
(* their types.                                                             *)
TypeOK ==
  /\ runs \in [Runs -> RunRow]
  /\ hand \in [Workers -> Hand]
  /\ ci \in [CIRuns -> CIRun]
  /\ cb \in [CIRuns -> Callback]
  /\ poll \in [CIRuns \X Runs -> Poll]
  /\ minted \subseteq CIRuns \X Workers \X Runs
  /\ faults \in 0..MaxFaults

Init ==
  /\ runs = [r \in Runs |-> CreateRun(NULL, NULL, "env", r, "queued")]
  /\ hand = [w \in Workers |-> Idle]
  /\ ci = [c \in CIRuns |-> NoCIRun]
  /\ cb = [c \in CIRuns |-> NoCallback]
  /\ poll = [p \in CIRuns \X Runs |-> NoPoll]
  /\ minted = {}
  /\ faults = 0

Fault == faults < MaxFaults /\ faults' = faults + 1

(* A call succeeds, or it fails or its answer is lost. *)
Outcome(good, bad) == (good /\ UNCHANGED faults) \/ (bad /\ Fault)

(* Worker.Work: from here on the run can be claimed. *)
HandOver(r) ==
  /\ UpdateRunStatusWhere(runs[r], "queued")
  /\ runs' = [runs EXCEPT ![r] = UpdateRunStatusSet(@, "executing")]
  /\ UNCHANGED <<hand, ci, cb, poll, minted, faults>>

-------------------------------------------------------------------------------
(* pollRuns.                                                                *)

(* NextRun claims; when the answer is lost or cannot be built, nobody has    *)
(* the run although it is claimed.                                           *)
NextRun(w) ==
  /\ hand[w].pc = "idle"
  /\ \E r \in ClaimNextExecutingRun(runs, {"env"}, {}) :
       /\ runs' = [runs EXCEPT ![r] = ClaimSet(@, w)]
       /\ Outcome(hand' = [hand EXCEPT ![w] = [pc |-> "token", run |-> r]],
                  UNCHANGED hand)
  /\ UNCHANGED <<ci, cb, poll, minted>>

(* InstallationToken, which a worker without a GitHub App cannot ask for. *)
InstallationToken(w) ==
  /\ hand[w].pc = "token"
  /\ \/ /\ w \in AppWorkers
        /\ Outcome(hand' = [hand EXCEPT ![w].pc = "trigger"],
                   hand' = [hand EXCEPT ![w].pc = "report"])
     \/ /\ w \notin AppWorkers
        /\ hand' = [hand EXCEPT ![w].pc = "report"]
        /\ UNCHANGED faults
  /\ UNCHANGED <<runs, ci, cb, poll, minted>>

(* workflow_dispatch: a workflow run comes into being, of which the worker   *)
(* learns nothing but that it was accepted (204).                            *)
Dispatched(c, r) ==
  /\ ci[c].state = "none"
  /\ c \notin Pushed
  /\ ci' = [ci EXCEPT ![c] = [NoCIRun EXCEPT
       !.state = "queued", !.target = RunTarget[r], !.for = r]]

(* A failed dispatch is reported as one, also when GitHub had accepted it. *)
Trigger(w) ==
  /\ hand[w].pc = "trigger"
  /\ \/ /\ \E c \in CIRuns : Dispatched(c, hand[w].run)
        /\ Outcome(hand' = [hand EXCEPT ![w] = Idle],
                   hand' = [hand EXCEPT ![w].pc = "report"])
     \/ /\ Fault
        /\ hand' = [hand EXCEPT ![w].pc = "report"]
        /\ UNCHANGED ci
  /\ UNCHANGED <<runs, cb, poll, minted>>

(* ReportRunResult as the control plane handles it: a run this worker does   *)
(* not have, or that has ended, is answered with an error that is logged.    *)
ReportRunResult(w, r, status, ref) ==
  \/ /\ ReportRunResultWhere(runs[r], w)
     /\ runs' = [runs EXCEPT ![r] = ReportRunResultSet(@, status, ref)]
     /\ UNCHANGED faults
  \/ /\ ~ReportRunResultWhere(runs[r], w)
     /\ UNCHANGED <<runs, faults>>
  \/ /\ Fault
     /\ UNCHANGED runs

FailRunDispatch(w) ==
  /\ hand[w].pc = "report"
  /\ ReportRunResult(w, hand[w].run, "failed", NULL)
  /\ hand' = [hand EXCEPT ![w] = Idle]
  /\ UNCHANGED <<ci, cb, poll, minted>>

-------------------------------------------------------------------------------
(* GitHub.                                                                  *)

Start(c) ==
  /\ ci[c].state = "queued"
  /\ ci' = [ci EXCEPT ![c].state = "in_progress"]
  /\ UNCHANGED <<runs, hand, cb, poll, minted, faults>>

(* A workflow run that was refused its credentials does not succeed. *)
Conclude(c, conclusion) ==
  /\ \/ ci[c].state = "in_progress"
     \/ ci[c].state = "queued" /\ conclusion = "cancelled"
  /\ cb[c].pc \in {"none", "served", "refused"}
  /\ conclusion = "success" => cb[c].pc = "served"
  /\ ci' = [ci EXCEPT ![c].state = conclusion, ![c].concluded = @ \cup {conclusion}]
  /\ UNCHANGED <<runs, hand, cb, poll, minted, faults>>

(* A re-run keeps the run_id, which is the reference the worker knows. *)
Rerun(c) ==
  /\ ci[c].state \in Conclusions
  /\ c \in Rerunnable /\ ~ci[c].rerun
  /\ ci' = [ci EXCEPT ![c].state = "queued", ![c].rerun = TRUE]
  /\ cb' = [cb EXCEPT ![c] = NoCallback]
  /\ UNCHANGED <<runs, hand, poll, minted, faults>>

(* The same workflow started by a push or by hand. *)
Push(c) ==
  /\ ci[c].state = "none"
  /\ c \in Pushed
  /\ \E t \in Targets :
       ci' = [ci EXCEPT ![c] = [NoCIRun EXCEPT !.state = "queued", !.target = t]]
  /\ UNCHANGED <<runs, hand, cb, poll, minted, faults>>

-------------------------------------------------------------------------------
(* Handler.ServeHTTP.                                                       *)

(* The token GitHub issues to a workflow run for the audience asked for. *)
FetchGitHubOIDCToken(c, audience) ==
  [aud |-> audience, runId |-> c, target |-> ci[c].target]

(* A worker accepts the tokens issued for its own callback URL. *)
Verify(w, token) == token.aud = w

(* runCIAuth: the job discovers the callback of a worker, has a token issued *)
(* for it and posts the token there, once.                                   *)
Callbacks(c, w) ==
  /\ ci[c].state = "in_progress"
  /\ cb[c].pc = "none"
  /\ w \in AppWorkers
  /\ Verify(w, FetchGitHubOIDCToken(c, w))
  /\ cb' = [cb EXCEPT ![c] = [pc |-> "find", worker |-> w, run |-> NULL]]
  /\ UNCHANGED <<runs, hand, ci, poll, minted, faults>>

Refused(c) == cb' = [cb EXCEPT ![c] = [NoCallback EXCEPT !.pc = "refused"]]

(* ResolveExternalRef: exactly one unresolved run of the target, or 403. *)
ResolveFind(c) ==
  LET claims == FetchGitHubOIDCToken(c, cb[c].worker)
      found == FindUnresolvedExecutingRuns(runs, {"env"}, RunTarget, claims.target) IN
  /\ cb[c].pc = "find"
  /\ \/ \E r \in found : /\ found = {r}
                         /\ cb' = [cb EXCEPT ![c].pc = "update", ![c].run = r]
     \/ /\ \A r \in found : found # {r}
        /\ Refused(c)
  /\ UNCHANGED <<runs, hand, ci, poll, minted, faults>>

(* The reference is recorded; the answer may not arrive. *)
ResolveUpdate(c) ==
  LET r == cb[c].run IN
  /\ cb[c].pc = "update"
  /\ \/ /\ ResolveRunExternalRefWhere(runs[r])
        /\ runs' = [runs EXCEPT ![r] = ResolveRunExternalRefSet(@, c)]
        /\ Outcome(cb' = [cb EXCEPT ![c].pc = "mint"], Refused(c))
     \/ /\ ~ResolveRunExternalRefWhere(runs[r])
        /\ Refused(c)
        /\ UNCHANGED <<runs, faults>>
  /\ UNCHANGED <<hand, ci, poll, minted>>

(* Mutant of StartPoll: the poll is tied to the request and ends with it. *)
PollInRequest(c) == UNCHANGED poll

(* go h.pollUntilTerminal(...), detached from the request. *)
StartPoll(c) ==
  poll' = [poll EXCEPT ![<<c, cb[c].run>>] =
    [pc |-> "polling", worker |-> cb[c].worker, result |-> NoResult]]

(* MintCredentials; errors of writing the answer are ignored. *)
MintCredentials(c) ==
  /\ cb[c].pc = "mint"
  /\ \/ /\ minted' = minted \cup {<<c, cb[c].worker, cb[c].run>>}
        /\ StartPoll(c)
        /\ Outcome(cb' = [cb EXCEPT ![c].pc = "served"], Refused(c))
     \/ /\ Fault
        /\ Refused(c)
        /\ UNCHANGED <<poll, minted>>
  /\ UNCHANGED <<runs, hand, ci>>

-------------------------------------------------------------------------------
(* pollUntilTerminal.                                                       *)

(* Mutant of MapStatus: the conclusion of a completed run is not read. *)
MapCompletedAsSuccess(state) ==
  CASE state = "queued" -> "pending"
    [] state = "in_progress" -> "running"
    [] OTHER -> "succeeded"

(* mapStatus: status and conclusion of a workflow run as one ci.Status. *)
MapStatus(state) ==
  CASE state = "queued" -> "pending"
    [] state = "in_progress" -> "running"
    [] state = "success" -> "succeeded"
    [] state \in {"cancelled", "timed_out"} -> state
    [] OTHER -> "failed"

(* What the adapter says of a workflow run when it is asked. *)
AdapterStatus(c) == MapStatus(ci[c].state)

(* A terminal status ends the poll; another one, or an error, continues it. *)
CheckStatus(c, r) ==
  /\ poll[<<c, r>>].pc = "polling"
  /\ AdapterStatus(c) \in Terminal
  /\ poll' = [poll EXCEPT
       ![<<c, r>>].pc = "report",
       ![<<c, r>>].result = [status |-> AdapterStatus(c), ref |-> c]]
  /\ UNCHANGED <<runs, hand, ci, cb, minted, faults>>

(* pollTimeout: timed_out is reported without a reference. *)
PollTimeout(c, r) ==
  /\ poll[<<c, r>>].pc = "polling"
  /\ poll' = [poll EXCEPT
       ![<<c, r>>].pc = "report",
       ![<<c, r>>].result = [status |-> "timed_out", ref |-> NULL]]
  /\ UNCHANGED <<runs, hand, ci, cb, minted, faults>>

(* reportResult: one attempt, and the goroutine ends. *)
PollReport(c, r) ==
  /\ poll[<<c, r>>].pc = "report"
  /\ LET p == poll[<<c, r>>] IN
       ReportRunResult(p.worker, r, p.result.status, p.result.ref)
  /\ poll' = [poll EXCEPT ![<<c, r>>] = NoPoll]
  /\ UNCHANGED <<hand, ci, cb, minted>>

(* The process of a worker dies with everything it was doing. *)
Crash(w) ==
  /\ Fault
  /\ hand' = [hand EXCEPT ![w] = Idle]
  /\ cb' = [c \in CIRuns |->
       IF cb[c].worker = w /\ cb[c].pc \in {"find", "update", "mint"}
       THEN [NoCallback EXCEPT !.pc = "refused"] ELSE cb[c]]
  /\ poll' = [p \in CIRuns \X Runs |->
       IF poll[p].worker = w THEN NoPoll ELSE poll[p]]
  /\ UNCHANGED <<runs, ci, minted>>

-------------------------------------------------------------------------------
HandStep(w) == NextRun(w) \/ InstallationToken(w) \/ Trigger(w) \/ FailRunDispatch(w)

CallbackStep(c) == ResolveFind(c) \/ ResolveUpdate(c) \/ MintCredentials(c)

PollStep(c, r) == CheckStatus(c, r) \/ PollTimeout(c, r) \/ PollReport(c, r)

GitHubStep(c) ==
  Start(c) \/ Rerun(c) \/ Push(c) \/ \E x \in Conclusions : Conclude(c, x)

Next ==
  \/ \E r \in Runs : HandOver(r)
  \/ \E w \in Workers : HandStep(w) \/ Crash(w)
  \/ \E c \in CIRuns :
       \/ GitHubStep(c)
       \/ CallbackStep(c)
       \/ \E w \in Workers : Callbacks(c, w)
       \/ \E r \in Runs : PollStep(c, r)

Spec == Init /\ [][Next]_vars

(* The worker's goroutines run; nothing is assumed of GitHub or of CI jobs,  *)
(* and pollTimeout bounds every poll.                                        *)
FairSpec ==
  /\ Spec
  /\ \A w \in Workers : WF_vars(HandStep(w))
  /\ \A c \in CIRuns : WF_vars(CallbackStep(c))
  /\ \A c \in CIRuns, r \in Runs : WF_vars(PollStep(c, r))

-------------------------------------------------------------------------------
(* A recorded success is true: it names a workflow run that got credentials  *)
(* for this very run, from the worker that claimed it, and that concluded    *)
(* with success (pollUntilTerminal, mapStatus, ReportRunResult).             *)
SuccessIsReal ==
  \A r \in Runs : runs[r].status = "succeeded" =>
    \E c \in CIRuns :
      /\ <<c, runs[r].claimedBy, r>> \in minted
      /\ "success" \in ci[c].concluded

(* As long as nothing failed, an executing run that is claimed is in         *)
(* somebody's hands: its worker is dispatching it, a workflow run was        *)
(* started for it; and once that one has its credentials from the run's own  *)
(* worker, a poll is under way that will report the run.                     *)
InHand ==
  faults = 0 =>
    \A r \in Runs : runs[r].status = "executing" =>
      /\ runs[r].claimedBy # NULL =>
           hand[runs[r].claimedBy].run = r \/ \E c \in CIRuns : ci[c].for = r
      /\ \A m \in minted :
           m[3] = r /\ m[2] = runs[r].claimedBy /\ ci[m[1]].for = r =>
             poll[<<m[1], r>>].pc # "none"

(* As long as nothing failed, a run whose own workflow run got credentials   *)
(* from the worker that claimed it reaches a terminal status: "a run that    *)
(* never reaches a terminal status within pollTimeout is reported timed_out  *)
(* rather than polled forever".  The only report of another worker, or of a  *)
(* poll that began before the claim, is refused, and the run may then stay   *)
(* executing.                                                                *)
MintedRunReported ==
  \A r \in Runs :
    (\E m \in minted : m[3] = r /\ m[2] = runs[r].claimedBy /\ ci[m[1]].for = r)
      ~> runs[r].status \in Terminal \/ faults > 0

-------------------------------------------------------------------------------
(* The columns of the table are the abstract run.  Runs come here queued,   *)
(* past any approval, and no statement of this module touches approvals.    *)
Lifecycle ==
  INSTANCE RunLifecycle WITH
    status <- [r \in Runs |-> runs[r].status],
    decision <- [r \in Runs |-> "absent"],
    claimant <- [r \in Runs |-> runs[r].claimedBy]

(* Whatever the goroutines of several workers, GitHub, re-runs and lost     *)
(* answers do, each of their effects on a run is a step of the run model: a *)
(* run is claimed once, ends once, and only executing (NextRun,             *)
(* ReportRunResult, ResolveRun).                                            *)
StepsOfLifecycle == [][Lifecycle!LNext]_(Lifecycle!lvars)
===============================================================================
