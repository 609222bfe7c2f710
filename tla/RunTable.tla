------------------------------- MODULE RunTable -------------------------------
(***************************************************************************)
(* The rows of the runs and approvals tables and the SQL statements of     *)
(* controlplane/internal/execution that read and write them.  A guarded    *)
(* UPDATE is a pair of operators: what its WHERE clause requires of a row, *)
(* and the row after SET.  Postgres runs each statement atomically: under  *)
(* READ COMMITTED an UPDATE that waited for the row's lock re-evaluates    *)
(* its WHERE clause on the row it then finds.                              *)
(*                                                                         *)
(* Abstracted: the tenant (a deployment has exactly one), ci_url and       *)
(* ci_raw_status (written together with ci_external_ref and read by        *)
(* nobody), diff_ref, and the instants of the timestamps, of which only    *)
(* NULL or not is kept.                                                    *)
(***************************************************************************)
EXTENDS Naturals

CONSTANT NULL   \* SQL NULL

Terminal == {"succeeded", "failed", "cancelled", "timed_out"}

(* runs.status, and "absent" while there is no row.  The schema also admits *)
(* "requested", which no statement writes.                                  *)
Status == {"absent", "policy_checked", "denied", "awaiting_approval",
           "queued", "executing"} \cup Terminal

Timestamps == {NULL, "set"}

(* What no row looks like. *)
NoRow == [status |-> "absent", actor |-> NULL, tier |-> NULL, env |-> NULL,
          pipeline |-> NULL, claimedBy |-> NULL, extRef |-> NULL,
          startedAt |-> NULL, finishedAt |-> NULL]

(* CreateRun *)
CreateRun(actor, tier, env, pipeline, status) ==
  [NoRow EXCEPT !.status = status, !.actor = actor, !.tier = tier,
                !.env = env, !.pipeline = pipeline]

-------------------------------------------------------------------------------
(* UpdateRunStatus ... WHERE id = $2 AND status = $3 *)
UpdateRunStatusWhere(row, old) == row.status = old

(* Mutant of UpdateRunStatusSet: started_at is never stamped. *)
SetWithoutStart(row, new) ==
  [row EXCEPT !.status = new,
              !.finishedAt = IF new \in Terminal THEN "set" ELSE @]

UpdateRunStatusSet(row, new) ==
  [row EXCEPT !.status = new,
              !.startedAt = IF new = "executing" THEN "set" ELSE @,
              !.finishedAt = IF new \in Terminal THEN "set" ELSE @]

-------------------------------------------------------------------------------
(* ClaimNextExecutingRun ... WHERE status = 'executing' AND claimed_by IS   *)
(* NULL AND environment_id = ANY(...)                                       *)
ClaimNextExecutingRunWhere(row, envs) ==
  /\ row.status = "executing"
  /\ row.claimedBy = NULL
  /\ row.env \in envs

(* ORDER BY requested_at FOR UPDATE SKIP LOCKED LIMIT 1: the oldest such    *)
(* row that no statement running at that moment has locked.  Run ids are    *)
(* numbered in the order of requested_at.                                   *)
ClaimNextExecutingRun(rows, envs, locked) ==
  { r \in DOMAIN rows \ locked :
      /\ ClaimNextExecutingRunWhere(rows[r], envs)
      /\ \A q \in DOMAIN rows \ locked :
            ClaimNextExecutingRunWhere(rows[q], envs) => r <= q }

ClaimSet(row, worker) == [row EXCEPT !.claimedBy = worker]

-------------------------------------------------------------------------------
(* Mutant of ReportRunResultWhere: the status guard is dropped. *)
ReportAnyStatus(row, worker) == row.claimedBy = worker

(* ReportRunResult ... WHERE id = $5 AND claimed_by = $6 AND status =       *)
(* 'executing'                                                              *)
ReportRunResultWhere(row, worker) ==
  /\ row.claimedBy = worker
  /\ row.status = "executing"

(* The reference is overwritten by whatever the report carries, nullString  *)
(* turning an empty one into NULL.                                          *)
ReportRunResultSet(row, new, ref) ==
  [row EXCEPT !.status = new, !.extRef = ref,
              !.finishedAt = IF new \in Terminal THEN "set" ELSE @]

-------------------------------------------------------------------------------
(* FindUnresolvedExecutingRuns joined with its pipeline, and the ref filter *)
(* of ResolveExternalRef: provider, repository, workflow and normalised ref *)
(* of the pipeline together are its target.                                 *)
FindUnresolvedExecutingRuns(rows, envs, target, wanted) ==
  { r \in DOMAIN rows :
      /\ rows[r].status = "executing"
      /\ rows[r].extRef = NULL
      /\ rows[r].env \in envs
      /\ target[rows[r].pipeline] = wanted }

(* Mutant of ResolveRunExternalRefWhere: ci_external_ref IS NULL dropped. *)
ResolveAlways(row) == row.status # "absent"

(* ResolveRunExternalRef ... WHERE id = $3 AND ci_external_ref IS NULL *)
ResolveRunExternalRefWhere(row) == row.extRef = NULL

ResolveRunExternalRefSet(row, ref) == [row EXCEPT !.extRef = ref]

-------------------------------------------------------------------------------
(* approvals.decision: NULL is "pending", and "absent" while there is no row. *)
ApprovalDecisions == {"absent", "pending", "approved", "denied"}

NoApproval == [decision |-> "absent", approver |-> NULL]

CreateApproval == [decision |-> "pending", approver |-> NULL]

(* Mutant of DecideApprovalWhere: decision IS NULL is dropped. *)
DecideAgain(approval) == approval.decision # "absent"

(* DecideApproval ... WHERE run_id = $3 AND decision IS NULL *)
DecideApprovalWhere(approval) == approval.decision = "pending"

DecideApprovalSet(decision, approver) ==
  [decision |-> decision, approver |-> approver]
===============================================================================
