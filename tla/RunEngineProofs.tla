--------------------------- MODULE RunEngineProofs ----------------------------
(***************************************************************************)
(* Every reachable state of RunEngine satisfies IInv, hence the safety     *)
(* properties of RunSafety.  The first lemmas say what each SQL statement  *)
(* does to a row; one lemma per action then shows that the action keeps    *)
(* every conjunct of IInv; NextIInv collects them.  The last lemmas show   *)
(* that under IInv every step is one of the run model RunLifecycle.        *)
(***************************************************************************)
EXTENDS RunSafety, TLAPS

(* policy.Check decides, and asks for approval exactly for the middle tier. *)
LEMMA CheckCases ==
  ASSUME NEW t \in Tiers, NEW m \in BOOLEAN
  PROVE  /\ Check(t, m) \in Decisions
         /\ Check(t, m) = "requires_approval" <=> t = TierHumanInTheLoop
  BY DEF Check, Valid, Tiers, Decisions, TierReadOnly, TierHumanInTheLoop, TierAutonomous

(* What UpdateRunStatus writes. *)
LEMMA SetStatusRow ==
  ASSUME NEW row \in RunRow, NEW new \in Status
  PROVE  LET after == UpdateRunStatusSet(row, new) IN
         /\ after \in RunRow
         /\ after.status = new
         /\ after.actor = row.actor /\ after.tier = row.tier
         /\ after.env = row.env /\ after.pipeline = row.pipeline
         /\ after.claimedBy = row.claimedBy /\ after.extRef = row.extRef
         /\ after.startedAt = (IF new = "executing" THEN "set" ELSE row.startedAt)
         /\ after.finishedAt = (IF new \in Terminal THEN "set" ELSE row.finishedAt)
  BY ZenonT(60) DEF UpdateRunStatusSet, RunRow, Timestamps

(* What CreateRun writes. *)
LEMMA CreateRow ==
  ASSUME NEW a \in Actors, NEW t \in Tiers, NEW e \in Envs, NEW p \in Pipelines,
         NEW s \in Status
  PROVE  LET after == CreateRun(a, t, e, p, s) IN
         /\ after \in RunRow
         /\ after.status = s /\ after.actor = a /\ after.tier = t
         /\ after.env = e /\ after.pipeline = p
         /\ after.claimedBy = NULL /\ after.extRef = NULL
         /\ after.startedAt = NULL /\ after.finishedAt = NULL
  BY DEF CreateRun, NoRow, RunRow, Timestamps

(* An empty database satisfies the invariant. *)
LEMMA InitIInv == Init => IInv
<1> SUFFICES ASSUME Init PROVE IInv
  OBVIOUS
<1> USE DEF Init
<1>1. TypeOK
  BY SizesAssumption DEF TypeOK, NoRow, RunRow, Timestamps, Status, Ended, CallState, Answers, NoApproval, ApprovalRow, ApprovalDecisions, JobRow, JobStates, ReqSteps, DecSteps, WorkSteps
<1>2. RowsInv
  BY DEF RowsInv, NoRow, NoApproval
<1>3. ApprovalInv
  BY NullAssumption DEF ApprovalInv, NoRow, NoApproval, Tiers
<1>4. Handlers /\ JobInv /\ NoSilentLoss
  BY SizesAssumption DEF Handlers, JobInv, NoSilentLoss, NoRow, NoApproval, Begun, Terminal, Dispatched
<1>5. CallInv /\ MintGate
  BY DEF CallInv, MintGate, Ended, InCall
<1>6. ApprovalGate
  BY DEF ApprovalGate, NoRow, NoApproval, Dispatched, Terminal
<1>7. SoleHolder 
  BY DEF SoleHolder, NoRow
<1>8. ClockAndCost
  BY NullAssumption DEF ClockAndCost, NoRow, Terminal
<1> QED
  BY <1>1, <1>2, <1>3, <1>4, <1>5, <1>6, <1>7, <1>8 DEF IInv

(* What ClaimNextExecutingRun writes. *)
LEMMA ClaimRow ==
  ASSUME NEW row \in RunRow, NEW w \in Workers
  PROVE  LET after == ClaimSet(row, w) IN
         /\ after \in RunRow
         /\ after.claimedBy = w /\ after.status = row.status
         /\ after.actor = row.actor /\ after.tier = row.tier
         /\ after.env = row.env /\ after.pipeline = row.pipeline
         /\ after.extRef = row.extRef
         /\ after.startedAt = row.startedAt /\ after.finishedAt = row.finishedAt
  BY DEF ClaimSet, RunRow

(* What ReportRunResult writes. *)
LEMMA ReportRow ==
  ASSUME NEW row \in RunRow, NEW new \in Terminal, NEW ref \in CIRuns \cup {NULL}
  PROVE  LET after == ReportRunResultSet(row, new, ref) IN
         /\ after \in RunRow
         /\ after.status = new /\ after.extRef = ref
         /\ after.actor = row.actor /\ after.tier = row.tier
         /\ after.env = row.env /\ after.pipeline = row.pipeline
         /\ after.claimedBy = row.claimedBy
         /\ after.startedAt = row.startedAt /\ after.finishedAt = "set"
  BY ZenonT(60) DEF ReportRunResultSet, RunRow, Status, Timestamps

(* What ResolveRunExternalRef writes. *)
LEMMA ResolveRow ==
  ASSUME NEW row \in RunRow, NEW ref \in CIRuns
  PROVE  LET after == ResolveRunExternalRefSet(row, ref) IN
         /\ after \in RunRow
         /\ after.extRef = ref /\ after.status = row.status
         /\ after.actor = row.actor /\ after.tier = row.tier
         /\ after.env = row.env /\ after.pipeline = row.pipeline
         /\ after.claimedBy = row.claimedBy
         /\ after.startedAt = row.startedAt /\ after.finishedAt = row.finishedAt
  BY DEF ResolveRunExternalRefSet, RunRow

(* The effect of NextRun on the run it picks. *)
Claims(w, r) ==
  /\ ClaimNextExecutingRunWhere(runs[r], Grants[w])
  /\ runs' = [runs EXCEPT ![r] = ClaimSet(@, w)]
  /\ UNCHANGED <<approvals, jobs, req, dec, work, calls, audit, revealed,
                 costs, faults>>

(* A request allowed outright: the new row carries the actor's tier. *)
LEMMA RequestAllowedInv ==
  ASSUME IInv, NEW r \in Runs, NEW a \in Actors, NEW e \in Envs, NEW p \in
     Pipelines, RequestAllowed(r, a, e, p)
  PROVE  IInv'
<1> DEFINE row == CreateRun(a, ActorTier[a], e, p, "policy_checked")
<1>1. /\ row \in RunRow /\ row.status = "policy_checked"
      /\ row.actor = a /\ row.tier = ActorTier[a]
      /\ row.env = e /\ row.pipeline = p
      /\ row.claimedBy = NULL /\ row.extRef = NULL
      /\ row.startedAt = NULL /\ row.finishedAt = NULL
      /\ ActorTier[a] \in Tiers /\ ActorTier[a] # TierHumanInTheLoop
  BY CreateRow, CheckCases, ConfigurationAssumption DEF Status, RequestAllowed
<1>2. /\ runs' = [runs EXCEPT ![r] = row]
      /\ runs[r].status = "absent"
      /\ Check(ActorTier[a], Mutating[p]) = "allow"
      /\ req' = [req EXCEPT ![r] = "queue"]
      /\ UNCHANGED <<approvals, jobs, dec, work, calls, audit, revealed,
                      costs, faults>>
  BY DEF RequestAllowed, NextId, IInv, TypeOK
<1> HIDE DEF row
<1>3. TypeOK'
  BY <1>1, <1>2 DEF IInv, TypeOK, ReqSteps
<1>4. RowsInv'
  BY <1>1, <1>2 DEF IInv, TypeOK, RowsInv
<1>5. ApprovalInv'
  BY <1>1, <1>2 DEF IInv, TypeOK, ApprovalInv, RowsInv
<1>6. Handlers'
  BY <1>1, <1>2 DEF IInv, TypeOK, Handlers, RowsInv
<1>7. JobInv'
  BY <1>1, <1>2 DEF IInv, TypeOK, JobInv, Begun, Terminal, RowsInv
<1>8. CallInv'
  BY <1>1, <1>2 DEF IInv, TypeOK, CallInv, InCall, Begun, Terminal
<1>9. ApprovalGate'
  BY <1>1, <1>2 DEF IInv, TypeOK, ApprovalGate, RowsInv, Dispatched, Terminal
<1>10. MintGate'
  BY <1>1, <1>2 DEF IInv, TypeOK, MintGate, Terminal
<1>11. SoleHolder'
  BY <1>1, <1>2 DEF IInv, TypeOK, SoleHolder
<1>12. NoSilentLoss'
  BY <1>1, <1>2 DEF IInv, TypeOK, NoSilentLoss, Dispatched, Terminal, RowsInv
<1>13. ClockAndCost'
  BY <1>1, <1>2, NullAssumption DEF IInv, TypeOK, ClockAndCost, Terminal
<1> QED
  BY <1>3, <1>4, <1>5, <1>6, <1>7, <1>8, <1>9, <1>10, <1>11, <1>12, <1>13 DEF
     IInv

(* A request that needs approval: the row and its approval appear together. *)
LEMMA RequestForApprovalInv ==
  ASSUME IInv, NEW r \in Runs, NEW a \in Actors, NEW e \in Envs, NEW p \in
     Pipelines, RequestForApproval(r, a, e, p)
  PROVE  IInv'
<1> DEFINE row == CreateRun(a, ActorTier[a], e, p, "awaiting_approval")
<1>1. /\ row \in RunRow /\ row.status = "awaiting_approval"
      /\ row.actor = a /\ row.tier = ActorTier[a]
      /\ row.env = e /\ row.pipeline = p
      /\ row.claimedBy = NULL /\ row.extRef = NULL
      /\ row.startedAt = NULL /\ row.finishedAt = NULL
      /\ ActorTier[a] \in Tiers /\ ActorTier[a] = TierHumanInTheLoop
  BY CreateRow, CheckCases, ConfigurationAssumption DEF Status,
     RequestForApproval
<1>2. /\ runs' = [runs EXCEPT ![r] = row]
      /\ runs[r].status = "absent"
      /\ Check(ActorTier[a], Mutating[p]) = "requires_approval"
      /\ approvals' = [approvals EXCEPT ![r] =
                          [decision |-> "pending", approver |-> NULL]]
      /\ req' = [req EXCEPT ![r] = "audit"]
      /\ UNCHANGED <<jobs, dec, work, calls, audit, revealed, costs,
                      faults>>
  BY DEF RequestForApproval, NextId, CreateApproval, IInv, TypeOK
<1> HIDE DEF row
<1>3. TypeOK'
  BY <1>1, <1>2 DEF IInv, TypeOK, ApprovalRow, ApprovalDecisions, ReqSteps
<1>4. RowsInv'
  BY <1>1, <1>2 DEF IInv, TypeOK, RowsInv
<1>5. ApprovalInv'
  BY <1>1, <1>2 DEF IInv, TypeOK, ApprovalInv, RowsInv
<1>6. Handlers'
  BY <1>1, <1>2 DEF IInv, TypeOK, Handlers, RowsInv
<1>7. JobInv'
  BY <1>1, <1>2 DEF IInv, TypeOK, JobInv, Begun, Terminal, RowsInv
<1>8. CallInv'
  BY <1>1, <1>2 DEF IInv, TypeOK, CallInv, InCall, Begun, Terminal
<1>9. ApprovalGate'
  BY <1>1, <1>2 DEF IInv, TypeOK, ApprovalGate, RowsInv, Dispatched, Terminal
<1>10. MintGate'
  BY <1>1, <1>2 DEF IInv, TypeOK, MintGate, Terminal
<1>11. SoleHolder'
  BY <1>1, <1>2 DEF IInv, TypeOK, SoleHolder
<1>12. NoSilentLoss'
  BY <1>1, <1>2 DEF IInv, TypeOK, NoSilentLoss, Dispatched, Terminal, RowsInv
<1>13. ClockAndCost'
  BY <1>1, <1>2, NullAssumption DEF IInv, TypeOK, ClockAndCost, Terminal
<1> QED
  BY <1>3, <1>4, <1>5, <1>6, <1>7, <1>8, <1>9, <1>10, <1>11, <1>12, <1>13 DEF
     IInv

(* policy_checked -> queued. *)
LEMMA RequestQueueInv ==
  ASSUME IInv, NEW r \in Runs, RequestQueue(r)
  PROVE  IInv'
<1> DEFINE row == UpdateRunStatusSet(runs[r], "queued")
<1>1. /\ row \in RunRow /\ row.status = "queued"
      /\ row.actor = runs[r].actor /\ row.tier = runs[r].tier
      /\ row.env = runs[r].env /\ row.pipeline = runs[r].pipeline
      /\ row.claimedBy = runs[r].claimedBy /\ row.extRef = runs[r].extRef
      /\ row.startedAt = runs[r].startedAt
      /\ row.finishedAt = runs[r].finishedAt
  BY SetStatusRow DEF IInv, TypeOK, Status, Terminal
<1>2. /\ runs' = [runs EXCEPT ![r] = row]
      /\ runs[r].status = "policy_checked"
      /\ req' = [req EXCEPT ![r] = "enqueue"]
      /\ UNCHANGED <<approvals, jobs, dec, work, calls, audit, revealed,
                      costs, faults>>
  BY DEF RequestQueue, UpdateRunStatusWhere, IInv, TypeOK
<1> HIDE DEF row
<1>3. TypeOK'
  BY <1>1, <1>2 DEF IInv, TypeOK, ReqSteps
<1>4. RowsInv'
  BY <1>1, <1>2 DEF IInv, TypeOK, RowsInv
<1>5. ApprovalInv'
  BY <1>1, <1>2 DEF IInv, TypeOK, ApprovalInv
<1>6. Handlers'
  BY <1>1, <1>2 DEF IInv, TypeOK, Handlers, ApprovalInv, NoSilentLoss,
     Dispatched, Terminal
<1>7. JobInv'
  BY <1>1, <1>2 DEF IInv, TypeOK, JobInv, Begun, Terminal
<1>8. CallInv'
  BY <1>1, <1>2 DEF IInv, TypeOK, CallInv, InCall, Begun, Terminal, Allowed
<1>9. ApprovalGate'
  BY <1>1, <1>2 DEF IInv, TypeOK, ApprovalGate, ApprovalInv
<1>10. MintGate'
  BY <1>1, <1>2 DEF IInv, TypeOK, MintGate, Terminal
<1>11. SoleHolder'
  BY <1>1, <1>2 DEF IInv, TypeOK, SoleHolder
<1>12. NoSilentLoss'
  BY <1>1, <1>2 DEF IInv, TypeOK, NoSilentLoss, Dispatched, Terminal
<1>13. ClockAndCost'
  BY <1>1, <1>2 DEF IInv, TypeOK, ClockAndCost, Terminal
<1> QED
  BY <1>3, <1>4, <1>5, <1>6, <1>7, <1>8, <1>9, <1>10, <1>11, <1>12, <1>13 DEF
     IInv

(* The request handler enqueues the job of its queued run. *)
LEMMA RequestEnqueueInv ==
  ASSUME IInv, NEW r \in Runs, RequestEnqueue(r)
  PROVE  IInv'
<1>1. TypeOK'
  BY DEF RequestEnqueue, Enqueue, IInv, TypeOK, JobRow, JobStates, ReqSteps
<1>2. RowsInv'
  BY DEF RequestEnqueue, Enqueue, IInv, TypeOK, RowsInv, Handlers, JobRow
<1>3. Handlers'
  BY DEF RequestEnqueue, Enqueue, IInv, TypeOK, Handlers, JobRow
<1>4. JobInv'
  BY SizesAssumption DEF RequestEnqueue, Enqueue, IInv, TypeOK, JobInv, Begun,
     Terminal, Handlers, JobRow
<1>5. NoSilentLoss'
  BY DEF RequestEnqueue, Enqueue, IInv, TypeOK, NoSilentLoss, Dispatched,
     Terminal, Handlers, JobRow
<1>6. ApprovalInv' /\ CallInv' /\ ApprovalGate' /\ MintGate' /\ SoleHolder' /\ ClockAndCost'
  BY DEF RequestEnqueue, IInv, ApprovalInv, CallInv, ApprovalGate, MintGate,
     SoleHolder, ClockAndCost
<1> QED
  BY <1>1, <1>2, <1>3, <1>4, <1>5, <1>6 DEF IInv

(* The request is audited. *)
LEMMA RequestAuditInv ==
  ASSUME IInv, NEW r \in Runs, RequestAudit(r)
  PROVE  IInv'
<1>1. TypeOK'
  BY DEF RequestAudit, IInv, TypeOK, AuditActions, ReqSteps
<1>2. RowsInv'
  BY DEF RequestAudit, IInv, TypeOK, RowsInv
<1>3. Handlers'
  BY DEF RequestAudit, IInv, TypeOK, Handlers
<1>4. CallInv'
  BY DEF RequestAudit, IInv, TypeOK, CallInv, InCall
<1>5. MintGate'
  BY DEF RequestAudit, IInv, TypeOK, MintGate
<1>6. ApprovalInv' /\ JobInv' /\ ApprovalGate' /\ SoleHolder' /\ NoSilentLoss' /\ ClockAndCost'
  BY DEF RequestAudit, IInv, ApprovalInv, JobInv, ApprovalGate, SoleHolder,
     NoSilentLoss, ClockAndCost
<1> QED
  BY <1>1, <1>2, <1>3, <1>4, <1>5, <1>6 DEF IInv

(* The request handler is cut short. *)
LEMMA RequestInterruptedInv ==
  ASSUME IInv, NEW r \in Runs, RequestInterrupted(r)
  PROVE  IInv'
<1>1. TypeOK'
  BY SizesAssumption DEF RequestInterrupted, Interrupt, IInv, TypeOK, ReqSteps
<1>2. RowsInv'
  BY DEF RequestInterrupted, Interrupt, IInv, TypeOK, RowsInv
<1>3. Handlers'
  BY DEF RequestInterrupted, Interrupt, IInv, TypeOK, Handlers
<1>4. ApprovalInv' /\ JobInv' /\ CallInv' /\ ApprovalGate' /\ MintGate' /\ SoleHolder' /\ NoSilentLoss' /\ ClockAndCost'
  BY DEF RequestInterrupted, IInv, ApprovalInv, JobInv, CallInv, ApprovalGate,
     MintGate, SoleHolder, NoSilentLoss, ClockAndCost
<1> QED
  BY <1>1, <1>2, <1>3, <1>4 DEF IInv

(* The winning decision on an approval. *)
LEMMA DecideApprovalInv ==
  ASSUME IInv, NEW r \in Runs, NEW a \in Actors, NEW d \in {"approved",
     "denied"}, DecideApproval(r, a, d)
  PROVE  IInv'
<1>1. TypeOK'
  BY DEF DecideApproval, DecideApprovalWhere, DecideApprovalSet, IInv, TypeOK,
     ApprovalRow, ApprovalDecisions, DecSteps
<1>2. RowsInv'
  BY DEF DecideApproval, DecideApprovalWhere, DecideApprovalSet, IInv, TypeOK,
     RowsInv
<1>3. ApprovalInv'
  BY DEF DecideApproval, DecideApprovalWhere, DecideApprovalSet, IInv, TypeOK,
     ApprovalInv
<1>4. Handlers'
  BY DEF DecideApproval, DecideApprovalWhere, DecideApprovalSet, IInv, TypeOK,
     Handlers, ApprovalInv
<1>5. ApprovalGate'
  BY DEF DecideApproval, DecideApprovalWhere, DecideApprovalSet, IInv, TypeOK,
     ApprovalGate, ApprovalInv, Dispatched, Terminal
<1>6. JobInv' /\ CallInv' /\ MintGate' /\ SoleHolder' /\ NoSilentLoss' /\ ClockAndCost'
  BY DEF DecideApproval, IInv, JobInv, CallInv, MintGate, SoleHolder,
     NoSilentLoss, ClockAndCost
<1> QED
  BY <1>1, <1>2, <1>3, <1>4, <1>5, <1>6 DEF IInv

(* The run follows its approval. *)
LEMMA DecideTransitionInv ==
  ASSUME IInv, NEW r \in Runs, DecideTransition(r)
  PROVE  IInv'
<1> DEFINE new == IF approvals[r].decision = "approved" THEN "queued" ELSE "denied"
<1> DEFINE row == UpdateRunStatusSet(runs[r], new)
<1>1. /\ row \in RunRow /\ row.status = new
      /\ row.actor = runs[r].actor /\ row.tier = runs[r].tier
      /\ row.env = runs[r].env /\ row.pipeline = runs[r].pipeline
      /\ row.claimedBy = runs[r].claimedBy /\ row.extRef = runs[r].extRef
      /\ row.startedAt = runs[r].startedAt
      /\ row.finishedAt = runs[r].finishedAt
  BY SetStatusRow DEF IInv, TypeOK, Status, Terminal
<1>2. /\ runs' = [runs EXCEPT ![r] = row]
      /\ runs[r].status = "awaiting_approval"
      /\ dec[r] = "transition"
      /\ \/ /\ approvals[r].decision = "approved" /\ new = "queued"
            /\ dec' = [dec EXCEPT ![r] = "enqueue"]
         \/ /\ approvals[r].decision = "denied" /\ new = "denied"
            /\ dec' = [dec EXCEPT ![r] = "audit"]
      /\ UNCHANGED <<approvals, jobs, req, work, calls, audit, revealed,
                      costs, faults>>
  BY DEF DecideTransition, UpdateRunStatusWhere, IInv, TypeOK
<1> HIDE DEF row, new
<1>3. TypeOK'
  BY <1>1, <1>2 DEF IInv, TypeOK, DecSteps
<1>4. RowsInv'
  BY <1>1, <1>2 DEF IInv, TypeOK, RowsInv
<1>5. ApprovalInv'
  BY <1>1, <1>2 DEF IInv, TypeOK, ApprovalInv, Handlers
<1>6. Handlers'
  BY <1>1, <1>2 DEF IInv, TypeOK, Handlers, JobInv, NoSilentLoss, Dispatched,
     Terminal
<1>7. JobInv'
  BY <1>1, <1>2 DEF IInv, TypeOK, JobInv, Begun, Terminal
<1>8. CallInv'
  BY <1>1, <1>2 DEF IInv, TypeOK, CallInv, InCall, Begun, Terminal, Allowed
<1>9. ApprovalGate'
  BY <1>1, <1>2 DEF IInv, TypeOK, ApprovalGate, Dispatched, Terminal
<1>10. MintGate'
  BY <1>1, <1>2 DEF IInv, TypeOK, MintGate, Terminal
<1>11. SoleHolder'
  BY <1>1, <1>2 DEF IInv, TypeOK, SoleHolder
<1>12. NoSilentLoss'
  BY <1>1, <1>2 DEF IInv, TypeOK, NoSilentLoss, Dispatched, Terminal
<1>13. ClockAndCost'
  BY <1>1, <1>2 DEF IInv, TypeOK, ClockAndCost, Terminal
<1> QED
  BY <1>3, <1>4, <1>5, <1>6, <1>7, <1>8, <1>9, <1>10, <1>11, <1>12, <1>13 DEF
     IInv

(* The decision handler enqueues the job of the run it queued. *)
LEMMA DecideEnqueueInv ==
  ASSUME IInv, NEW r \in Runs, DecideEnqueue(r)
  PROVE  IInv'
<1>1. TypeOK'
  BY DEF DecideEnqueue, Enqueue, IInv, TypeOK, JobRow, JobStates, DecSteps
<1>2. RowsInv'
  BY DEF DecideEnqueue, Enqueue, IInv, TypeOK, RowsInv, Handlers, JobRow
<1>3. Handlers'
  BY DEF DecideEnqueue, Enqueue, IInv, TypeOK, Handlers, JobRow
<1>4. JobInv'
  BY SizesAssumption DEF DecideEnqueue, Enqueue, IInv, TypeOK, JobInv, Begun,
     Terminal, Handlers, JobRow
<1>5. NoSilentLoss'
  BY DEF DecideEnqueue, Enqueue, IInv, TypeOK, NoSilentLoss, Dispatched,
     Terminal, Handlers, JobRow
<1>6. ApprovalInv' /\ CallInv' /\ ApprovalGate' /\ MintGate' /\ SoleHolder' /\ ClockAndCost'
  BY DEF DecideEnqueue, IInv, ApprovalInv, CallInv, ApprovalGate, MintGate,
     SoleHolder, ClockAndCost
<1> QED
  BY <1>1, <1>2, <1>3, <1>4, <1>5, <1>6 DEF IInv

(* The decision is audited. *)
LEMMA DecideAuditInv ==
  ASSUME IInv, NEW r \in Runs, DecideAudit(r)
  PROVE  IInv'
<1>1. TypeOK'
  BY DEF DecideAudit, IInv, TypeOK, AuditActions, DecSteps
<1>2. RowsInv'
  BY DEF DecideAudit, IInv, TypeOK, RowsInv
<1>3. Handlers'
  BY DEF DecideAudit, IInv, TypeOK, Handlers
<1>4. CallInv'
  BY DEF DecideAudit, IInv, TypeOK, CallInv, InCall
<1>5. MintGate'
  BY DEF DecideAudit, IInv, TypeOK, MintGate
<1>6. ApprovalInv' /\ JobInv' /\ ApprovalGate' /\ SoleHolder' /\ NoSilentLoss' /\ ClockAndCost'
  BY DEF DecideAudit, IInv, ApprovalInv, JobInv, ApprovalGate, SoleHolder,
     NoSilentLoss, ClockAndCost
<1> QED
  BY <1>1, <1>2, <1>3, <1>4, <1>5, <1>6 DEF IInv

(* The decision handler is cut short. *)
LEMMA DecideInterruptedInv ==
  ASSUME IInv, NEW r \in Runs, DecideInterrupted(r)
  PROVE  IInv'
<1>1. TypeOK'
  BY SizesAssumption DEF DecideInterrupted, Interrupt, IInv, TypeOK, DecSteps
<1>2. RowsInv'
  BY DEF DecideInterrupted, Interrupt, IInv, TypeOK, RowsInv
<1>3. Handlers'
  BY DEF DecideInterrupted, Interrupt, IInv, TypeOK, Handlers
<1>4. ApprovalInv' /\ JobInv' /\ CallInv' /\ ApprovalGate' /\ MintGate' /\ SoleHolder' /\ NoSilentLoss' /\ ClockAndCost'
  BY DEF DecideInterrupted, IInv, ApprovalInv, JobInv, CallInv, ApprovalGate,
     MintGate, SoleHolder, NoSilentLoss, ClockAndCost
<1> QED
  BY <1>1, <1>2, <1>3, <1>4 DEF IInv

(* River starts an attempt. *)
LEMMA RiverFetchInv ==
  ASSUME IInv, NEW r \in Runs, RiverFetch(r)
  PROVE  IInv'
<1>1. TypeOK'
  BY SizesAssumption DEF RiverFetch, IInv, TypeOK, JobRow, JobStates,
     WorkSteps, JobInv
<1>2. RowsInv'
  BY DEF RiverFetch, IInv, TypeOK, RowsInv, JobRow
<1>3. Handlers'
  BY DEF RiverFetch, IInv, TypeOK, Handlers, JobRow
<1>4. JobInv'
  BY SizesAssumption DEF RiverFetch, IInv, TypeOK, JobInv, Begun, Terminal,
     JobRow
<1>5. NoSilentLoss'
  BY DEF RiverFetch, IInv, TypeOK, NoSilentLoss, Dispatched, Terminal, JobRow
<1>6. ApprovalInv' /\ CallInv' /\ ApprovalGate' /\ MintGate' /\ SoleHolder' /\ ClockAndCost'
  BY DEF RiverFetch, IInv, ApprovalInv, CallInv, ApprovalGate, MintGate,
     SoleHolder, ClockAndCost
<1> QED
  BY <1>1, <1>2, <1>3, <1>4, <1>5, <1>6 DEF IInv

(* Work moves a queued run to executing, or finds it moved before. *)
LEMMA WorkClaimInv ==
  ASSUME IInv, NEW r \in Runs, WorkClaim(r)
  PROVE  IInv'
<1> DEFINE row == IF runs[r].status = "queued"
                  THEN UpdateRunStatusSet(runs[r], "executing") ELSE runs[r]
<1>1. /\ row \in RunRow /\ row.status = (IF runs[r].status = "queued"
                        THEN "executing" ELSE runs[r].status)
      /\ row.actor = runs[r].actor /\ row.tier = runs[r].tier
      /\ row.env = runs[r].env /\ row.pipeline = runs[r].pipeline
      /\ row.claimedBy = runs[r].claimedBy /\ row.extRef = runs[r].extRef
      /\ row.startedAt = IF runs[r].status = "queued"
                         THEN "set" ELSE runs[r].startedAt
      /\ row.finishedAt = runs[r].finishedAt
  BY SetStatusRow DEF IInv, TypeOK, Status, Terminal
<1>2. /\ runs' = [runs EXCEPT ![r] = row]
      /\ work[r] = "claim"
      /\ \/ /\ runs[r].status = "queued" /\ jobs' = jobs
            /\ work' = [work EXCEPT ![r] = "load"]
         \/ /\ runs[r].status # "queued"
            /\ jobs' = [jobs EXCEPT ![r].state = "completed"]
            /\ work' = [work EXCEPT ![r] = "idle"]
      /\ UNCHANGED <<approvals, req, dec, calls, audit, revealed, costs,
                      faults>>
  BY DEF WorkClaim, UpdateRunStatusWhere, JobDone, IInv, TypeOK
<1> HIDE DEF row
<1>3. TypeOK'
  BY <1>1, <1>2 DEF IInv, TypeOK, JobRow, JobStates, WorkSteps
<1>4. RowsInv'
  BY <1>1, <1>2 DEF IInv, TypeOK, RowsInv, JobRow
<1>5. ApprovalInv'
  BY <1>1, <1>2 DEF IInv, TypeOK, ApprovalInv, JobInv
<1>6. Handlers'
  BY <1>1, <1>2 DEF IInv, TypeOK, Handlers, JobInv, JobRow
<1>7. JobInv'
  BY <1>1, <1>2 DEF IInv, TypeOK, JobInv, Begun, Terminal, JobRow
<1>8. CallInv'
  BY <1>1, <1>2 DEF IInv, TypeOK, CallInv, InCall, Begun, Terminal, Allowed
<1>9. ApprovalGate'
  BY <1>1, <1>2 DEF IInv, TypeOK, ApprovalGate, ApprovalInv, Dispatched,
     Terminal
<1>10. MintGate'
  BY <1>1, <1>2 DEF IInv, TypeOK, MintGate, Terminal, Allowed
<1>11. SoleHolder'
  BY <1>1, <1>2, ZenonT(60) DEF IInv, TypeOK, SoleHolder, MintGate, Terminal
<1>12. NoSilentLoss'
  BY <1>1, <1>2 DEF IInv, TypeOK, NoSilentLoss, Dispatched, Terminal, JobInv,
     JobRow
<1>13. ClockAndCost'
  BY <1>1, <1>2 DEF IInv, TypeOK, ClockAndCost, Terminal
<1> QED
  BY <1>3, <1>4, <1>5, <1>6, <1>7, <1>8, <1>9, <1>10, <1>11, <1>12, <1>13 DEF
     IInv

(* Work has loaded the pipeline and re-checked policy. *)
LEMMA WorkLoadInv ==
  ASSUME IInv, NEW r \in Runs, WorkLoad(r)
  PROVE  IInv'
<1>1. TypeOK'
  BY DEF WorkLoad, JobDone, IInv, TypeOK, JobRow, JobStates, WorkSteps
<1>2. RowsInv'
  BY DEF WorkLoad, JobDone, IInv, TypeOK, RowsInv, JobRow
<1>3. Handlers'
  BY DEF WorkLoad, JobDone, IInv, TypeOK, Handlers, JobInv, JobRow
<1>4. JobInv'
  BY DEF WorkLoad, JobDone, IInv, TypeOK, JobInv, Begun, Terminal, JobRow
<1>5. NoSilentLoss'
  BY DEF WorkLoad, JobDone, IInv, TypeOK, NoSilentLoss, Dispatched, Terminal,
     JobInv, Begun, JobRow
<1>6. ApprovalInv' /\ CallInv' /\ ApprovalGate' /\ MintGate' /\ SoleHolder' /\ ClockAndCost'
  BY DEF WorkLoad, IInv, ApprovalInv, CallInv, ApprovalGate, MintGate,
     SoleHolder, ClockAndCost
<1> QED
  BY <1>1, <1>2, <1>3, <1>4, <1>5, <1>6 DEF IInv

(* failClosed. *)
LEMMA WorkFailClosedInv ==
  ASSUME IInv, NEW r \in Runs, WorkFailClosed(r)
  PROVE  IInv'
<1> DEFINE row == IF runs[r].status = "executing"
                  THEN UpdateRunStatusSet(runs[r], "failed") ELSE runs[r]
<1>1. /\ row \in RunRow /\ row.status = (IF runs[r].status = "executing"
                        THEN "failed" ELSE runs[r].status)
      /\ row.actor = runs[r].actor /\ row.tier = runs[r].tier
      /\ row.env = runs[r].env /\ row.pipeline = runs[r].pipeline
      /\ row.claimedBy = runs[r].claimedBy /\ row.extRef = runs[r].extRef
      /\ row.startedAt = runs[r].startedAt
      /\ row.finishedAt = IF runs[r].status = "executing"
                          THEN "set" ELSE runs[r].finishedAt
  BY SetStatusRow DEF IInv, TypeOK, Status, Terminal
<1>2. /\ runs' = [runs EXCEPT ![r] = row]
      /\ work[r] = "fail"
      /\ jobs' = [jobs EXCEPT ![r].state = "completed"]
      /\ work' = [work EXCEPT ![r] = "idle"]
      /\ UNCHANGED <<approvals, req, dec, calls, audit, revealed, costs,
                      faults>>
  BY DEF WorkFailClosed, UpdateRunStatusWhere, JobDone, IInv, TypeOK
<1> HIDE DEF row
<1>3. TypeOK'
  BY <1>1, <1>2 DEF IInv, TypeOK, JobRow, JobStates, WorkSteps
<1>4. RowsInv'
  BY <1>1, <1>2 DEF IInv, TypeOK, RowsInv, JobRow
<1>5. ApprovalInv'
  BY <1>1, <1>2 DEF IInv, TypeOK, ApprovalInv
<1>6. Handlers'
  BY <1>1, <1>2 DEF IInv, TypeOK, Handlers, JobInv, JobRow
<1>7. JobInv'
  BY <1>1, <1>2 DEF IInv, TypeOK, JobInv, Begun, Terminal, JobRow
<1>8. CallInv'
  BY <1>1, <1>2 DEF IInv, TypeOK, CallInv, InCall, Begun, Terminal, Allowed
<1>9. ApprovalGate'
  BY <1>1, <1>2 DEF IInv, TypeOK, ApprovalGate, ApprovalInv, Dispatched,
     Terminal
<1>10. MintGate'
  BY <1>1, <1>2 DEF IInv, TypeOK, MintGate, Terminal, Allowed
<1>11. SoleHolder'
  BY <1>1, <1>2 DEF IInv, TypeOK, SoleHolder
<1>12. NoSilentLoss'
  BY <1>1, <1>2 DEF IInv, TypeOK, NoSilentLoss, Dispatched, Terminal, JobInv,
     Begun, JobRow
<1>13. ClockAndCost'
  BY <1>1, <1>2 DEF IInv, TypeOK, ClockAndCost, Terminal
<1> QED
  BY <1>3, <1>4, <1>5, <1>6, <1>7, <1>8, <1>9, <1>10, <1>11, <1>12, <1>13 DEF
     IInv

(* An attempt fails; River retries it or gives up. *)
LEMMA WorkInterruptedInv ==
  ASSUME IInv, NEW r \in Runs, WorkInterrupted(r)
  PROVE  IInv'
<1>1. TypeOK'
  BY SizesAssumption DEF WorkInterrupted, Interrupt, IInv, TypeOK, JobRow,
     JobStates, WorkSteps
<1>2. RowsInv'
  BY DEF WorkInterrupted, Interrupt, IInv, TypeOK, RowsInv, JobRow
<1>3. Handlers'
  BY DEF WorkInterrupted, Interrupt, IInv, TypeOK, Handlers, JobInv, JobRow
<1>4. JobInv'
  BY SizesAssumption DEF WorkInterrupted, Interrupt, IInv, TypeOK, JobInv,
     Begun, Terminal, JobRow
<1>5. NoSilentLoss'
  <2>1. /\ runs' = runs
        /\ jobs[r] \in JobRow
        /\ jobs[r].state = "running"
    BY DEF WorkInterrupted, IInv, TypeOK, JobInv
  <2>2. /\ \A q \in Runs \ {r} : jobs'[q] = jobs[q]
        /\ jobs'[r].attempt = jobs[r].attempt
        /\ jobs'[r].state # "completed"
        /\ jobs'[r].state = "discarded" => ~(jobs[r].attempt < MaxAttempts)
    BY DEF WorkInterrupted, IInv, TypeOK, JobRow
  <2>3. jobs'[r].state = "discarded" => jobs'[r].attempt = MaxAttempts
    BY <2>1, <2>2, SizesAssumption DEF JobRow
  <2>4. runs[r].status \in Dispatched
    BY <2>1 DEF IInv, NoSilentLoss
  <2> QED
    BY <2>1, <2>2, <2>3, <2>4 DEF IInv, NoSilentLoss
<1>6. ApprovalInv' /\ CallInv' /\ ApprovalGate' /\ MintGate' /\ SoleHolder' /\ ClockAndCost'
  BY DEF WorkInterrupted, IInv, ApprovalInv, CallInv, ApprovalGate, MintGate,
     SoleHolder, ClockAndCost
<1> QED
  BY <1>1, <1>2, <1>3, <1>4, <1>5, <1>6 DEF IInv

(* A worker claims a run. *)
LEMMA ClaimInv ==
  ASSUME IInv, NEW w \in Workers, NEW r \in Runs, Claims(w, r)
  PROVE  IInv'
<1> DEFINE row == ClaimSet(runs[r], w)
<1>1. /\ row \in RunRow /\ row.status = runs[r].status
      /\ row.actor = runs[r].actor /\ row.tier = runs[r].tier
      /\ row.env = runs[r].env /\ row.pipeline = runs[r].pipeline
      /\ row.claimedBy = w /\ row.extRef = runs[r].extRef
      /\ row.startedAt = runs[r].startedAt
      /\ row.finishedAt = runs[r].finishedAt
  BY ClaimRow DEF IInv, TypeOK
<1>2. /\ runs' = [runs EXCEPT ![r] = row]
      /\ runs[r].status = "executing"
      /\ UNCHANGED <<approvals, jobs, req, dec, work, calls, audit, revealed,
                      costs, faults>>
  BY DEF Claims, ClaimNextExecutingRunWhere, IInv, TypeOK
<1> HIDE DEF row
<1>3. TypeOK'
  BY <1>1, <1>2 DEF IInv, TypeOK
<1>4. RowsInv'
  BY <1>1, <1>2 DEF IInv, TypeOK, RowsInv
<1>5. ApprovalInv'
  BY <1>1, <1>2 DEF IInv, TypeOK, ApprovalInv
<1>6. Handlers'
  BY <1>1, <1>2 DEF IInv, TypeOK, Handlers
<1>7. JobInv'
  BY <1>1, <1>2 DEF IInv, TypeOK, JobInv, Begun, Terminal
<1>8. CallInv'
  BY <1>1, <1>2 DEF IInv, TypeOK, CallInv, InCall, Begun, Terminal, Allowed
<1>9. ApprovalGate'
  BY <1>1, <1>2 DEF IInv, TypeOK, ApprovalGate
<1>10. MintGate'
  BY <1>1, <1>2 DEF IInv, TypeOK, MintGate, Allowed
<1>11. SoleHolder'
  BY <1>1, <1>2 DEF IInv, TypeOK, SoleHolder
<1>12. NoSilentLoss'
  BY <1>1, <1>2 DEF IInv, TypeOK, NoSilentLoss, Dispatched, Terminal
<1>13. ClockAndCost'
  BY <1>1, <1>2, NullAssumption DEF IInv, TypeOK, ClockAndCost, Terminal
<1> QED
  BY <1>3, <1>4, <1>5, <1>6, <1>7, <1>8, <1>9, <1>10, <1>11, <1>12, <1>13 DEF
     IInv

(* A worker reports the result of the run it claimed. *)
LEMMA ReportResultInv ==
  ASSUME IInv, NEW w \in Workers, NEW r \in Runs, NEW s \in Terminal, NEW ref
     \in CIRuns \cup {NULL}, ReportResult(w, r, s, ref)
  PROVE  IInv'
<1> DEFINE row == ReportRunResultSet(runs[r], s, ref)
<1>1. /\ row \in RunRow /\ row.status = s /\ row.extRef = ref
      /\ row.actor = runs[r].actor /\ row.tier = runs[r].tier
      /\ row.env = runs[r].env /\ row.pipeline = runs[r].pipeline
      /\ row.claimedBy = runs[r].claimedBy
      /\ row.startedAt = runs[r].startedAt /\ row.finishedAt = "set"
  BY ReportRow DEF IInv, TypeOK
<1>2. /\ runs' = [runs EXCEPT ![r] = row]
      /\ runs[r].status = "executing" /\ runs[r].claimedBy = w
      /\ s = "succeeded" => <<ref, w, r>> \in revealed
      /\ costs' \subseteq costs \cup {r}
      /\ faults' \in 0..MaxFaults
      /\ UNCHANGED <<approvals, jobs, req, dec, work, calls, audit, revealed>>
<2>1. s = "succeeded" => <<ref, w, r>> \in revealed
  BY DEF ReportResult, MayReport
<2>2. costs' \subseteq costs \cup {r} /\ faults' \in 0..MaxFaults
  BY SizesAssumption DEF ReportResult, Interrupt, IInv, TypeOK
<2> QED
  BY <2>1, <2>2 DEF ReportResult, ReportRunResultWhere, IInv, TypeOK
<1> HIDE DEF row
<1>3. TypeOK'
  BY <1>1, <1>2 DEF IInv, TypeOK
<1>4. RowsInv'
  BY <1>1, <1>2 DEF IInv, TypeOK, RowsInv, Terminal
<1>5. ApprovalInv'
  BY <1>1, <1>2 DEF IInv, TypeOK, ApprovalInv, Terminal
<1>6. Handlers'
  BY <1>1, <1>2 DEF IInv, TypeOK, Handlers, Terminal
<1>7. JobInv'
  BY <1>1, <1>2 DEF IInv, TypeOK, JobInv, Begun, Terminal
<1>8. CallInv'
<2>1. s = "succeeded" => ref = runs[r].extRef
  BY <1>2 DEF IInv, TypeOK, SoleHolder
<2> QED
  BY <1>1, <1>2, <2>1 DEF IInv, TypeOK, CallInv, Begun, Terminal, Allowed
<1>9. ApprovalGate'
  BY <1>1, <1>2 DEF IInv, TypeOK, ApprovalGate, Dispatched, Terminal
<1>10. MintGate'
  BY <1>1, <1>2 DEF IInv, TypeOK, MintGate, Allowed, Terminal
<1>11. SoleHolder'
  BY <1>1, <1>2 DEF IInv, TypeOK, SoleHolder, Terminal
<1>12. NoSilentLoss'
  BY <1>1, <1>2 DEF IInv, TypeOK, NoSilentLoss, Dispatched, Terminal
<1>13. ClockAndCost'
  BY <1>1, <1>2, NullAssumption DEF IInv, TypeOK, ClockAndCost, Terminal
<1> QED
  BY <1>3, <1>4, <1>5, <1>6, <1>7, <1>8, <1>9, <1>10, <1>11, <1>12, <1>13 DEF
     IInv

(* The resolve handler has searched for the run of a CI run. *)
LEMMA ResolveFindInv ==
  ASSUME IInv, NEW k \in Calls, NEW w \in Workers, NEW c \in CIRuns,
     ResolveFind(k, w, c)
  PROVE  IInv'
<1>1. TypeOK'
  BY DEF ResolveFind, Candidates, FindUnresolvedExecutingRuns, Ended, IInv,
     TypeOK, CallState, InCall, Answers
<1>2. CallInv'
  BY DEF ResolveFind, Candidates, FindUnresolvedExecutingRuns, Ended, IInv,
     TypeOK, CallInv, InCall, Begun, Answers
<1>3. RowsInv' /\ ApprovalInv' /\ Handlers' /\ JobInv' /\ ApprovalGate' /\ MintGate' /\ SoleHolder' /\ NoSilentLoss' /\ ClockAndCost'
  BY DEF ResolveFind, IInv, RowsInv, ApprovalInv, Handlers, JobInv,
     ApprovalGate, MintGate, SoleHolder, NoSilentLoss, ClockAndCost
<1> QED
  BY <1>1, <1>2, <1>3 DEF IInv

(* The resolve handler records the reference, or finds one recorded. *)
LEMMA ResolveUpdateInv ==
  ASSUME IInv, NEW k \in Calls, ResolveUpdate(k)
  PROVE  IInv'
<1> DEFINE r == calls[k].run
<1> DEFINE row == IF runs[r].extRef = NULL
                  THEN ResolveRunExternalRefSet(runs[r], calls[k].ci) ELSE runs[r]
<1>1. /\ r \in Runs /\ row \in RunRow
      /\ calls[k].ci \in CIRuns /\ calls[k].worker \in Workers
      /\ row.status = runs[r].status
      /\ row.actor = runs[r].actor /\ row.tier = runs[r].tier
      /\ row.env = runs[r].env /\ row.pipeline = runs[r].pipeline
      /\ row.claimedBy = runs[r].claimedBy /\ row.extRef = (IF runs[r].extRef = NULL
                        THEN calls[k].ci ELSE runs[r].extRef)
      /\ row.startedAt = runs[r].startedAt
      /\ row.finishedAt = runs[r].finishedAt
  BY ResolveRow, ZenonT(60) DEF ResolveUpdate, IInv, TypeOK, CallInv, InCall
<1>2. /\ runs' = [runs EXCEPT ![r] = row]
      /\ calls[k].pc = "update"
      /\ \/ /\ runs[r].extRef = NULL
            /\ calls' = [calls EXCEPT ![k].pc = "gate"]
         \/ calls' = [calls EXCEPT ![k] = Ended("not_found")]
      /\ UNCHANGED <<approvals, jobs, req, dec, work, audit, revealed, costs,
                      faults>>
  BY DEF ResolveUpdate, ResolveRunExternalRefWhere, IInv, TypeOK
<1> HIDE DEF row, r
<1>3. TypeOK'
<2>1. calls' \in [Calls -> CallState]
  BY <1>2 DEF IInv, TypeOK, CallState, InCall, Answers, Ended
<2> QED
  BY <1>1, <1>2, <2>1 DEF IInv, TypeOK
<1>4. RowsInv'
  BY <1>1, <1>2 DEF IInv, TypeOK, RowsInv
<1>5. ApprovalInv'
  BY <1>1, <1>2 DEF IInv, TypeOK, ApprovalInv
<1>6. Handlers'
  BY <1>1, <1>2 DEF IInv, TypeOK, Handlers
<1>7. JobInv'
  BY <1>1, <1>2 DEF IInv, TypeOK, JobInv, Begun, Terminal
<1>8. CallInv'
<2>1. CASE calls' = [calls EXCEPT ![k] = Ended("not_found")]
  BY <1>1, <1>2, <2>1, NullAssumption DEF IInv, TypeOK, CallInv, InCall,
     Allowed, Ended
<2>2. CASE /\ runs[r].extRef = NULL
           /\ calls' = [calls EXCEPT ![k].pc = "gate"]
<3>1. \A j \in Calls : j # k => calls'[j] = calls[j]
  BY <2>2 DEF IInv, TypeOK
<3>2. /\ calls'[k].pc = "gate" /\ calls'[k].ci = calls[k].ci
      /\ calls'[k].worker = calls[k].worker /\ calls'[k].run = r
  BY <2>2 DEF IInv, TypeOK, CallState, r
<3>3. \A j \in Calls : /\ calls[j].pc \in {"gate", "reply"} /\ calls[j].run = r
                       => runs[r].status \notin {"executing", "succeeded"}
  BY <1>1, <2>2, NullAssumption DEF IInv, CallInv, InCall
<3>4. /\ runs[r].status \in Begun
      /\ runs[r].env \in Grants[calls[k].worker]
      /\ Target[runs[r].pipeline] = CITarget[calls[k].ci]
<4>1. calls[k].pc \in InCall
  BY <1>2 DEF InCall
<4> QED
  BY <4>1 DEF IInv, CallInv, r
<3>5. \A q \in Runs : /\ runs'[q].status = runs[q].status
                      /\ runs'[q].tier = runs[q].tier
                      /\ runs'[q].env = runs[q].env
                      /\ runs'[q].pipeline = runs[q].pipeline
                      /\ q # r => runs'[q].extRef = runs[q].extRef
  BY <1>1, <1>2 DEF IInv, TypeOK
<3>6. runs'[r].extRef = calls[k].ci
  BY <1>1, <1>2, <2>2 DEF IInv, TypeOK
<3>7. SUFFICES ASSUME NEW j \in Calls, calls'[j].pc \in InCall
               PROVE  LET q == calls'[j].run IN
      /\ calls'[j].ci \in CIRuns
      /\ calls'[j].worker \in Workers
      /\ q \in Runs
      /\ runs'[q].status \in Begun
      /\ runs'[q].env \in Grants[calls'[j].worker]
      /\ Target[runs'[q].pipeline] = CITarget[calls'[j].ci]
      /\ /\ calls'[j].pc # "update"
         /\ runs'[q].status \in {"executing", "succeeded"}
         => runs'[q].extRef = calls'[j].ci
      /\ calls'[j].pc = "reply" => /\ Allowed(runs'[q])
                                  /\ <<"credential.minted", q>> \in audit'
  BY DEF CallInv
<3>8. CASE j = k
  BY <1>1, <3>2, <3>4, <3>5, <3>6, <3>8
<3>9. CASE j # k
  BY <1>2, <3>1, <3>3, <3>5, <3>7, <3>9 DEF IInv, CallInv, InCall, Allowed
<3> QED
  BY <3>8, <3>9
<2> QED
  BY <1>2, <2>1, <2>2
<1>9. ApprovalGate'
  BY <1>1, <1>2 DEF IInv, TypeOK, ApprovalGate
<1>10. MintGate'
  BY <1>1, <1>2 DEF IInv, TypeOK, MintGate, Allowed
<1>11. SoleHolder'
<2>1. runs[r].status \in {"executing", "succeeded"} /\ runs[r].extRef = NULL =>
        \A c \in CIRuns, w \in Workers : <<c, w, r>> \notin revealed
  BY <1>1, NullAssumption DEF IInv, SoleHolder
<2>2. runs[r].status = "succeeded" => runs[r].extRef # NULL
<3>1. revealed \subseteq CIRuns \X Workers \X Runs
  BY DEF IInv, TypeOK
<3> QED
  BY <1>1, <3>1, NullAssumption DEF IInv, SoleHolder
<2> QED
  BY <1>1, <1>2, <2>1, <2>2 DEF IInv, TypeOK, SoleHolder
<1>12. NoSilentLoss'
  BY <1>1, <1>2 DEF IInv, TypeOK, NoSilentLoss, Dispatched, Terminal
<1>13. ClockAndCost'
  BY <1>1, <1>2 DEF IInv, TypeOK, ClockAndCost, Terminal
<1> QED
  BY <1>3, <1>4, <1>5, <1>6, <1>7, <1>8, <1>9, <1>10, <1>11, <1>12, <1>13 DEF
     IInv

(* Policy denies the mint; the run fails if its claimant relayed the callback. *)
LEMMA ResolveDenyInv ==
  ASSUME IInv, NEW k \in Calls, ResolveDeny(k)
  PROVE  IInv'
<1> DEFINE r == calls[k].run
<1> DEFINE row == IF ReportRunResultWhere(runs[r], calls[k].worker)
                  THEN ReportRunResultSet(runs[r], "failed", calls[k].ci) ELSE runs[r]
<1>1. /\ r \in Runs /\ row \in RunRow
      /\ \/ row = runs[r]
         \/ /\ row.status = "failed" /\ row.extRef = calls[k].ci
            /\ row.actor = runs[r].actor /\ row.tier = runs[r].tier
            /\ row.env = runs[r].env /\ row.pipeline = runs[r].pipeline
            /\ row.claimedBy = runs[r].claimedBy
            /\ row.startedAt = runs[r].startedAt /\ row.finishedAt = "set"
            /\ runs[r].status = "executing"
<2>1. r \in Runs /\ calls[k].ci \in CIRuns /\ runs[r] \in RunRow
  BY DEF ResolveDeny, IInv, TypeOK, CallInv, InCall
<2>2. CASE ReportRunResultWhere(runs[r], calls[k].worker)
<3>1. row = ReportRunResultSet(runs[r], "failed", calls[k].ci)
  BY <2>2
<3>2. "failed" \in Terminal
  BY DEF Terminal
<3>3. runs[r].status = "executing"
  BY <2>2 DEF ReportRunResultWhere
<3> HIDE DEF row, r
<3> QED
  BY <2>1, <3>1, <3>2, <3>3, ReportRow
<2>3. CASE ~ReportRunResultWhere(runs[r], calls[k].worker)
  BY <2>1, <2>3
<2> QED
  BY <2>2, <2>3
<1>2. /\ runs' = [runs EXCEPT ![r] = row]
      /\ \E a \in Answers : calls' = [calls EXCEPT ![k] = Ended(a)]
      /\ UNCHANGED <<approvals, jobs, req, dec, work, audit, revealed, costs,
                      faults>>
  BY <1>1 DEF ResolveDeny, Answers, IInv, TypeOK
<1> HIDE DEF row, r
<1>3. TypeOK'
  BY <1>1, <1>2 DEF IInv, TypeOK, CallState, InCall, Answers, Ended
<1>4. RowsInv'
  BY <1>1, <1>2 DEF IInv, TypeOK, RowsInv
<1>5. ApprovalInv'
  BY <1>1, <1>2 DEF IInv, TypeOK, ApprovalInv
<1>6. Handlers'
  BY <1>1, <1>2 DEF IInv, TypeOK, Handlers
<1>7. JobInv'
  BY <1>1, <1>2 DEF IInv, TypeOK, JobInv, Begun, Terminal
<1>8. CallInv'
  BY <1>1, <1>2 DEF IInv, TypeOK, CallInv, InCall, Begun, Terminal, Allowed,
     Answers, Ended
<1>9. ApprovalGate'
  BY <1>1, <1>2 DEF IInv, TypeOK, ApprovalGate, Dispatched, Terminal
<1>10. MintGate'
  BY <1>1, <1>2 DEF IInv, TypeOK, MintGate, Allowed, Terminal
<1>11. SoleHolder'
  BY <1>1, <1>2 DEF IInv, TypeOK, SoleHolder
<1>12. NoSilentLoss'
  BY <1>1, <1>2 DEF IInv, TypeOK, NoSilentLoss, Dispatched, Terminal
<1>13. ClockAndCost'
  BY <1>1, <1>2 DEF IInv, TypeOK, ClockAndCost, Terminal
<1> QED
  BY <1>3, <1>4, <1>5, <1>6, <1>7, <1>8, <1>9, <1>10, <1>11, <1>12, <1>13 DEF
     IInv

(* The mint is audited. *)
LEMMA ResolveMintInv ==
  ASSUME IInv, NEW k \in Calls, ResolveMint(k)
  PROVE  IInv'
<1>1. TypeOK'
  BY DEF ResolveMint, IInv, TypeOK, CallState, InCall, Answers, AuditActions,
     CallInv
<1>2. CallInv'
  BY DEF ResolveMint, IInv, TypeOK, CallInv, InCall, CallState
<1>3. MintGate'
  BY DEF ResolveMint, IInv, TypeOK, MintGate
<1>4. RowsInv' /\ ApprovalInv' /\ Handlers' /\ JobInv' /\ ApprovalGate' /\ SoleHolder' /\ NoSilentLoss' /\ ClockAndCost'
  BY DEF ResolveMint, IInv, RowsInv, ApprovalInv, Handlers, JobInv,
     ApprovalGate, SoleHolder, NoSilentLoss, ClockAndCost
<1> QED
  BY <1>1, <1>2, <1>3, <1>4 DEF IInv

(* The role is revealed. *)
LEMMA ResolveReplyInv ==
  ASSUME IInv, NEW k \in Calls, ResolveReply(k)
  PROVE  IInv'
<1>1. TypeOK'
<2>1. /\ calls[k].ci \in CIRuns /\ calls[k].worker \in Workers
      /\ calls[k].run \in Runs
  BY DEF ResolveReply, IInv, CallInv, InCall
<2>2. revealed' \subseteq CIRuns \X Workers \X Runs
  BY <2>1 DEF ResolveReply, IInv, TypeOK
<2>3. calls' \in [Calls -> CallState]
  BY DEF ResolveReply, Ended, IInv, TypeOK, CallState, Answers
<2> QED
  BY <2>2, <2>3 DEF ResolveReply, IInv, TypeOK
<1>2. CallInv'
  BY DEF ResolveReply, Ended, IInv, TypeOK, CallInv, InCall, CallState
<1>3. MintGate'
  BY DEF ResolveReply, Ended, IInv, TypeOK, MintGate, CallInv, Begun, InCall
<1>4. SoleHolder'
  BY DEF ResolveReply, Ended, IInv, TypeOK, SoleHolder, CallInv, InCall
<1>5. RowsInv' /\ ApprovalInv' /\ Handlers' /\ JobInv' /\ ApprovalGate' /\ NoSilentLoss' /\ ClockAndCost'
  BY DEF ResolveReply, IInv, RowsInv, ApprovalInv, Handlers, JobInv,
     ApprovalGate, NoSilentLoss, ClockAndCost
<1> QED
  BY <1>1, <1>2, <1>3, <1>4, <1>5 DEF IInv

(* The resolve handler is cut short. *)
LEMMA ResolveInterruptedInv ==
  ASSUME IInv, NEW k \in Calls, ResolveInterrupted(k)
  PROVE  IInv'
<1>1. TypeOK'
  BY SizesAssumption DEF ResolveInterrupted, Interrupt, Ended, IInv, TypeOK,
     CallState, InCall, Answers
<1>2. CallInv'
  BY DEF ResolveInterrupted, Interrupt, Ended, IInv, TypeOK, CallInv, InCall
<1>3. RowsInv' /\ ApprovalInv' /\ Handlers' /\ JobInv' /\ ApprovalGate' /\ MintGate' /\ SoleHolder' /\ NoSilentLoss' /\ ClockAndCost'
  BY DEF ResolveInterrupted, IInv, RowsInv, ApprovalInv, Handlers, JobInv,
     ApprovalGate, MintGate, SoleHolder, NoSilentLoss, ClockAndCost
<1> QED
  BY <1>1, <1>2, <1>3 DEF IInv

-------------------------------------------------------------------------------
(* NextRun picks a run whose row its WHERE clause matches. *)
LEMMA NextRunClaims ==
  ASSUME NEW w \in Workers, TypeOK, NextRun(w)
  PROVE  \E r \in Runs : Claims(w, r)
  BY DEF NextRun, ClaimNextExecutingRun, Claims, TypeOK

(* The invariant is inductive: one case per action. *)
LEMMA NextIInv ==
  ASSUME IInv, [Next]_vars
  PROVE  IInv'
<1>1. CASE UNCHANGED vars
<2> USE <1>1 DEF vars
<2>1. TypeOK' /\ RowsInv' /\ ApprovalInv' /\ Handlers' /\ JobInv'
  BY DEF IInv, TypeOK, RowsInv, ApprovalInv, Handlers, JobInv
<2>2. CallInv' /\ ApprovalGate' /\ MintGate'
  BY DEF IInv, CallInv, ApprovalGate, MintGate
<2>3. SoleHolder' /\ NoSilentLoss' /\ ClockAndCost'
  BY DEF IInv, SoleHolder, NoSilentLoss, ClockAndCost
<2> QED
  BY <2>1, <2>2, <2>3 DEF IInv
<1>2. ASSUME NEW r \in Runs, NEW a \in Actors, NEW e \in Envs, NEW p \in Pipelines,
             RequestAllowed(r, a, e, p) \/ RequestForApproval(r, a, e, p)
      PROVE  IInv'
  BY <1>2, RequestAllowedInv, RequestForApprovalInv
<1>3. ASSUME NEW r \in Runs,
             RequestStep(r) \/ RequestInterrupted(r)
      PROVE  IInv'
  BY <1>3, RequestQueueInv, RequestEnqueueInv, RequestAuditInv,
     RequestInterruptedInv DEF RequestStep
<1>4. ASSUME NEW r \in Runs, NEW a \in Actors, NEW d \in {"approved", "denied"},
             DecideApproval(r, a, d)
      PROVE  IInv'
  BY <1>4, DecideApprovalInv
<1>5. ASSUME NEW r \in Runs,
             DecideStep(r) \/ DecideInterrupted(r)
      PROVE  IInv'
  BY <1>5, DecideTransitionInv, DecideEnqueueInv, DecideAuditInv,
     DecideInterruptedInv DEF DecideStep
<1>6. ASSUME NEW r \in Runs,
             RiverStep(r) \/ WorkInterrupted(r)
      PROVE  IInv'
  BY <1>6, RiverFetchInv, WorkClaimInv, WorkLoadInv, WorkFailClosedInv,
     WorkInterruptedInv DEF RiverStep
<1>7. ASSUME NEW r \in Runs, NEW w \in Workers, NEW s \in Terminal,
             NEW c \in CIRuns \cup {NULL}, ReportResult(w, r, s, c)
      PROVE  IInv'
  BY <1>7, ReportResultInv
<1>8. ASSUME NEW w \in Workers, NextRun(w)
      PROVE  IInv'
  BY <1>8, NextRunClaims, ClaimInv DEF IInv
<1>9. ASSUME NEW k \in Calls, NEW w \in Workers, NEW c \in CIRuns,
             ResolveFind(k, w, c)
      PROVE  IInv'
  BY <1>9, ResolveFindInv
<1>10. ASSUME NEW k \in Calls,
              ResolveStep(k) \/ ResolveInterrupted(k)
       PROVE  IInv'
  BY <1>10, ResolveUpdateInv, ResolveDenyInv, ResolveMintInv, ResolveReplyInv,
     ResolveInterruptedInv DEF ResolveStep
<1> QED
  BY <1>1, <1>2, <1>3, <1>4, <1>5, <1>6, <1>7, <1>8, <1>9, <1>10 DEF Next

(* IInv holds in every reachable state. *)
THEOREM Invariance == Spec => []IInv
<1>1. Init => IInv
  BY InitIInv
<1>2. IInv /\ [Next]_vars => IInv'
  BY NextIInv
<1> QED
  BY <1>1, <1>2, PTL DEF Spec

(* Tables, River jobs and handler positions keep their types whatever the  *)
(* numbers of runs, actors, workers, CI runs, calls and interruptions.     *)
THEOREM TypeCorrect == Spec => []TypeOK
<1>1. IInv => TypeOK
  BY DEF IInv
<1> QED
  BY <1>1, Invariance, PTL

(* A human-in-the-loop run is never dispatched without an approval by      *)
(* somebody else, and status and decision never part (Store.Decide).       *)
THEOREM ApprovalSafe == Spec => []ApprovalGate
<1>1. IInv => ApprovalGate
  BY DEF IInv
<1> QED
  BY <1>1, Invariance, PTL

(* No role is revealed for a run policy does not allow, unaudited, outside *)
(* the worker's grants or to a CI run of another pipeline                  *)
(* (handlePostWorkerRunResolve).                                           *)
THEOREM MintSafe == Spec => []MintGate
<1>1. IInv => MintGate
  BY DEF IInv
<1> QED
  BY <1>1, Invariance, PTL

(* At most one CI run holds the credentials of an executing or succeeded   *)
(* run, the recorded one (ResolveRunExternalRef).                          *)
THEOREM HolderSafe == Spec => []SoleHolder
<1>1. IInv => SoleHolder
  BY DEF IInv
<1> QED
  BY <1>1, Invariance, PTL

(* River forgets no queued run before its last attempt (Worker.Work).      *)
THEOREM QueueSafe == Spec => []NoSilentLoss
<1>1. IInv => NoSilentLoss
  BY DEF IInv
<1> QED
  BY <1>1, Invariance, PTL

(* Timestamps and costs agree with the status (handlePostWorkerRunResult). *)
THEOREM ClockSafe == Spec => []ClockAndCost
<1>1. IInv => ClockAndCost
  BY DEF IInv
<1> QED
  BY <1>1, Invariance, PTL

-------------------------------------------------------------------------------
(* A finished or denied run keeps all of its row but the reference: the    *)
(* step fact behind OutcomeFinal.                                          *)
LEMMA NextKeepsOutcome ==
  ASSUME IInv, [Next]_vars, NEW r \in Runs,
         runs[r].status \in Terminal \cup {"denied"}
  PROVE  runs'[r] = [runs[r] EXCEPT !.extRef = runs'[r].extRef]
<1>1. runs[r] \in RunRow /\ runs \in [Runs -> RunRow]
  BY DEF IInv, TypeOK
<1>2. CASE runs'[r] = runs[r]
  BY <1>1, <1>2 DEF RunRow
<1>3. CASE UNCHANGED vars
  BY <1>2, <1>3 DEF vars
<1>4. ASSUME NEW q \in Runs, NEW a \in Actors, NEW e \in Envs, NEW p \in Pipelines,
             RequestAllowed(q, a, e, p) \/ RequestForApproval(q, a, e, p)
      PROVE  runs'[r] = runs[r]
  BY <1>1, <1>4 DEF RequestAllowed, RequestForApproval, NextId, Terminal
<1>5. ASSUME NEW q \in Runs, RequestStep(q) \/ RequestInterrupted(q)
      PROVE  runs'[r] = runs[r]
  BY <1>1, <1>5 DEF RequestStep, RequestQueue, RequestEnqueue, RequestAudit,
     RequestInterrupted, UpdateRunStatusWhere, Terminal
<1>6. ASSUME NEW q \in Runs, NEW a \in Actors, NEW d \in {"approved", "denied"},
             DecideApproval(q, a, d)
      PROVE  runs'[r] = runs[r]
  BY <1>6 DEF DecideApproval
<1>7. ASSUME NEW q \in Runs, DecideStep(q) \/ DecideInterrupted(q)
      PROVE  runs'[r] = runs[r]
  BY <1>1, <1>7 DEF DecideStep, DecideTransition, DecideEnqueue, DecideAudit,
     DecideInterrupted, UpdateRunStatusWhere, Terminal
<1>8. ASSUME NEW q \in Runs, RiverStep(q) \/ WorkInterrupted(q)
      PROVE  runs'[r] = runs[r]
  BY <1>1, <1>8 DEF RiverStep, RiverFetch, WorkClaim, WorkLoad, WorkFailClosed,
     WorkInterrupted, UpdateRunStatusWhere, Terminal
<1>9. ASSUME NEW q \in Runs, NEW w \in Workers, NEW s \in Terminal,
             NEW c \in CIRuns \cup {NULL}, ReportResult(w, q, s, c)
      PROVE  runs'[r] = runs[r]
  BY <1>1, <1>9 DEF ReportResult, ReportRunResultWhere, Terminal
<1>10. ASSUME NEW w \in Workers, NextRun(w)
       PROVE  runs'[r] = runs[r]
<2>1. PICK q \in Runs : Claims(w, q)
  BY <1>10, NextRunClaims DEF IInv
<2> QED
  BY <1>1, <2>1 DEF Claims, ClaimNextExecutingRunWhere, Terminal
<1>11. ASSUME NEW k \in Calls, NEW w \in Workers, NEW c \in CIRuns,
              ResolveFind(k, w, c)
       PROVE  runs'[r] = runs[r]
  BY <1>11 DEF ResolveFind
<1>12. ASSUME NEW k \in Calls, ResolveUpdate(k)
       PROVE  runs'[r] = [runs[r] EXCEPT !.extRef = runs'[r].extRef]
<2>1. CASE runs' = [runs EXCEPT ![calls[k].run] =
                      ResolveRunExternalRefSet(@, calls[k].ci)]
<3>1. CASE calls[k].run = r
  BY <1>1, <2>1, <3>1 DEF ResolveRunExternalRefSet, RunRow
<3> QED
  BY <1>1, <1>2, <2>1, <3>1
<2> QED
  BY <1>2, <1>12, <2>1 DEF ResolveUpdate
<1>13. ASSUME NEW k \in Calls,
              ResolveDeny(k) \/ ResolveMint(k) \/ ResolveReply(k)
                \/ ResolveInterrupted(k)
       PROVE  runs'[r] = runs[r]
  BY <1>1, <1>13 DEF ResolveDeny, ResolveMint, ResolveReply, ResolveInterrupted,
     ReportRunResultWhere, Terminal
<1> QED
  BY <1>2, <1>3, <1>4, <1>5, <1>6, <1>7, <1>8, <1>9, <1>10, <1>11, <1>12, <1>13
     DEF Next, ResolveStep

(* No late report, retried job or second decision rewrites the outcome of  *)
(* a run (UpdateRunStatus, ReportRunResult).                               *)
THEOREM OutcomeKept == Spec => OutcomeFinal
<1>1. IInv /\ [Next]_vars =>
        [\A r \in Runs :
           runs[r].status \in Terminal \cup {"denied"} =>
             runs'[r] = [runs[r] EXCEPT !.extRef = runs'[r].extRef]]_vars
  BY NextKeepsOutcome
<1> QED
  BY <1>1, Invariance, PTL DEF Spec, OutcomeFinal

-------------------------------------------------------------------------------
(* RunEngine implements RunLifecycle: under IInv every step of a handler,  *)
(* of the River job or of a worker is a step of the abstract run model or  *)
(* leaves it unchanged.                                                    *)

(* A step that writes one row and keeps its claimant changes one abstract  *)
(* status at most.                                                         *)
LEMMA MovesStatus ==
  ASSUME TypeOK, NEW r \in Runs, NEW row, row.claimedBy = runs[r].claimedBy,
         runs' = [runs EXCEPT ![r] = row]
  PROVE  /\ [q \in Runs |-> runs'[q].status] =
              [[q \in Runs |-> runs[q].status] EXCEPT ![r] = row.status]
         /\ [q \in Runs |-> runs'[q].claimedBy] = [q \in Runs |-> runs[q].claimedBy]
  BY DEF TypeOK

(* A step that touches neither table stutters. *)
LEMMA Stutters ==
  ASSUME UNCHANGED <<runs, approvals>>
  PROVE  UNCHANGED Lifecycle!lvars
  BY DEF Lifecycle!lvars

(* A request admits its run. *)
LEMMA RequestRefines ==
  ASSUME IInv, NEW r \in Runs, NEW a \in Actors, NEW e \in Envs, NEW p \in Pipelines,
         RequestAllowed(r, a, e, p) \/ RequestForApproval(r, a, e, p)
  PROVE  Lifecycle!LNext
<1>1. TypeOK /\ runs[r].claimedBy = NULL /\ runs[r].status = "absent"
      /\ approvals[r].decision = "absent"
  BY DEF IInv, RowsInv, RequestAllowed, RequestForApproval, NextId
<1>2. ActorTier[a] \in Tiers
  BY ConfigurationAssumption
<1>3. CASE RequestAllowed(r, a, e, p)
<2> DEFINE row == CreateRun(a, ActorTier[a], e, p, "policy_checked")
<2>1. row.status = "policy_checked" /\ row.claimedBy = runs[r].claimedBy
  BY <1>1, <1>2, CreateRow DEF Status
<2>2. runs' = [runs EXCEPT ![r] = row] /\ UNCHANGED approvals
  BY <1>3 DEF RequestAllowed
<2> HIDE DEF row
<2>3. Lifecycle!Admit(r)
<3>1. /\ [q \in Runs |-> runs'[q].status] =
           [[q \in Runs |-> runs[q].status] EXCEPT ![r] = "policy_checked"]
      /\ [q \in Runs |-> runs'[q].claimedBy] = [q \in Runs |-> runs[q].claimedBy]
  BY <1>1, <2>1, <2>2 DEF TypeOK
<3> QED
  BY <1>1, <2>1, <2>2, <3>1 DEF Lifecycle!Admit
<2> QED
  BY <2>3 DEF Lifecycle!LNext
<1>4. CASE RequestForApproval(r, a, e, p)
<2> DEFINE row == CreateRun(a, ActorTier[a], e, p, "awaiting_approval")
<2>1. row.status = "awaiting_approval" /\ row.claimedBy = runs[r].claimedBy
  BY <1>1, <1>2, CreateRow DEF Status
<2>2. runs' = [runs EXCEPT ![r] = row]
  BY <1>4 DEF RequestForApproval
<2>3. [q \in Runs |-> approvals'[q].decision] =
        [[q \in Runs |-> approvals[q].decision] EXCEPT ![r] = "pending"]
  BY <1>1, <1>4 DEF RequestForApproval, CreateApproval, TypeOK
<2> HIDE DEF row
<2>4. Lifecycle!AdmitForApproval(r)
<3>1. /\ [q \in Runs |-> runs'[q].status] =
           [[q \in Runs |-> runs[q].status] EXCEPT ![r] = "awaiting_approval"]
      /\ [q \in Runs |-> runs'[q].claimedBy] = [q \in Runs |-> runs[q].claimedBy]
  BY <1>1, <2>1, <2>2, <2>3 DEF TypeOK
<3> QED
  BY <1>1, <2>1, <2>2, <2>3, <3>1 DEF Lifecycle!AdmitForApproval
<2> QED
  BY <2>4 DEF Lifecycle!LNext
<1> QED
  BY <1>3, <1>4

(* The request handler queues a run that needs no approval. *)
LEMMA RequestQueueRefines ==
  ASSUME IInv, NEW r \in Runs, RequestQueue(r)
  PROVE  Lifecycle!LNext
<1> DEFINE row == UpdateRunStatusSet(runs[r], "queued")
<1>1. row.status = "queued" /\ row.claimedBy = runs[r].claimedBy
  BY SetStatusRow DEF IInv, TypeOK, Status
<1>2. /\ runs' = [runs EXCEPT ![r] = row] /\ UNCHANGED approvals
      /\ runs[r].status = "policy_checked" /\ approvals[r].decision = "absent"
      /\ TypeOK
  BY DEF RequestQueue, UpdateRunStatusWhere, IInv, ApprovalInv
<1> HIDE DEF row
<1>3. Lifecycle!Queue(r)
<2>1. /\ [q \in Runs |-> runs'[q].status] =
           [[q \in Runs |-> runs[q].status] EXCEPT ![r] = "queued"]
      /\ [q \in Runs |-> runs'[q].claimedBy] = [q \in Runs |-> runs[q].claimedBy]
  BY <1>1, <1>2 DEF TypeOK
<2> QED
  BY <1>1, <1>2, <2>1 DEF Lifecycle!Queue
<1> QED
  BY <1>3 DEF Lifecycle!LNext

(* Winning the guarded UPDATE is the one decision. *)
LEMMA DecideApprovalRefines ==
  ASSUME IInv, NEW r \in Runs, NEW a \in Actors, NEW d \in {"approved", "denied"},
         DecideApproval(r, a, d)
  PROVE  Lifecycle!LNext
<1>1. [q \in Runs |-> approvals'[q].decision] =
        [[q \in Runs |-> approvals[q].decision] EXCEPT ![r] = d]
  BY DEF DecideApproval, DecideApprovalSet, IInv, TypeOK
<1>2. /\ UNCHANGED runs
      /\ runs[r].status = "awaiting_approval" /\ approvals[r].decision = "pending"
  BY DEF DecideApproval, DecideApprovalWhere, IInv, ApprovalInv
<1>3. Lifecycle!Decide(r)
  BY <1>1, <1>2 DEF Lifecycle!Decide
<1> QED
  BY <1>3 DEF Lifecycle!LNext

(* The run follows its decision. *)
LEMMA DecideTransitionRefines ==
  ASSUME IInv, NEW r \in Runs, DecideTransition(r)
  PROVE  Lifecycle!LNext
<1>1. /\ UNCHANGED approvals /\ runs[r].status = "awaiting_approval"
      /\ TypeOK
  BY DEF DecideTransition, UpdateRunStatusWhere, IInv
<1>2. ASSUME NEW s \in {"queued", "denied"}
      PROVE  LET row == UpdateRunStatusSet(runs[r], s) IN
             row.status = s /\ row.claimedBy = runs[r].claimedBy
  BY SetStatusRow DEF IInv, TypeOK, Status
<1>3. CASE approvals[r].decision = "approved"
<2> DEFINE row == UpdateRunStatusSet(runs[r], "queued")
<2>1. runs' = [runs EXCEPT ![r] = row]
  BY <1>3 DEF DecideTransition
<2>2. row.status = "queued" /\ row.claimedBy = runs[r].claimedBy
  BY <1>2
<2> HIDE DEF row
<2>3. Lifecycle!Queue(r)
<3>1. /\ [q \in Runs |-> runs'[q].status] =
           [[q \in Runs |-> runs[q].status] EXCEPT ![r] = "queued"]
      /\ [q \in Runs |-> runs'[q].claimedBy] = [q \in Runs |-> runs[q].claimedBy]
  BY <1>1, <1>3, <2>1, <2>2 DEF TypeOK
<3> QED
  BY <1>1, <1>3, <2>1, <2>2, <3>1 DEF Lifecycle!Queue
<2> QED
  BY <2>3 DEF Lifecycle!LNext
<1>4. CASE approvals[r].decision = "denied"
<2> DEFINE row == UpdateRunStatusSet(runs[r], "denied")
<2>1. runs' = [runs EXCEPT ![r] = row]
  BY <1>4 DEF DecideTransition
<2>2. row.status = "denied" /\ row.claimedBy = runs[r].claimedBy
  BY <1>2
<2> HIDE DEF row
<2>3. Lifecycle!Deny(r)
<3>1. /\ [q \in Runs |-> runs'[q].status] =
           [[q \in Runs |-> runs[q].status] EXCEPT ![r] = "denied"]
      /\ [q \in Runs |-> runs'[q].claimedBy] = [q \in Runs |-> runs[q].claimedBy]
  BY <1>1, <1>4, <2>1, <2>2 DEF TypeOK
<3> QED
  BY <1>1, <1>4, <2>1, <2>2, <3>1 DEF Lifecycle!Deny
<2> QED
  BY <2>3 DEF Lifecycle!LNext
<1> QED
  BY <1>3, <1>4 DEF DecideTransition

(* Worker.Work starts a queued run, or finds it started. *)
LEMMA WorkClaimRefines ==
  ASSUME IInv, NEW r \in Runs, WorkClaim(r)
  PROVE  [Lifecycle!LNext]_(Lifecycle!lvars)
<1>1. CASE UNCHANGED runs
  BY <1>1, Stutters DEF WorkClaim
<1>2. CASE /\ runs[r].status = "queued"
           /\ runs' = [runs EXCEPT ![r] = UpdateRunStatusSet(@, "executing")]
<2> DEFINE row == UpdateRunStatusSet(runs[r], "executing")
<2>1. row.status = "executing" /\ row.claimedBy = runs[r].claimedBy
  BY SetStatusRow DEF IInv, TypeOK, Status
<2>2. runs' = [runs EXCEPT ![r] = row] /\ UNCHANGED approvals /\ TypeOK
  BY <1>2 DEF WorkClaim, IInv
<2> HIDE DEF row
<2>3. Lifecycle!Start(r)
<3>1. /\ [q \in Runs |-> runs'[q].status] =
           [[q \in Runs |-> runs[q].status] EXCEPT ![r] = "executing"]
      /\ [q \in Runs |-> runs'[q].claimedBy] = [q \in Runs |-> runs[q].claimedBy]
  BY <1>2, <2>1, <2>2 DEF TypeOK
<3> QED
  BY <1>2, <2>1, <2>2, <3>1 DEF Lifecycle!Start
<2> QED
  BY <2>3 DEF Lifecycle!LNext
<1> QED
  BY <1>1, <1>2 DEF WorkClaim, UpdateRunStatusWhere

(* Every way of ending a run is the abstract Finish; one that nobody        *)
(* claimed fails.                                                          *)
LEMMA FinishRefines ==
  ASSUME TypeOK, NEW r \in Runs, NEW s \in Terminal, NEW row,
         runs[r].status = "executing",
         runs[r].claimedBy = NULL => s = "failed",
         row.status = s, row.claimedBy = runs[r].claimedBy,
         runs' = [runs EXCEPT ![r] = row], UNCHANGED approvals
  PROVE  Lifecycle!LNext
<1>1. Lifecycle!Finish(r)
  BY MovesStatus DEF Lifecycle!Finish, Lifecycle!Final, Terminal
<1> QED
  BY <1>1 DEF Lifecycle!LNext

(* failClosed ends an executing run, or finds it ended. *)
LEMMA WorkFailClosedRefines ==
  ASSUME IInv, NEW r \in Runs, WorkFailClosed(r)
  PROVE  [Lifecycle!LNext]_(Lifecycle!lvars)
<1>1. CASE UNCHANGED runs
  BY <1>1, Stutters DEF WorkFailClosed
<1>2. CASE /\ runs[r].status = "executing"
           /\ runs' = [runs EXCEPT ![r] = UpdateRunStatusSet(@, "failed")]
<2> DEFINE row == UpdateRunStatusSet(runs[r], "failed")
<2>1. row.status = "failed" /\ row.claimedBy = runs[r].claimedBy
  BY SetStatusRow DEF IInv, TypeOK, Status, Terminal
<2>2. runs' = [runs EXCEPT ![r] = row] /\ UNCHANGED approvals /\ TypeOK
  BY <1>2 DEF WorkFailClosed, IInv
<2>3. "failed" \in Terminal
  BY DEF Terminal
<2> HIDE DEF row
<2> QED
  BY <1>2, <2>1, <2>2, <2>3, FinishRefines
<1> QED
  BY <1>1, <1>2 DEF WorkFailClosed, UpdateRunStatusWhere

(* A report ends a claimed run. *)
LEMMA ReportResultRefines ==
  ASSUME IInv, NEW w \in Workers, NEW r \in Runs, NEW s \in Terminal,
         NEW ref \in CIRuns \cup {NULL}, ReportResult(w, r, s, ref)
  PROVE  Lifecycle!LNext
<1> DEFINE row == ReportRunResultSet(runs[r], s, ref)
<1>1. row.status = s /\ row.claimedBy = runs[r].claimedBy
  BY ReportRow DEF IInv, TypeOK
<1>2. /\ runs' = [runs EXCEPT ![r] = row] /\ UNCHANGED approvals /\ TypeOK
      /\ runs[r].status = "executing" /\ runs[r].claimedBy = w
  BY DEF ReportResult, ReportRunResultWhere, IInv
<1>3. w # NULL
  BY NullAssumption
<1> HIDE DEF row
<1> QED
  BY <1>1, <1>2, <1>3, FinishRefines

(* Store.Claim is the one claim. *)
LEMMA NextRunRefines ==
  ASSUME IInv, NEW w \in Workers, NextRun(w)
  PROVE  Lifecycle!LNext
<1>1. PICK r \in Runs : Claims(w, r)
  BY NextRunClaims DEF IInv
<1>2. /\ [q \in Runs |-> runs'[q].status] = [q \in Runs |-> runs[q].status]
      /\ [q \in Runs |-> runs'[q].claimedBy] =
           [[q \in Runs |-> runs[q].claimedBy] EXCEPT ![r] = w]
<2>1. runs' = [runs EXCEPT ![r] = ClaimSet(runs[r], w)]
  BY <1>1 DEF Claims
<2>2. /\ ClaimSet(runs[r], w).status = runs[r].status
      /\ ClaimSet(runs[r], w).claimedBy = w
      /\ runs \in [Runs -> RunRow]
  BY ClaimRow DEF IInv, TypeOK
<2> QED
  BY <2>1, <2>2
<1>3. /\ runs[r].status = "executing" /\ runs[r].claimedBy = NULL
      /\ UNCHANGED approvals
  BY <1>1 DEF Claims, ClaimNextExecutingRunWhere
<1>4. Lifecycle!Claim(r)
  BY <1>2, <1>3 DEF Lifecycle!Claim
<1> QED
  BY <1>4 DEF Lifecycle!LNext

(* The reference is no part of the abstract run. *)
LEMMA ResolveUpdateRefines ==
  ASSUME IInv, NEW k \in Calls, ResolveUpdate(k)
  PROVE  UNCHANGED Lifecycle!lvars
<1>1. CASE UNCHANGED runs
  BY <1>1, Stutters DEF ResolveUpdate
<1>2. CASE runs' = [runs EXCEPT ![calls[k].run] =
                      ResolveRunExternalRefSet(@, calls[k].ci)]
<2>1. /\ calls[k].run \in Runs /\ calls[k].ci \in CIRuns
      /\ runs \in [Runs -> RunRow] /\ UNCHANGED approvals
  BY DEF ResolveUpdate, IInv, TypeOK, CallInv, InCall
<2>2. /\ [q \in Runs |-> runs'[q].status] = [q \in Runs |-> runs[q].status]
      /\ [q \in Runs |-> runs'[q].claimedBy] = [q \in Runs |-> runs[q].claimedBy]
  BY <1>2, <2>1, ResolveRow
<2> QED
  BY <2>1, <2>2 DEF Lifecycle!lvars
<1> QED
  BY <1>1, <1>2 DEF ResolveUpdate

(* A denied mint ends the run, if its claimant relayed the callback. *)
LEMMA ResolveDenyRefines ==
  ASSUME IInv, NEW k \in Calls, ResolveDeny(k)
  PROVE  [Lifecycle!LNext]_(Lifecycle!lvars)
<1>1. CASE UNCHANGED runs
  BY <1>1, Stutters DEF ResolveDeny
<1> DEFINE r == calls[k].run
<1>2. CASE /\ runs[r].status = "executing"
           /\ runs' = [runs EXCEPT ![r] = ReportRunResultSet(@, "failed", calls[k].ci)]
<2> DEFINE row == ReportRunResultSet(runs[r], "failed", calls[k].ci)
<2>1. r \in Runs /\ calls[k].ci \in CIRuns /\ runs[r] \in RunRow /\ TypeOK
  BY DEF ResolveDeny, IInv, TypeOK, CallInv, InCall
<2>2. "failed" \in Terminal
  BY DEF Terminal
<2>3. runs' = [runs EXCEPT ![r] = row] /\ UNCHANGED approvals
  BY <1>2 DEF ResolveDeny
<2> HIDE DEF r
<2>4. row.status = "failed" /\ row.claimedBy = runs[r].claimedBy
  BY <2>1, <2>2, ReportRow
<2> HIDE DEF row
<2> QED
  BY <1>2, <2>1, <2>2, <2>3, <2>4, FinishRefines
<1> QED
  BY <1>1, <1>2 DEF ResolveDeny, ReportRunResultWhere

(* One case per action: the statement it performs is one abstract step, or *)
(* the abstract run does not see it.                                       *)
LEMMA NextRefines ==
  ASSUME IInv, [Next]_vars
  PROVE  [Lifecycle!LNext]_(Lifecycle!lvars)
<1>1. CASE UNCHANGED vars
  BY <1>1, Stutters DEF vars
<1>2. ASSUME NEW r \in Runs, RequestStep(r) \/ RequestInterrupted(r)
      PROVE  [Lifecycle!LNext]_(Lifecycle!lvars)
<2>1. CASE RequestQueue(r)
  BY <2>1, RequestQueueRefines
<2>2. CASE RequestEnqueue(r) \/ RequestAudit(r) \/ RequestInterrupted(r)
  BY <2>2, Stutters DEF RequestEnqueue, RequestAudit, RequestInterrupted
<2> QED
  BY <1>2, <2>1, <2>2 DEF RequestStep
<1>3. ASSUME NEW r \in Runs, DecideStep(r) \/ DecideInterrupted(r)
      PROVE  [Lifecycle!LNext]_(Lifecycle!lvars)
<2>1. CASE DecideTransition(r)
  BY <2>1, DecideTransitionRefines
<2>2. CASE DecideEnqueue(r) \/ DecideAudit(r) \/ DecideInterrupted(r)
  BY <2>2, Stutters DEF DecideEnqueue, DecideAudit, DecideInterrupted
<2> QED
  BY <1>3, <2>1, <2>2 DEF DecideStep
<1>4. ASSUME NEW r \in Runs, RiverStep(r) \/ WorkInterrupted(r)
      PROVE  [Lifecycle!LNext]_(Lifecycle!lvars)
<2>1. CASE WorkClaim(r) \/ WorkFailClosed(r)
  BY <2>1, WorkClaimRefines, WorkFailClosedRefines
<2>2. CASE RiverFetch(r) \/ WorkLoad(r) \/ WorkInterrupted(r)
  BY <2>2, Stutters DEF RiverFetch, WorkLoad, WorkInterrupted
<2> QED
  BY <1>4, <2>1, <2>2 DEF RiverStep
<1>5. ASSUME NEW k \in Calls, ResolveStep(k) \/ ResolveInterrupted(k)
      PROVE  [Lifecycle!LNext]_(Lifecycle!lvars)
<2>1. CASE ResolveUpdate(k) \/ ResolveDeny(k)
  BY <2>1, ResolveUpdateRefines, ResolveDenyRefines
<2>2. CASE ResolveMint(k) \/ ResolveReply(k) \/ ResolveInterrupted(k)
  BY <2>2, Stutters DEF ResolveMint, ResolveReply, ResolveInterrupted
<2> QED
  BY <1>5, <2>1, <2>2 DEF ResolveStep
<1>6. ASSUME NEW k \in Calls, NEW w \in Workers, NEW c \in CIRuns,
             ResolveFind(k, w, c)
      PROVE  UNCHANGED Lifecycle!lvars
  BY <1>6, Stutters DEF ResolveFind
<1> QED
  BY <1>1, <1>2, <1>3, <1>4, <1>5, <1>6, RequestRefines, DecideApprovalRefines,
     ReportResultRefines, NextRunRefines DEF Next

(* The handlers, the River job and the workers implement the run model, for *)
(* any number of runs, replicas' handlers, workers and interruptions.       *)
THEOREM Refinement == Spec => RefinesLifecycle
<1>1. Init => Lifecycle!LInit
  BY DEF Init, Lifecycle!LInit, NoRow, NoApproval
<1>2. IInv /\ [Next]_vars => [Lifecycle!LNext]_(Lifecycle!lvars)
  BY NextRefines
<1> QED
  BY <1>1, <1>2, Invariance, PTL DEF Spec, RefinesLifecycle, Lifecycle!LSpec
===============================================================================
