---------------------------- MODULE DeliveryProofs ----------------------------
(***************************************************************************)
(* Proof that a recorded success is real, that a claimed run is in         *)
(* somebody's hands as long as nothing failed, and that delivery moves a   *)
(* run as RunLifecycle says, for any runs, workers, workflow runs, targets *)
(* and number of faults.                                                   *)
(*                                                                         *)
(* The argument: a run is given to at most one workflow run while it       *)
(* executes, because its reference is recorded before the credentials are  *)
(* minted and is not taken back before the run ends (HolderInv).  So the   *)
(* poll that goes with those credentials is the only one of the run, and   *)
(* its report is the one the control plane accepts if its worker claimed   *)
(* the run; a poll has read what it reports from the workflow run whose    *)
(* credentials it goes with (TicketInv).                                   *)
(***************************************************************************)
EXTENDS Delivery, TLAPS

(* A run is claimed only once it executes. *)
RowInv == \A r \in Runs : runs[r].status = "queued" => runs[r].claimedBy = NULL

(* A workflow run that nobody started has no traces; one that was started   *)
(* for a run was started by its claimant; how one ends is remembered.       *)
WorkflowInv ==
  \A c \in CIRuns :
    /\ ci[c].state = "none" =>
         ci[c].for = NULL /\ ci[c].concluded = {} /\ cb[c].pc = "none"
    /\ ci[c].state \in Conclusions => ci[c].state \in ci[c].concluded
    /\ ci[c].for # NULL => runs[ci[c].for].claimedBy # NULL

(* What a poll loop has in its hand it has claimed. *)
HandInv ==
  \A w \in Workers :
    /\ hand[w].pc = "idle" <=> hand[w].run = NULL
    /\ hand[w].run # NULL => runs[hand[w].run].claimedBy = w

(* A callback that has found a run remembers one that executes or has ended. *)
CallbackInv ==
  \A c \in CIRuns :
    /\ cb[c].pc \in {"find", "update", "mint"} => cb[c].worker \in Workers
    /\ cb[c].pc \in {"update", "mint"} =>
         cb[c].run \in Runs /\ runs[cb[c].run].status # "queued"

(* Credentials go to workflow runs that were started, for runs that execute *)
(* or have ended; a poll goes with credentials, and what it is about to     *)
(* report has happened.                                                     *)
TicketInv ==
  /\ \A m \in minted : ci[m[1]].state # "none" /\ runs[m[3]].status # "queued"
  /\ \A c \in CIRuns, r \in Runs :
       /\ poll[<<c, r>>].pc # "none" => <<c, poll[<<c, r>>].worker, r>> \in minted
       /\ poll[<<c, r>>].pc = "report" =>
            /\ poll[<<c, r>>].result.status \in Terminal
            /\ poll[<<c, r>>].result.status = "succeeded" => "success" \in ci[c].concluded

(* While a run executes, at most one workflow run has its credentials or is *)
(* about to get them, and it is the one recorded.                           *)
HolderInv ==
  \A r \in Runs : runs[r].status = "executing" =>
    /\ \A m \in minted : m[3] = r => runs[r].extRef = m[1]
    /\ \A m, n \in minted : m[3] = r /\ n[3] = r => m = n
    /\ \A c \in CIRuns : cb[c].pc = "mint" /\ cb[c].run = r =>
         runs[r].extRef = c /\ \A m \in minted : m[3] # r

IInv ==
  /\ TypeOK /\ RowInv /\ WorkflowInv /\ HandInv /\ CallbackInv /\ TicketInv
  /\ HolderInv /\ SuccessIsReal /\ InHand

-------------------------------------------------------------------------------
(* What the statements of RunTable write to a row of this module.           *)

LEMMA SetStatusRow ==
  ASSUME NEW row \in RunRow, NEW new \in {"queued", "executing"} \cup Terminal
  PROVE  LET after == UpdateRunStatusSet(row, new) IN
         /\ after \in RunRow /\ after.status = new
         /\ after.claimedBy = row.claimedBy /\ after.extRef = row.extRef
  BY ZenonT(60) DEF UpdateRunStatusSet, RunRow, Timestamps

LEMMA ClaimRow ==
  ASSUME NEW row \in RunRow, NEW w \in Workers
  PROVE  LET after == ClaimSet(row, w) IN
         /\ after \in RunRow /\ after.claimedBy = w
         /\ after.status = row.status /\ after.extRef = row.extRef
  BY DEF ClaimSet, RunRow

LEMMA ReportRow ==
  ASSUME NEW row \in RunRow, NEW new \in Terminal, NEW ref \in CIRuns \cup {NULL}
  PROVE  LET after == ReportRunResultSet(row, new, ref) IN
         /\ after \in RunRow /\ after.status = new /\ after.extRef = ref
         /\ after.claimedBy = row.claimedBy
  BY ZenonT(60) DEF ReportRunResultSet, RunRow, Timestamps

LEMMA ResolveRow ==
  ASSUME NEW row \in RunRow, NEW ref \in CIRuns
  PROVE  LET after == ResolveRunExternalRefSet(row, ref) IN
         /\ after \in RunRow /\ after.extRef = ref
         /\ after.status = row.status /\ after.claimedBy = row.claimedBy
  BY DEF ResolveRunExternalRefSet, RunRow

LEMMA InitIInv == Init => IInv
<1> SUFFICES ASSUME Init PROVE IInv
  OBVIOUS
<1>1. /\ \A r \in Runs : CreateRun(NULL, NULL, "env", r, "queued") \in RunRow
      /\ \A r \in Runs : /\ CreateRun(NULL, NULL, "env", r, "queued").status = "queued"
                         /\ CreateRun(NULL, NULL, "env", r, "queued").claimedBy = NULL
  BY DEF CreateRun, NoRow, RunRow, Timestamps
<1>2. TypeOK
  BY <1>1, BoundsAssumption
  DEF Init, TypeOK, Idle, Hand, NoCIRun, CIRun, NoCallback, Callback, NoPoll, NoResult, Poll, RunResult
<1>3. RowInv /\ WorkflowInv /\ HandInv /\ CallbackInv
  BY <1>1, NoNullAssumption, SubsetAssumption
  DEF Init, RowInv, WorkflowInv, HandInv, CallbackInv, Idle, NoCIRun, NoCallback
<1>4. TicketInv /\ HolderInv
  BY <1>1 DEF Init, TicketInv, HolderInv, NoPoll, NoCallback
<1>5. SuccessIsReal /\ InHand
  BY <1>1 DEF Init, SuccessIsReal, InHand
<1> QED BY <1>2, <1>3, <1>4, <1>5 DEF IInv

-------------------------------------------------------------------------------
(* Worker.Work: nobody has a run that is still queued. *)
LEMMA HandOverStep ==
  ASSUME IInv, NEW r \in Runs, HandOver(r)
  PROVE  IInv'
<1> DEFINE row == UpdateRunStatusSet(runs[r], "executing")
<1>1. /\ row \in RunRow /\ row.status = "executing" /\ row.claimedBy = runs[r].claimedBy
      /\ runs[r].status = "queued" /\ runs[r].claimedBy = NULL
  BY SetStatusRow DEF IInv, TypeOK, RowInv, HandOver, UpdateRunStatusWhere
<1>2. /\ runs' = [runs EXCEPT ![r] = row] /\ runs \in [Runs -> RunRow]
      /\ UNCHANGED <<hand, ci, cb, poll, minted, faults>>
  BY DEF IInv, TypeOK, HandOver
<1> HIDE DEF row
<1>3. /\ runs'[r] = row
      /\ \A q \in Runs : q # r => runs'[q] = runs[q]
      /\ \A q \in Runs : runs'[q].claimedBy = runs[q].claimedBy
  BY <1>1, <1>2
<1>4. TypeOK'
  BY <1>1, <1>2 DEF IInv, TypeOK
<1>5. RowInv' /\ CallbackInv'
  BY <1>1, <1>2, <1>3 DEF IInv, RowInv, CallbackInv
<1>6. WorkflowInv' /\ HandInv'
  BY <1>2, <1>3, NoNullAssumption DEF IInv, TypeOK, WorkflowInv, HandInv, CIRun, Hand
<1>7. TicketInv'
  BY <1>1, <1>2, <1>3 DEF IInv, TypeOK, TicketInv
<1>8. HolderInv'
  <2>1. /\ \A m \in minted : m[3] # r
        /\ \A c \in CIRuns : ~(cb[c].pc = "mint" /\ cb[c].run = r)
    BY <1>1 DEF IInv, TicketInv, CallbackInv
  <2> QED BY <1>2, <1>3, <2>1 DEF IInv, HolderInv
<1>9. SuccessIsReal'
  BY <1>1, <1>2, <1>3 DEF IInv, SuccessIsReal
<1>10. InHand'
  <2>1. \A m \in minted : m[3] # r
    BY <1>1 DEF IInv, TicketInv
  <2> QED BY <1>1, <1>2, <1>3, <2>1 DEF IInv, InHand
<1> QED BY <1>4, <1>5, <1>6, <1>7, <1>8, <1>9, <1>10 DEF IInv

(* The claim of a run that no workflow run was started for yet. *)
LEMMA NextRunStep ==
  ASSUME IInv, NEW w \in Workers, NextRun(w)
  PROVE  IInv'
<1>1. PICK r \in Runs :
        /\ runs[r].status = "executing" /\ runs[r].claimedBy = NULL
        /\ runs' = [runs EXCEPT ![r] = ClaimSet(@, w)]
        /\ \/ hand' = [hand EXCEPT ![w] = [pc |-> "token", run |-> r]] /\ UNCHANGED faults
           \/ UNCHANGED hand /\ Fault
  BY DEF IInv, TypeOK, NextRun, ClaimNextExecutingRun, ClaimNextExecutingRunWhere, Outcome
<1> DEFINE row == ClaimSet(runs[r], w)
<1>2. /\ row \in RunRow /\ row.status = "executing" /\ row.claimedBy = w
      /\ row.extRef = runs[r].extRef
      /\ runs' = [runs EXCEPT ![r] = row] /\ runs \in [Runs -> RunRow]
      /\ UNCHANGED <<ci, cb, poll, minted>> /\ hand[w].pc = "idle" /\ hand[w].run = NULL
  BY <1>1, ClaimRow DEF IInv, TypeOK, HandInv, NextRun
<1> HIDE DEF row
<1>3. /\ runs'[r] = row
      /\ \A q \in Runs : q # r => runs'[q] = runs[q]
      /\ \A q \in Runs : /\ runs'[q].status = runs[q].status
                         /\ runs'[q].extRef = runs[q].extRef
  BY <1>1, <1>2
<1>4. TypeOK'
  <2>1. hand' \in [Workers -> Hand]
    BY <1>1 DEF IInv, TypeOK, Hand
  <2>2. faults' \in 0..MaxFaults
    BY <1>1, BoundsAssumption DEF IInv, TypeOK, Fault
  <2> QED BY <1>2, <2>1, <2>2 DEF IInv, TypeOK
<1>5. RowInv' /\ CallbackInv'
  BY <1>1, <1>2, <1>3 DEF IInv, RowInv, CallbackInv
<1>6. WorkflowInv'
  BY <1>2, <1>3, NoNullAssumption DEF IInv, TypeOK, WorkflowInv, CIRun
<1>7. HandInv'
  <2>1. \A v \in Workers : hand[v].run # NULL => hand[v].run \in Runs /\ hand[v].run # r
    BY <1>1, NoNullAssumption DEF IInv, TypeOK, HandInv, Hand
  <2>2. CASE hand' = [hand EXCEPT ![w] = [pc |-> "token", run |-> r]]
    BY <1>2, <1>3, <2>1, <2>2, NoNullAssumption DEF IInv, TypeOK, HandInv
  <2>3. CASE UNCHANGED hand
    BY <1>2, <1>3, <2>1, <2>3 DEF IInv, TypeOK, HandInv
  <2> QED BY <1>1, <2>2, <2>3
<1>8. TicketInv' /\ HolderInv'
  BY <1>2, <1>3 DEF IInv, TypeOK, TicketInv, HolderInv
<1>9. SuccessIsReal'
  BY <1>1, <1>2, <1>3 DEF IInv, SuccessIsReal
<1>10. InHand'
  <2> SUFFICES ASSUME faults' = 0 PROVE InHand'
    BY DEF InHand
  <2>1. /\ hand' = [hand EXCEPT ![w] = [pc |-> "token", run |-> r]]
        /\ faults = 0
    BY <1>1, BoundsAssumption DEF IInv, TypeOK, Fault
  <2>2. \A c \in CIRuns : ci[c].for # r
    BY <1>1, NoNullAssumption DEF IInv, WorkflowInv
  <2>3. ASSUME NEW q \in Runs, runs'[q].status = "executing", runs'[q].claimedBy # NULL
        PROVE  hand'[runs'[q].claimedBy].run = q \/ \E c \in CIRuns : ci'[c].for = q
    <3>1. CASE q = r
      BY <1>2, <1>3, <2>1, <3>1 DEF IInv, TypeOK
    <3>2. CASE q # r
      <4>1. hand[runs[q].claimedBy].run = q \/ \E c \in CIRuns : ci[c].for = q
        BY <1>3, <2>1, <2>3, <3>2 DEF IInv, InHand
      <4>2. q # NULL /\ runs[q].claimedBy \in Workers
        BY <1>3, <2>3, <3>2, NoNullAssumption DEF IInv, TypeOK, RunRow
      <4> QED BY <1>2, <1>3, <2>1, <3>2, <4>1, <4>2 DEF IInv, TypeOK
    <3> QED BY <3>1, <3>2
  <2>4. ASSUME NEW q \in Runs, runs'[q].status = "executing", NEW m \in minted',
               m[3] = q /\ m[2] = runs'[q].claimedBy /\ ci'[m[1]].for = q
        PROVE  poll'[<<m[1], q>>].pc # "none"
    BY <1>2, <1>3, <2>1, <2>2, <2>4 DEF IInv, TypeOK, InHand
  <2> QED BY <2>3, <2>4 DEF InHand
<1> QED BY <1>4, <1>5, <1>6, <1>7, <1>8, <1>9, <1>10 DEF IInv

LEMMA InstallationTokenStep ==
  ASSUME IInv, NEW w \in Workers, InstallationToken(w)
  PROVE  IInv'
<1>1. PICK pc \in {"trigger", "report"} :
        hand' = [hand EXCEPT ![w].pc = pc] /\ hand[w].pc = "token"
  BY DEF InstallationToken, Outcome
<1>2. faults' \in 0..MaxFaults /\ (faults' = 0 => faults = 0)
  BY BoundsAssumption DEF IInv, TypeOK, InstallationToken, Outcome, Fault
<1>3. UNCHANGED <<runs, ci, cb, poll, minted>>
  BY DEF InstallationToken
<1>4. TypeOK'
  <2>1. hand' \in [Workers -> Hand]
    BY <1>1 DEF IInv, TypeOK, Hand
  <2> QED BY <1>2, <1>3, <2>1 DEF IInv, TypeOK
<1>5. \A v \in Workers : hand'[v].run = hand[v].run /\ (hand'[v].pc = "idle" <=> hand[v].pc = "idle")
  BY <1>1 DEF IInv, TypeOK, Hand
<1>6. HandInv'
  BY <1>3, <1>5 DEF IInv, TypeOK, HandInv
<1>7. (RowInv /\ WorkflowInv /\ CallbackInv /\ TicketInv /\ HolderInv /\ SuccessIsReal)'
  BY <1>3 DEF IInv, RowInv, WorkflowInv, CallbackInv, TicketInv, HolderInv, SuccessIsReal
<1>8. InHand'
  BY <1>2, <1>3, <1>5 DEF IInv, TypeOK, InHand, RunRow
<1> QED BY <1>4, <1>6, <1>7, <1>8 DEF IInv

(* workflow_dispatch leaves a workflow run behind that is for the run, or a  *)
(* fault.                                                                    *)
LEMMA TriggerStep ==
  ASSUME IInv, NEW w \in Workers, Trigger(w)
  PROVE  IInv'
<1> DEFINE q == hand[w].run
<1>1. /\ q \in Runs /\ q # NULL /\ runs[q].claimedBy = w /\ hand[w].pc = "trigger"
      /\ UNCHANGED <<runs, cb, poll, minted>>
  BY DEF IInv, TypeOK, HandInv, Trigger, Hand
<1>2. \/ hand' = [hand EXCEPT ![w] = Idle]
      \/ hand' = [hand EXCEPT ![w].pc = "report"]
  BY DEF Trigger, Outcome
<1>3. /\ faults' \in 0..MaxFaults /\ (faults' = 0 => faults = 0)
      /\ faults' = 0 => /\ \E c \in CIRuns : Dispatched(c, q)
                        /\ hand' = [hand EXCEPT ![w] = Idle]
  BY BoundsAssumption DEF IInv, TypeOK, Trigger, Outcome, Fault
<1>4. \/ UNCHANGED ci
      \/ \E c \in CIRuns : Dispatched(c, q)
  BY DEF Trigger, Outcome
<1>5. /\ \A v \in Workers : v # w => hand'[v] = hand[v]
      /\ hand'[w].run = NULL \/ hand'[w].run = q
      /\ hand'[w].pc = "idle" <=> hand'[w].run = NULL
  BY <1>1, <1>2 DEF IInv, TypeOK, Hand, Idle
<1>6. HandInv'
  BY <1>1, <1>5 DEF IInv, HandInv
<1>7. (RowInv /\ CallbackInv /\ HolderInv)'
  BY <1>1 DEF IInv, RowInv, CallbackInv, HolderInv
<1>8. hand' \in [Workers -> Hand]
  BY <1>2 DEF IInv, TypeOK, Hand, Idle
<1>9. CASE UNCHANGED ci
  <2>1. (TypeOK /\ WorkflowInv /\ TicketInv /\ SuccessIsReal)'
    BY <1>1, <1>3, <1>8, <1>9 DEF IInv, TypeOK, WorkflowInv, TicketInv, SuccessIsReal
  <2>2. InHand'
    <3> SUFFICES ASSUME faults' = 0 PROVE FALSE
      BY DEF InHand
    <3>1. PICK c \in CIRuns : Dispatched(c, q)
      BY <1>3
    <3>2. ci'[c].state = "queued" /\ ci[c].state = "none"
      BY <3>1 DEF Dispatched, IInv, TypeOK, NoCIRun
    <3> QED BY <3>2, <1>9
  <2> QED BY <1>6, <1>7, <2>1, <2>2 DEF IInv
<1>10. ASSUME NEW c \in CIRuns, Dispatched(c, q) PROVE IInv'
  <2> DEFINE new == [NoCIRun EXCEPT !.state = "queued", !.target = RunTarget[q], !.for = q]
  <2>1. /\ new \in CIRun /\ new.state = "queued" /\ new.for = q
        /\ ci' = [ci EXCEPT ![c] = new] /\ ci[c].state = "none"
        /\ ci[c].for = NULL /\ ci[c].concluded = {}
    BY <1>1, <1>10 DEF Dispatched, NoCIRun, CIRun, Targets, IInv, WorkflowInv
  <2>2. "queued" \notin Conclusions
    BY SubsetAssumption
  <2> HIDE DEF new
  <2>3. /\ ci'[c] = new
        /\ \A d \in CIRuns : d # c => ci'[d] = ci[d]
    BY <2>1 DEF IInv, TypeOK
  <2>4. (TypeOK /\ WorkflowInv)'
    BY <1>1, <1>3, <1>8, <2>1, <2>2, <2>3, NoNullAssumption DEF IInv, TypeOK, WorkflowInv
  <2>5. \A m \in minted : m[1] # c
    BY <2>1 DEF IInv, TicketInv
  <2>6. \A d \in CIRuns : "success" \in ci[d].concluded => d # c
    BY <2>1
  <2>7. (TicketInv /\ SuccessIsReal)'
    BY <1>1, <2>3, <2>5, <2>6 DEF IInv, TypeOK, TicketInv, SuccessIsReal
  <2>8. InHand'
    <3> SUFFICES ASSUME faults' = 0 PROVE InHand'
      BY DEF InHand
    <3>1. faults = 0
      BY <1>3
    <3>2. ASSUME NEW r \in Runs, runs'[r].status = "executing", runs'[r].claimedBy # NULL
          PROVE  hand'[runs'[r].claimedBy].run = r \/ \E d \in CIRuns : ci'[d].for = r
      <4>1. CASE r = q
        BY <2>1, <2>3, <4>1
      <4>2. CASE r # q
        <5>1. runs[r].claimedBy \in Workers /\ r # NULL
          BY <1>1, <3>2, NoNullAssumption DEF IInv, TypeOK, RunRow
        <5>2. hand[runs[r].claimedBy].run = r \/ \E d \in CIRuns : ci[d].for = r
          BY <1>1, <3>1, <3>2 DEF IInv, InHand
        <5>3. hand[runs[r].claimedBy].run = r => runs[r].claimedBy # w
          BY <4>2
        <5> QED BY <1>1, <1>5, <2>1, <2>3, <5>1, <5>2, <5>3
      <4> QED BY <4>1, <4>2
    <3>3. ASSUME NEW r \in Runs, runs'[r].status = "executing", NEW m \in minted',
                 m[3] = r /\ m[2] = runs'[r].claimedBy /\ ci'[m[1]].for = r
          PROVE  poll'[<<m[1], r>>].pc # "none"
      BY <1>1, <2>3, <2>5, <3>1, <3>3 DEF IInv, TypeOK, InHand
    <3> QED BY <3>2, <3>3 DEF InHand
  <2> QED BY <1>6, <1>7, <2>4, <2>7, <2>8 DEF IInv
<1> QED BY <1>4, <1>9, <1>10

(* What the control plane does with a report: the run it ends was executing  *)
(* and the worker's own, or nothing happens.                                 *)
LEMMA ReportOutcome ==
  ASSUME IInv, NEW w \in Workers, NEW r \in Runs, NEW s \in Terminal,
         NEW ref \in CIRuns \cup {NULL}, ReportRunResult(w, r, s, ref)
  PROVE  /\ runs' \in [Runs -> RunRow]
         /\ faults' \in 0..MaxFaults /\ (faults' = 0 => faults = 0)
         /\ \A q \in Runs : /\ runs'[q].claimedBy = runs[q].claimedBy
                            /\ q # r => runs'[q] = runs[q]
         /\ \/ /\ runs[r].claimedBy = w /\ runs[r].status = "executing"
               /\ runs'[r].status = s
            \/ /\ runs' = runs
               /\ faults' = 0 => runs[r].claimedBy # w \/ runs[r].status # "executing"
<1>1. CASE /\ ReportRunResultWhere(runs[r], w)
           /\ runs' = [runs EXCEPT ![r] = ReportRunResultSet(@, s, ref)]
           /\ UNCHANGED faults
  <2> DEFINE row == ReportRunResultSet(runs[r], s, ref)
  <2>1. /\ row \in RunRow /\ row.status = s /\ row.claimedBy = runs[r].claimedBy
        /\ runs' = [runs EXCEPT ![r] = row] /\ runs \in [Runs -> RunRow]
    BY <1>1, ReportRow DEF IInv, TypeOK
  <2> HIDE DEF row
  <2> QED BY <1>1, <2>1 DEF ReportRunResultWhere, IInv, TypeOK
<1>2. CASE UNCHANGED runs /\ Fault
  BY <1>2, BoundsAssumption DEF IInv, TypeOK, Fault
<1>3. CASE ~ReportRunResultWhere(runs[r], w) /\ UNCHANGED <<runs, faults>>
  BY <1>3 DEF IInv, TypeOK, ReportRunResultWhere
<1> QED BY <1>1, <1>2, <1>3 DEF ReportRunResult

(* A report ends a run or not; what rests on rows only goes on to hold. *)
LEMMA ReportFrame ==
  ASSUME IInv, NEW w \in Workers, NEW r \in Runs, NEW s \in Terminal,
         NEW ref \in CIRuns \cup {NULL}, ReportRunResult(w, r, s, ref),
         UNCHANGED <<ci, cb, minted>>
  PROVE  /\ (RowInv /\ WorkflowInv /\ CallbackInv /\ HolderInv)'
         /\ \A m \in minted : runs'[m[3]].status # "queued"
<1>1. /\ \A q \in Runs : /\ runs'[q].claimedBy = runs[q].claimedBy
                         /\ q # r => runs'[q] = runs[q]
      /\ runs'[r] = runs[r] \/ runs'[r].status = s
  BY ReportOutcome
<1>2. s # "queued" /\ s # "executing"
  BY DEF Terminal
<1>3. (RowInv /\ CallbackInv)'
  BY <1>1, <1>2 DEF IInv, RowInv, CallbackInv
<1>4. WorkflowInv'
  BY <1>1, NoNullAssumption DEF IInv, TypeOK, WorkflowInv, CIRun
<1>5. HolderInv'
  BY <1>1, <1>2 DEF IInv, HolderInv
<1>6. \A m \in minted : runs'[m[3]].status # "queued"
  BY <1>1, <1>2 DEF IInv, TypeOK, TicketInv
<1> QED BY <1>3, <1>4, <1>5, <1>6

(* A failed dispatch is reported, and the hand is empty again. *)
LEMMA FailRunDispatchStep ==
  ASSUME IInv, NEW w \in Workers, FailRunDispatch(w)
  PROVE  IInv'
<1> DEFINE q == hand[w].run
<1>1. /\ q \in Runs /\ q # NULL /\ runs[q].claimedBy = w
      /\ ReportRunResult(w, q, "failed", NULL)
      /\ hand' = [hand EXCEPT ![w] = Idle]
      /\ UNCHANGED <<ci, cb, poll, minted>>
  BY DEF IInv, TypeOK, HandInv, FailRunDispatch, Hand
<1> HIDE DEF q
<1>2. "failed" \in Terminal /\ "failed" # "succeeded" /\ "failed" # "executing"
  BY DEF Terminal
<1>3. /\ runs' \in [Runs -> RunRow]
      /\ faults' \in 0..MaxFaults /\ (faults' = 0 => faults = 0)
      /\ \A r \in Runs : /\ runs'[r].claimedBy = runs[r].claimedBy
                         /\ r # q => runs'[r] = runs[r]
      /\ \/ runs[q].status = "executing" /\ runs'[q].status = "failed"
         \/ /\ runs' = runs
            /\ faults' = 0 => runs[q].status # "executing"
  BY <1>1, <1>2, ReportOutcome
<1>4. /\ (RowInv /\ WorkflowInv /\ CallbackInv /\ HolderInv)'
      /\ \A m \in minted : runs'[m[3]].status # "queued"
  BY <1>1, <1>2, ReportFrame
<1>5. /\ \A v \in Workers : v # w => hand'[v] = hand[v]
      /\ hand'[w].pc = "idle" /\ hand'[w].run = NULL
      /\ hand' \in [Workers -> Hand]
  BY <1>1 DEF IInv, TypeOK, Hand, Idle
<1>6. TypeOK'
  BY <1>1, <1>3, <1>5 DEF IInv, TypeOK
<1>7. HandInv'
  BY <1>3, <1>5 DEF IInv, TypeOK, HandInv, Hand
<1>8. TicketInv'
  BY <1>1, <1>4 DEF IInv, TicketInv
<1>9. SuccessIsReal'
  BY <1>1, <1>2, <1>3 DEF IInv, SuccessIsReal
<1>10. InHand'
  <2> SUFFICES ASSUME faults' = 0 PROVE InHand'
    BY DEF InHand
  <2>1. /\ faults = 0 /\ runs'[q].status # "executing"
    BY <1>2, <1>3
  <2>2. ASSUME NEW r \in Runs, runs'[r].status = "executing", runs'[r].claimedBy # NULL
        PROVE  hand'[runs'[r].claimedBy].run = r \/ \E d \in CIRuns : ci'[d].for = r
    <3>1. r # q /\ runs'[r] = runs[r]
      BY <1>3, <2>1, <2>2
    <3>2. hand[runs[r].claimedBy].run = r \/ \E d \in CIRuns : ci[d].for = r
      BY <2>1, <2>2, <3>1 DEF IInv, InHand
    <3>3. hand[runs[r].claimedBy].run = r => runs[r].claimedBy # w
      BY <3>1 DEF q
    <3>4. runs[r].claimedBy \in Workers
      BY <2>2, <3>1 DEF IInv, TypeOK, RunRow
    <3> QED BY <1>1, <1>5, <3>1, <3>2, <3>3, <3>4
  <2>3. ASSUME NEW r \in Runs, runs'[r].status = "executing", NEW m \in minted',
               m[3] = r /\ m[2] = runs'[r].claimedBy /\ ci'[m[1]].for = r
        PROVE  poll'[<<m[1], r>>].pc # "none"
    <3>1. r # q /\ runs'[r] = runs[r]
      BY <1>3, <2>1, <2>3
    <3> QED BY <1>1, <2>1, <2>3, <3>1 DEF IInv, InHand
  <2> QED BY <2>2, <2>3 DEF InHand
<1> QED BY <1>4, <1>6, <1>7, <1>8, <1>9, <1>10 DEF IInv

-------------------------------------------------------------------------------
(* GitHub moves workflow runs on: none disappears, no conclusion is          *)
(* forgotten, and none changes the run it was started for.                   *)
LEMMA GitHubFrame ==
  ASSUME IInv, NEW c \in CIRuns, NEW new \in CIRun, ci' = [ci EXCEPT ![c] = new],
         new.for = ci[c].for, ci[c].concluded \subseteq new.concluded,
         new.state # "none",
         new.state \in Conclusions => new.state \in new.concluded,
         cb' \in [CIRuns -> Callback],
         \A d \in CIRuns : cb'[d] = cb[d] \/ cb'[d] = NoCallback,
         UNCHANGED <<runs, hand, poll, minted, faults>>
  PROVE  IInv'
<1>1. /\ ci'[c] = new
      /\ \A d \in CIRuns : d # c => ci'[d] = ci[d]
      /\ \A d \in CIRuns : ci'[d].for = ci[d].for
  BY DEF IInv, TypeOK
<1>2. (TypeOK /\ RowInv /\ HandInv)'
  BY DEF IInv, TypeOK, RowInv, HandInv
<1>3. WorkflowInv'
  BY <1>1 DEF IInv, WorkflowInv, NoCallback
<1>4. CallbackInv'
  BY DEF IInv, CallbackInv, NoCallback
<1>5. TicketInv'
  BY <1>1 DEF IInv, TypeOK, TicketInv
<1>6. HolderInv'
  BY DEF IInv, HolderInv, NoCallback
<1>7. SuccessIsReal'
  <2>1. \A d \in CIRuns : "success" \in ci[d].concluded => "success" \in ci'[d].concluded
    BY <1>1
  <2> QED BY <2>1 DEF IInv, SuccessIsReal
<1>8. InHand'
  <2>1. \A m \in minted : ci'[m[1]].for = ci[m[1]].for
    BY <1>1 DEF IInv, TypeOK
  <2> QED BY <1>1, <2>1 DEF IInv, InHand
<1> QED BY <1>2, <1>3, <1>4, <1>5, <1>6, <1>7, <1>8 DEF IInv

LEMMA StartStep ==
  ASSUME IInv, NEW c \in CIRuns, Start(c)
  PROVE  IInv'
<1> DEFINE new == [ci[c] EXCEPT !.state = "in_progress"]
<1>1. /\ new \in CIRun /\ new.for = ci[c].for /\ new.concluded = ci[c].concluded
      /\ new.state = "in_progress"
      /\ ci' = [ci EXCEPT ![c] = new]
  BY DEF IInv, TypeOK, Start, CIRun
<1>2. "in_progress" \notin Conclusions
  BY SubsetAssumption
<1>3. cb' \in [CIRuns -> Callback] /\ UNCHANGED <<runs, hand, cb, poll, minted, faults>>
  BY DEF IInv, TypeOK, Start
<1> HIDE DEF new
<1> QED BY <1>1, <1>2, <1>3, GitHubFrame

LEMMA ConcludeStep ==
  ASSUME IInv, NEW c \in CIRuns, NEW x \in Conclusions, Conclude(c, x)
  PROVE  IInv'
<1> DEFINE new == [ci[c] EXCEPT !.state = x, !.concluded = @ \cup {x}]
<1>1. /\ new \in CIRun /\ new.for = ci[c].for /\ new.concluded = ci[c].concluded \cup {x}
      /\ new.state = x
      /\ ci' = [ci EXCEPT ![c] = new]
  BY DEF IInv, TypeOK, Conclude, CIRun
<1>2. x # "none"
  BY SubsetAssumption
<1>3. cb' \in [CIRuns -> Callback] /\ UNCHANGED <<runs, hand, cb, poll, minted, faults>>
  BY DEF IInv, TypeOK, Conclude
<1> HIDE DEF new
<1> QED BY <1>1, <1>2, <1>3, GitHubFrame

LEMMA RerunStep ==
  ASSUME IInv, NEW c \in CIRuns, Rerun(c)
  PROVE  IInv'
<1> DEFINE new == [ci[c] EXCEPT !.state = "queued", !.rerun = TRUE]
<1>1. /\ new \in CIRun /\ new.for = ci[c].for /\ new.concluded = ci[c].concluded
      /\ new.state = "queued"
      /\ ci' = [ci EXCEPT ![c] = new]
  BY DEF IInv, TypeOK, Rerun, CIRun
<1>2. "queued" \notin Conclusions
  BY SubsetAssumption
<1>3. /\ cb' \in [CIRuns -> Callback]
      /\ \A d \in CIRuns : cb'[d] = cb[d] \/ cb'[d] = NoCallback
      /\ UNCHANGED <<runs, hand, poll, minted, faults>>
  BY DEF IInv, TypeOK, Rerun, NoCallback, Callback
<1> HIDE DEF new
<1> QED BY <1>1, <1>2, <1>3, GitHubFrame

LEMMA PushStep ==
  ASSUME IInv, NEW c \in CIRuns, Push(c)
  PROVE  IInv'
<1>1. PICK t \in Targets :
        ci' = [ci EXCEPT ![c] = [NoCIRun EXCEPT !.state = "queued", !.target = t]]
  BY DEF Push
<1> DEFINE new == [NoCIRun EXCEPT !.state = "queued", !.target = t]
<1>2. /\ new \in CIRun /\ new.for = NULL /\ new.concluded = {} /\ new.state = "queued"
      /\ ci' = [ci EXCEPT ![c] = new] /\ ci[c].for = NULL /\ ci[c].concluded = {}
  BY <1>1 DEF IInv, Push, NoCIRun, CIRun, WorkflowInv
<1>3. "queued" \notin Conclusions
  BY SubsetAssumption
<1>4. cb' \in [CIRuns -> Callback] /\ UNCHANGED <<runs, hand, cb, poll, minted, faults>>
  BY DEF IInv, TypeOK, Push
<1> HIDE DEF new
<1> QED BY <1>2, <1>3, <1>4, GitHubFrame

-------------------------------------------------------------------------------
(* A callback handler moves on without minting. *)
LEMMA CallbackFrame ==
  ASSUME IInv, NEW c \in CIRuns, NEW new \in Callback, cb' = [cb EXCEPT ![c] = new],
         ci[c].state # "none",
         new.pc \in {"find", "update", "mint"} => new.worker \in Workers,
         new.pc \in {"update", "mint"} =>
           new.run \in Runs /\ runs[new.run].status # "queued",
         new.pc # "mint", UNCHANGED <<runs, hand, ci, poll, minted>>,
         faults' \in 0..MaxFaults, faults' = 0 => faults = 0
  PROVE  IInv'
<1>1. cb'[c] = new /\ \A d \in CIRuns : d # c => cb'[d] = cb[d]
  BY DEF IInv, TypeOK
<1>2. (TypeOK /\ RowInv /\ HandInv)'
  BY DEF IInv, TypeOK, RowInv, HandInv
<1>3. (WorkflowInv /\ CallbackInv)'
  BY <1>1 DEF IInv, WorkflowInv, CallbackInv
<1>4. (TicketInv /\ HolderInv)'
  BY <1>1 DEF IInv, TicketInv, HolderInv
<1>5. (SuccessIsReal /\ InHand)'
  BY DEF IInv, SuccessIsReal, InHand
<1> QED BY <1>2, <1>3, <1>4, <1>5 DEF IInv

LEMMA CallbacksStep ==
  ASSUME IInv, NEW c \in CIRuns, NEW w \in Workers, Callbacks(c, w)
  PROVE  IInv'
<1> DEFINE new == [pc |-> "find", worker |-> w, run |-> NULL]
<1>1. /\ new \in Callback /\ cb' = [cb EXCEPT ![c] = new] /\ ci[c].state # "none"
      /\ new.pc = "find" /\ new.worker = w
      /\ UNCHANGED <<runs, hand, ci, poll, minted, faults>>
  BY DEF Callbacks, Callback
<1>2. faults' \in 0..MaxFaults /\ (faults' = 0 => faults = 0)
  BY <1>1 DEF IInv, TypeOK
<1> HIDE DEF new
<1> QED BY <1>1, <1>2, CallbackFrame

(* A callback that is refused. *)
LEMMA RefusedStep ==
  ASSUME IInv, NEW c \in CIRuns, Refused(c), cb[c].pc # "none",
         UNCHANGED <<runs, hand, ci, poll, minted>>,
         faults' \in 0..MaxFaults, faults' = 0 => faults = 0
  PROVE  IInv'
<1> DEFINE new == [NoCallback EXCEPT !.pc = "refused"]
<1>1. /\ new \in Callback /\ cb' = [cb EXCEPT ![c] = new] /\ ci[c].state # "none"
      /\ new.pc = "refused"
  BY DEF Refused, NoCallback, Callback, IInv, WorkflowInv
<1> HIDE DEF new
<1> QED BY <1>1, CallbackFrame

LEMMA ResolveFindStep ==
  ASSUME IInv, NEW c \in CIRuns, ResolveFind(c)
  PROVE  IInv'
<1>1. /\ cb[c].pc = "find" /\ UNCHANGED <<runs, hand, ci, poll, minted, faults>>
      /\ faults' \in 0..MaxFaults
  BY DEF IInv, TypeOK, ResolveFind
<1>2. CASE Refused(c)
  BY <1>1, <1>2, RefusedStep
<1>3. ASSUME NEW r \in Runs, runs[r].status = "executing",
             cb' = [cb EXCEPT ![c].pc = "update", ![c].run = r]
      PROVE  IInv'
  <2> DEFINE new == [cb[c] EXCEPT !.pc = "update", !.run = r]
  <2>1. /\ new \in Callback /\ new.pc = "update" /\ new.run = r
        /\ new.worker \in Workers /\ ci[c].state # "none"
        /\ cb' = [cb EXCEPT ![c] = new]
    BY <1>1, <1>3 DEF IInv, TypeOK, WorkflowInv, CallbackInv, Callback
  <2> HIDE DEF new
  <2> QED BY <1>1, <1>3, <2>1, CallbackFrame
<1> QED BY <1>2, <1>3 DEF IInv, TypeOK, ResolveFind, FindUnresolvedExecutingRuns

(* The reference is written once, while nobody has credentials of the run. *)
LEMMA ResolveUpdateStep ==
  ASSUME IInv, NEW c \in CIRuns, ResolveUpdate(c)
  PROVE  IInv'
<1> DEFINE r == cb[c].run
<1>1. /\ cb[c].pc = "update" /\ r \in Runs /\ runs[r].status # "queued"
      /\ cb[c].worker \in Workers /\ ci[c].state # "none"
      /\ UNCHANGED <<hand, ci, poll, minted>>
  BY DEF IInv, CallbackInv, WorkflowInv, ResolveUpdate
<1>2. faults' \in 0..MaxFaults /\ (faults' = 0 => faults = 0)
  BY BoundsAssumption DEF IInv, TypeOK, ResolveUpdate, Outcome, Fault
<1>3. CASE ~ResolveRunExternalRefWhere(runs[r])
  BY <1>1, <1>2, <1>3, RefusedStep DEF ResolveUpdate
<1>4. CASE ResolveRunExternalRefWhere(runs[r])
  <2> DEFINE row == ResolveRunExternalRefSet(runs[r], c)
  <2>1. /\ row \in RunRow /\ row.extRef = c /\ row.status = runs[r].status
        /\ row.claimedBy = runs[r].claimedBy /\ runs \in [Runs -> RunRow]
        /\ runs[r].extRef = NULL /\ runs' = [runs EXCEPT ![r] = row]
    BY <1>1, <1>4, ResolveRow DEF IInv, TypeOK, ResolveUpdate, ResolveRunExternalRefWhere
  <2> HIDE DEF row
  <2>2. /\ runs'[r].extRef = c
        /\ \A q \in Runs : q # r => runs'[q] = runs[q]
        /\ \A q \in Runs : /\ runs'[q].status = runs[q].status
                           /\ runs'[q].claimedBy = runs[q].claimedBy
        /\ runs' \in [Runs -> RunRow]
    BY <1>1, <2>1
  <2>3. \/ cb' = [cb EXCEPT ![c].pc = "mint"]
        \/ cb' = [cb EXCEPT ![c] = [NoCallback EXCEPT !.pc = "refused"]]
    BY <1>4 DEF ResolveUpdate, Outcome, Refused
  <2>4. /\ cb' \in [CIRuns -> Callback]
        /\ \A d \in CIRuns : d # c => cb'[d] = cb[d]
        /\ \/ cb'[c].pc = "mint" /\ cb'[c].run = r /\ cb'[c].worker = cb[c].worker
           \/ cb'[c].pc = "refused"
    BY <2>3 DEF IInv, TypeOK, Callback, NoCallback
  <2>5. TypeOK'
    BY <1>1, <1>2, <2>2, <2>4 DEF IInv, TypeOK
  <2>6. (RowInv /\ CallbackInv)'
    BY <1>1, <2>2, <2>4 DEF IInv, RowInv, CallbackInv
  <2>7. WorkflowInv'
    BY <1>1, <2>2, <2>4, NoNullAssumption DEF IInv, TypeOK, WorkflowInv, CIRun
  <2>8. HandInv'
    BY <1>1, <2>2 DEF IInv, TypeOK, HandInv, Hand
  <2>9. TicketInv'
    BY <1>1, <2>2 DEF IInv, TypeOK, TicketInv
  <2>10. HolderInv'
    <3>1. runs[r].status = "executing" =>
            /\ \A m \in minted : m[3] # r
            /\ \A d \in CIRuns : ~(cb[d].pc = "mint" /\ cb[d].run = r)
      <4>1. \A m \in minted : m[1] # NULL
        BY NoNullAssumption DEF IInv, TypeOK
      <4> QED BY <1>1, <2>1, <4>1, NoNullAssumption DEF IInv, HolderInv
    <3>2. ASSUME NEW q \in Runs, q # r, runs'[q].status = "executing"
          PROVE  /\ \A m \in minted' : m[3] = q => runs'[q].extRef = m[1]
                 /\ \A m, n \in minted' : m[3] = q /\ n[3] = q => m = n
                 /\ \A d \in CIRuns : cb'[d].pc = "mint" /\ cb'[d].run = q =>
                      runs'[q].extRef = d /\ \A m \in minted' : m[3] # q
      BY <1>1, <2>2, <2>4, <3>2 DEF IInv, HolderInv
    <3>3. ASSUME runs'[r].status = "executing"
          PROVE  /\ \A m \in minted' : m[3] # r
                 /\ \A d \in CIRuns : cb'[d].pc = "mint" /\ cb'[d].run = r =>
                      runs'[r].extRef = d
      BY <1>1, <2>2, <2>4, <3>1, <3>3
    <3> QED BY <3>2, <3>3 DEF HolderInv
  <2>11. (SuccessIsReal /\ InHand)'
    BY <1>1, <1>2, <2>2 DEF IInv, SuccessIsReal, InHand
  <2> QED BY <2>5, <2>6, <2>7, <2>8, <2>9, <2>10, <2>11 DEF IInv
<1> QED BY <1>3, <1>4

(* Credentials are minted for the one workflow run that is recorded, and a   *)
(* poll comes with them.                                                     *)
LEMMA MintCredentialsStep ==
  ASSUME IInv, NEW c \in CIRuns, MintCredentials(c)
  PROVE  IInv'
<1> DEFINE r == cb[c].run
           m0 == <<c, cb[c].worker, r>>
<1>1. /\ cb[c].pc = "mint" /\ r \in Runs /\ runs[r].status # "queued"
      /\ cb[c].worker \in Workers /\ ci[c].state # "none"
      /\ UNCHANGED <<runs, hand, ci>>
  BY DEF IInv, CallbackInv, WorkflowInv, MintCredentials
<1>2. faults' \in 0..MaxFaults /\ (faults' = 0 => faults = 0)
  BY BoundsAssumption DEF IInv, TypeOK, MintCredentials, Outcome, Fault
<1>3. CASE Fault /\ Refused(c) /\ UNCHANGED <<poll, minted>>
  BY <1>1, <1>2, <1>3, RefusedStep
<1>4. CASE /\ minted' = minted \cup {m0}
           /\ StartPoll(c)
           /\ Outcome(cb' = [cb EXCEPT ![c].pc = "served"], Refused(c))
  <2> DEFINE new == [pc |-> "polling", worker |-> cb[c].worker, result |-> NoResult]
  <2>1. /\ new \in Poll /\ new.pc = "polling" /\ new.worker = cb[c].worker
        /\ poll' = [poll EXCEPT ![<<c, r>>] = new]
    BY <1>1, <1>4 DEF StartPoll, Poll, NoResult, RunResult
  <2> HIDE DEF new
  <2>2. /\ poll' \in [CIRuns \X Runs -> Poll]
        /\ poll'[<<c, r>>] = new
        /\ \A d \in CIRuns, q \in Runs :
             <<d, q>> # <<c, r>> => poll'[<<d, q>>] = poll[<<d, q>>]
    BY <1>1, <2>1 DEF IInv, TypeOK
  <2>3. /\ cb' \in [CIRuns -> Callback]
        /\ \A d \in CIRuns : d # c => cb'[d] = cb[d]
        /\ cb'[c].pc \in {"served", "refused"}
    BY <1>4 DEF IInv, TypeOK, Outcome, Refused, Callback, NoCallback
  <2>4. minted' \subseteq CIRuns \X Workers \X Runs
    BY <1>1, <1>4 DEF IInv, TypeOK
  <2>5. (TypeOK /\ RowInv /\ HandInv)'
    BY <1>1, <1>2, <2>2, <2>3, <2>4 DEF IInv, TypeOK, RowInv, HandInv
  <2>6. (WorkflowInv /\ CallbackInv)'
    BY <1>1, <2>3 DEF IInv, WorkflowInv, CallbackInv
  <2>7. TicketInv'
    <3>1. \A m \in minted' : ci[m[1]].state # "none" /\ runs[m[3]].status # "queued"
      BY <1>1, <1>4 DEF IInv, TicketInv
    <3>2. ASSUME NEW d \in CIRuns, NEW q \in Runs, poll'[<<d, q>>].pc # "none"
          PROVE  /\ <<d, poll'[<<d, q>>].worker, q>> \in minted'
                 /\ poll'[<<d, q>>].pc = "report" =>
                      /\ poll'[<<d, q>>].result.status \in Terminal
                      /\ poll'[<<d, q>>].result.status = "succeeded" =>
                           "success" \in ci'[d].concluded
      <4>1. CASE <<d, q>> = <<c, r>>
        BY <1>4, <2>1, <2>2, <4>1
      <4>2. CASE <<d, q>> # <<c, r>>
        BY <1>1, <1>4, <2>2, <3>2, <4>2 DEF IInv, TicketInv
      <4> QED BY <4>1, <4>2
    <3> QED BY <1>1, <3>1, <3>2 DEF TicketInv
  <2>8. HolderInv'
    <3>1. ASSUME NEW q \in Runs, q # r, runs'[q].status = "executing"
          PROVE  /\ \A m \in minted' : m[3] = q => runs'[q].extRef = m[1]
                 /\ \A m, n \in minted' : m[3] = q /\ n[3] = q => m = n
                 /\ \A d \in CIRuns : cb'[d].pc = "mint" /\ cb'[d].run = q =>
                      runs'[q].extRef = d /\ \A m \in minted' : m[3] # q
      <4>1. \A m \in minted' : m[3] = q => m \in minted
        BY <1>4, <3>1
      <4> QED BY <1>1, <2>3, <3>1, <4>1 DEF IInv, HolderInv
    <3>2. ASSUME runs'[r].status = "executing"
          PROVE  /\ \A m \in minted' : m[3] = r => runs'[r].extRef = m[1]
                 /\ \A m, n \in minted' : m[3] = r /\ n[3] = r => m = n
                 /\ \A d \in CIRuns : ~(cb'[d].pc = "mint" /\ cb'[d].run = r)
      <4>1. runs[r].extRef = c /\ \A m \in minted : m[3] # r
        BY <1>1, <3>2 DEF IInv, HolderInv
      <4>2. \A m \in minted' : m[3] = r => m = m0
        BY <1>4, <4>1
      <4>3. \A d \in CIRuns : ~(cb'[d].pc = "mint" /\ cb'[d].run = r)
        BY <1>1, <2>3, <3>2, <4>1 DEF IInv, HolderInv
      <4> QED BY <1>1, <4>1, <4>2, <4>3
    <3> QED BY <3>1, <3>2 DEF HolderInv
  <2>9. SuccessIsReal'
    BY <1>1, <1>4 DEF IInv, SuccessIsReal
  <2>10. InHand'
    <3> SUFFICES ASSUME faults' = 0 PROVE InHand'
      BY DEF InHand
    <3>1. faults = 0
      BY <1>2
    <3>2. ASSUME NEW q \in Runs, runs'[q].status = "executing", NEW m \in minted',
                 m[3] = q /\ m[2] = runs'[q].claimedBy /\ ci'[m[1]].for = q
          PROVE  poll'[<<m[1], q>>].pc # "none"
      <4>1. CASE m = m0
        BY <2>1, <2>2, <3>2, <4>1
      <4>2. CASE m \in minted
        <5>1. poll[<<m[1], q>>].pc # "none"
          BY <1>1, <3>1, <3>2, <4>2 DEF IInv, InHand
        <5>2. m[1] \in CIRuns
          BY <4>2 DEF IInv, TypeOK
        <5> QED BY <2>1, <2>2, <5>1, <5>2
      <4> QED BY <1>4, <3>2, <4>1, <4>2
    <3> QED BY <1>1, <3>1, <3>2 DEF IInv, InHand
  <2> QED BY <2>5, <2>6, <2>7, <2>8, <2>9, <2>10 DEF IInv
<1> QED BY <1>3, <1>4 DEF MintCredentials

-------------------------------------------------------------------------------
(* A poll gets its result; a success it has read has happened. *)
LEMMA PollResult ==
  ASSUME IInv, NEW c \in CIRuns, NEW r \in Runs, NEW new \in Poll,
         poll[<<c, r>>].pc = "polling", poll' = [poll EXCEPT ![<<c, r>>] = new],
         new.pc = "report", new.worker = poll[<<c, r>>].worker,
         new.result.status \in Terminal,
         new.result.status = "succeeded" => "success" \in ci[c].concluded,
         UNCHANGED <<runs, hand, ci, cb, minted, faults>>
  PROVE  IInv'
<1>1. /\ poll' \in [CIRuns \X Runs -> Poll]
      /\ poll'[<<c, r>>] = new
      /\ \A d \in CIRuns, q \in Runs :
           <<d, q>> # <<c, r>> => poll'[<<d, q>>] = poll[<<d, q>>]
  <2>1. poll \in [CIRuns \X Runs -> Poll] /\ <<c, r>> \in CIRuns \X Runs
    BY DEF IInv, TypeOK
  <2>2. poll' \in [CIRuns \X Runs -> Poll] /\ poll'[<<c, r>>] = new
    BY <2>1
  <2>3. ASSUME NEW d \in CIRuns, NEW q \in Runs, <<d, q>> # <<c, r>>
        PROVE  poll'[<<d, q>>] = poll[<<d, q>>]
    <3>1. <<d, q>> \in CIRuns \X Runs
      OBVIOUS
    <3> QED BY <2>1, <2>3, <3>1
  <2> QED BY <2>2, <2>3
<1>2. (TypeOK /\ RowInv /\ WorkflowInv /\ HandInv /\ CallbackInv /\ HolderInv /\ SuccessIsReal)'
  <2>1. TypeOK'
    BY <1>1 DEF IInv, TypeOK
  <2>2. (RowInv /\ WorkflowInv /\ HandInv)'
    BY DEF IInv, RowInv, WorkflowInv, HandInv
  <2>3. (CallbackInv /\ HolderInv /\ SuccessIsReal)'
    BY DEF IInv, CallbackInv, HolderInv, SuccessIsReal
  <2> QED BY <2>1, <2>2, <2>3
<1>3. TicketInv'
  <2>1. ASSUME NEW d \in CIRuns, NEW q \in Runs, poll'[<<d, q>>].pc # "none"
        PROVE  /\ <<d, poll'[<<d, q>>].worker, q>> \in minted
               /\ poll'[<<d, q>>].pc = "report" =>
                    /\ poll'[<<d, q>>].result.status \in Terminal
                    /\ poll'[<<d, q>>].result.status = "succeeded" =>
                         "success" \in ci[d].concluded
    <3>1. CASE <<d, q>> = <<c, r>>
      BY <1>1, <3>1 DEF IInv, TicketInv
    <3>2. CASE <<d, q>> # <<c, r>>
      BY <1>1, <2>1, <3>2 DEF IInv, TicketInv
    <3> QED BY <3>1, <3>2
  <2> QED BY <2>1 DEF IInv, TicketInv
<1>4. InHand'
  <2>1. \A m \in minted, q \in Runs :
          poll[<<m[1], q>>].pc # "none" => poll'[<<m[1], q>>].pc # "none"
    BY <1>1 DEF IInv, TypeOK
  <2> QED BY <2>1 DEF IInv, InHand
<1> QED BY <1>2, <1>3, <1>4 DEF IInv

(* mapStatus says succeeded of a successful workflow run only. *)
LEMMA MapStatusSucceeded ==
  ASSUME NEW state, MapStatus(state) = "succeeded"
  PROVE  state = "success"
  BY DEF MapStatus

LEMMA CheckStatusStep ==
  ASSUME IInv, NEW c \in CIRuns, NEW r \in Runs, CheckStatus(c, r)
  PROVE  IInv'
<1> DEFINE result == [status |-> AdapterStatus(c), ref |-> c]
           new == [poll[<<c, r>>] EXCEPT !.pc = "report", !.result = result]
<1>1. /\ result \in RunResult /\ result.status = AdapterStatus(c)
      /\ AdapterStatus(c) \in Terminal
  BY DEF CheckStatus, RunResult
<1>2. ASSUME AdapterStatus(c) = "succeeded" PROVE "success" \in ci[c].concluded
  <2>1. ci[c].state = "success"
    BY <1>2, MapStatusSucceeded DEF AdapterStatus
  <2>2. "success" \in Conclusions
    BY <2>1 DEF IInv, TypeOK, CIRun
  <2> QED BY <2>1, <2>2 DEF IInv, WorkflowInv
<1>3. /\ poll[<<c, r>>].pc = "polling"
      /\ new \in Poll /\ new.pc = "report" /\ new.result = result
      /\ new.worker = poll[<<c, r>>].worker
      /\ poll' = [poll EXCEPT ![<<c, r>>] = new]
      /\ UNCHANGED <<runs, hand, ci, cb, minted, faults>>
  BY <1>1 DEF IInv, TypeOK, CheckStatus, Poll
<1> HIDE DEF result, new
<1> QED BY <1>1, <1>2, <1>3, PollResult

LEMMA PollTimeoutStep ==
  ASSUME IInv, NEW c \in CIRuns, NEW r \in Runs, PollTimeout(c, r)
  PROVE  IInv'
<1> DEFINE result == [status |-> "timed_out", ref |-> NULL]
           new == [poll[<<c, r>>] EXCEPT !.pc = "report", !.result = result]
<1>1. /\ result \in RunResult /\ result.status = "timed_out"
      /\ "timed_out" \in Terminal
  BY DEF RunResult, Terminal
<1>2. /\ poll[<<c, r>>].pc = "polling"
      /\ new \in Poll /\ new.pc = "report" /\ new.result = result
      /\ new.worker = poll[<<c, r>>].worker
      /\ poll' = [poll EXCEPT ![<<c, r>>] = new]
      /\ UNCHANGED <<runs, hand, ci, cb, minted, faults>>
  BY <1>1 DEF IInv, TypeOK, PollTimeout, Poll
<1> HIDE DEF result, new
<1> QED BY <1>1, <1>2, PollResult

(* The report ends the run if its worker claimed it: then this poll is the   *)
(* only one of the run.                                                      *)
LEMMA PollReportStep ==
  ASSUME IInv, NEW c \in CIRuns, NEW r \in Runs, PollReport(c, r)
  PROVE  IInv'
<1> DEFINE w == poll[<<c, r>>].worker
           s == poll[<<c, r>>].result.status
           ref == poll[<<c, r>>].result.ref
<1>1. /\ <<c, w, r>> \in minted /\ w \in Workers /\ s \in Terminal
      /\ ref \in CIRuns \cup {NULL}
      /\ s = "succeeded" => "success" \in ci[c].concluded
  <2>1. /\ poll[<<c, r>>] \in Poll /\ poll[<<c, r>>].result \in RunResult
        /\ poll[<<c, r>>].pc = "report"
    BY DEF IInv, TypeOK, PollReport, Poll
  <2>2. <<c, w, r>> \in minted /\ s \in Terminal
        /\ (s = "succeeded" => "success" \in ci[c].concluded)
    BY <2>1 DEF IInv, TicketInv
  <2>3. w \in Workers
    BY <2>2 DEF IInv, TypeOK
  <2> QED BY <2>1, <2>2, <2>3 DEF RunResult
<1>2. /\ ReportRunResult(w, r, s, ref)
      /\ poll' = [poll EXCEPT ![<<c, r>>] = NoPoll]
      /\ UNCHANGED <<hand, ci, cb, minted>>
  BY DEF PollReport
<1> HIDE DEF w, s, ref
<1>3. /\ runs' \in [Runs -> RunRow]
      /\ faults' \in 0..MaxFaults /\ (faults' = 0 => faults = 0)
      /\ \A q \in Runs : /\ runs'[q].claimedBy = runs[q].claimedBy
                         /\ q # r => runs'[q] = runs[q]
      /\ \/ /\ runs[r].claimedBy = w /\ runs[r].status = "executing"
            /\ runs'[r].status = s
         \/ /\ runs' = runs
            /\ faults' = 0 => runs[r].claimedBy # w \/ runs[r].status # "executing"
  BY <1>1, <1>2, ReportOutcome
<1>4. /\ (RowInv /\ WorkflowInv /\ CallbackInv /\ HolderInv)'
      /\ \A m \in minted : runs'[m[3]].status # "queued"
  BY <1>1, <1>2, ReportFrame
<1>5. /\ poll' \in [CIRuns \X Runs -> Poll]
      /\ poll'[<<c, r>>].pc = "none"
      /\ \A d \in CIRuns, q \in Runs :
           <<d, q>> # <<c, r>> => poll'[<<d, q>>] = poll[<<d, q>>]
  BY <1>2 DEF IInv, TypeOK, NoPoll, NoResult, Poll, RunResult
<1>6. TypeOK'
  BY <1>2, <1>3, <1>5 DEF IInv, TypeOK
<1>7. HandInv'
  BY <1>2, <1>3 DEF IInv, TypeOK, HandInv, Hand
<1>8. TicketInv'
  <2>1. ASSUME NEW d \in CIRuns, NEW q \in Runs, poll'[<<d, q>>].pc # "none"
        PROVE  poll'[<<d, q>>] = poll[<<d, q>>]
    BY <1>5, <2>1
  <2> QED BY <1>2, <1>4, <1>5, <2>1 DEF IInv, TicketInv
<1>9. SuccessIsReal'
  BY <1>1, <1>2, <1>3 DEF IInv, SuccessIsReal
<1>10. InHand'
  <2> SUFFICES ASSUME faults' = 0 PROVE InHand'
    BY DEF InHand
  <2>1. faults = 0 /\ "executing" \notin Terminal
    BY <1>3 DEF Terminal
  <2>2. \A q \in Runs : runs'[q].status = "executing" => runs'[q] = runs[q]
    BY <1>1, <1>3, <2>1
  <2>3. ASSUME NEW q \in Runs, runs'[q].status = "executing", NEW m \in minted',
               m[3] = q /\ m[2] = runs'[q].claimedBy /\ ci'[m[1]].for = q
        PROVE  poll'[<<m[1], q>>].pc # "none"
    <3>1. poll[<<m[1], q>>].pc # "none" /\ m[1] \in CIRuns
      BY <1>2, <2>1, <2>2, <2>3 DEF IInv, TypeOK, InHand
    <3>2. CASE <<m[1], q>> = <<c, r>>
      <4>1. m = <<c, w, r>>
        BY <1>1, <1>2, <2>2, <2>3, <3>2 DEF IInv, HolderInv
      <4>2. runs[r].claimedBy = w /\ runs[r].status = "executing" /\ runs'[r].status = "executing"
        BY <2>2, <2>3, <3>2, <4>1
      <4> QED BY <1>1, <1>3, <2>1, <4>2
    <3> QED BY <1>5, <3>1, <3>2
  <2> QED BY <1>2, <2>1, <2>2, <2>3 DEF IInv, InHand
<1> QED BY <1>4, <1>6, <1>7, <1>8, <1>9, <1>10 DEF IInv

(* A death is a fault; rows, workflow runs and credentials stay. *)
LEMMA CrashStep ==
  ASSUME IInv, NEW w \in Workers, Crash(w)
  PROVE  IInv'
<1>1. /\ faults' \in 0..MaxFaults /\ faults' # 0
      /\ UNCHANGED <<runs, ci, minted>>
  BY BoundsAssumption DEF IInv, TypeOK, Crash, Fault
<1>2. /\ hand' \in [Workers -> Hand]
      /\ \A v \in Workers : hand'[v] = hand[v] \/ hand'[v] = Idle
  BY DEF IInv, TypeOK, Crash, Idle, Hand
<1>3. /\ cb' \in [CIRuns -> Callback]
      /\ \A c \in CIRuns :
           \/ cb'[c] = cb[c]
           \/ cb'[c].pc = "refused" /\ cb[c].pc # "none"
  BY DEF IInv, TypeOK, Crash, NoCallback, Callback
<1>4. /\ poll' \in [CIRuns \X Runs -> Poll]
      /\ \A c \in CIRuns, r \in Runs :
           poll'[<<c, r>>] = poll[<<c, r>>] \/ poll'[<<c, r>>].pc = "none"
  <2>1. NoPoll \in Poll /\ NoPoll.pc = "none"
    BY DEF NoPoll, NoResult, Poll, RunResult
  <2> QED BY <2>1 DEF IInv, TypeOK, Crash
<1>5. (TypeOK /\ RowInv)'
  BY <1>1, <1>2, <1>3, <1>4 DEF IInv, TypeOK, RowInv
<1>6. HandInv'
  BY <1>1, <1>2 DEF IInv, HandInv, Idle
<1>7. (WorkflowInv /\ CallbackInv /\ HolderInv)'
  BY <1>1, <1>3 DEF IInv, WorkflowInv, CallbackInv, HolderInv
<1>8. TicketInv'
  BY <1>1, <1>4 DEF IInv, TicketInv
<1>9. (SuccessIsReal /\ InHand)'
  BY <1>1 DEF IInv, SuccessIsReal, InHand
<1> QED BY <1>5, <1>6, <1>7, <1>8, <1>9 DEF IInv

-------------------------------------------------------------------------------
LEMMA NextIInv == IInv /\ [Next]_vars => IInv'
<1> SUFFICES ASSUME IInv, [Next]_vars PROVE IInv'
  OBVIOUS
<1>1. CASE UNCHANGED vars
  <2>1. (TypeOK /\ RowInv /\ WorkflowInv /\ HandInv)'
    BY <1>1 DEF vars, IInv, TypeOK, RowInv, WorkflowInv, HandInv
  <2>2. (CallbackInv /\ TicketInv /\ HolderInv)'
    BY <1>1 DEF vars, IInv, CallbackInv, TicketInv, HolderInv
  <2>3. (SuccessIsReal /\ InHand)'
    BY <1>1 DEF vars, IInv, SuccessIsReal, InHand
  <2> QED BY <2>1, <2>2, <2>3 DEF IInv
<1>2. ASSUME NEW w \in Workers, HandStep(w) \/ Crash(w) PROVE IInv'
  BY <1>2, NextRunStep, InstallationTokenStep, TriggerStep, FailRunDispatchStep, CrashStep
  DEF HandStep
<1>3. ASSUME NEW c \in CIRuns, GitHubStep(c) \/ CallbackStep(c) PROVE IInv'
  BY <1>3, StartStep, RerunStep, PushStep, ConcludeStep, ResolveFindStep, ResolveUpdateStep,
     MintCredentialsStep DEF GitHubStep, CallbackStep
<1>4. ASSUME NEW c \in CIRuns, NEW r \in Runs, PollStep(c, r) PROVE IInv'
  BY <1>4, CheckStatusStep, PollTimeoutStep, PollReportStep DEF PollStep
<1> QED BY <1>1, <1>2, <1>3, <1>4, HandOverStep, CallbacksStep DEF Next

LEMMA Invariance == Spec => []IInv
  BY InitIInv, NextIInv, PTL DEF Spec

(* The table, the goroutines and the workflow runs keep their types. *)
THEOREM TypeCorrect == Spec => []TypeOK
<1>1. IInv => TypeOK
  BY DEF IInv
<1> QED BY <1>1, Invariance, PTL

(* A run recorded as succeeded names a workflow run that got credentials for *)
(* it from its claimant and concluded with success (pollUntilTerminal,       *)
(* mapStatus, ReportRunResult), whatever is lost, run again or dies.         *)
THEOREM SuccessTrue == Spec => []SuccessIsReal
<1>1. IInv => SuccessIsReal
  BY DEF IInv
<1> QED BY <1>1, Invariance, PTL

(* As long as nothing failed, a claimed run is being dispatched or has its   *)
(* workflow run, and a poll goes with credentials from its claimant          *)
(* (pollRuns, Handler.ServeHTTP).                                            *)
THEOREM RunsInHand == Spec => []InHand
<1>1. IInv => InHand
  BY DEF IInv
<1> QED BY <1>1, Invariance, PTL

-------------------------------------------------------------------------------
(* A step that leaves the rows alone leaves the abstract run alone. *)
LEMMA Stutters ==
  ASSUME UNCHANGED runs
  PROVE  UNCHANGED Lifecycle!lvars
  BY DEF Lifecycle!lvars

(* Worker.Work starts a queued run. *)
LEMMA HandOverRefines ==
  ASSUME IInv, NEW r \in Runs, HandOver(r)
  PROVE  Lifecycle!LNext
<1> DEFINE row == UpdateRunStatusSet(runs[r], "executing")
<1>1. /\ row.status = "executing" /\ row.claimedBy = runs[r].claimedBy
      /\ runs[r].status = "queued"
      /\ runs' = [runs EXCEPT ![r] = row] /\ runs \in [Runs -> RunRow]
  BY SetStatusRow DEF IInv, TypeOK, HandOver, UpdateRunStatusWhere
<1> HIDE DEF row
<1>2. /\ [q \in Runs |-> runs'[q].status] =
           [[q \in Runs |-> runs[q].status] EXCEPT ![r] = "executing"]
      /\ [q \in Runs |-> runs'[q].claimedBy] = [q \in Runs |-> runs[q].claimedBy]
  BY <1>1
<1>3. Lifecycle!Start(r)
  BY <1>1, <1>2 DEF Lifecycle!Start
<1> QED BY <1>3 DEF Lifecycle!LNext

(* NextRun is the one claim, also when its answer is lost. *)
LEMMA NextRunRefines ==
  ASSUME IInv, NEW w \in Workers, NextRun(w)
  PROVE  Lifecycle!LNext
<1>1. PICK r \in Runs :
        /\ runs[r].status = "executing" /\ runs[r].claimedBy = NULL
        /\ runs' = [runs EXCEPT ![r] = ClaimSet(@, w)]
  BY DEF IInv, TypeOK, NextRun, ClaimNextExecutingRun, ClaimNextExecutingRunWhere
<1> DEFINE row == ClaimSet(runs[r], w)
<1>2. /\ row.status = runs[r].status /\ row.claimedBy = w
      /\ runs' = [runs EXCEPT ![r] = row] /\ runs \in [Runs -> RunRow]
  BY <1>1, ClaimRow DEF IInv, TypeOK
<1> HIDE DEF row
<1>3. /\ [q \in Runs |-> runs'[q].status] = [q \in Runs |-> runs[q].status]
      /\ [q \in Runs |-> runs'[q].claimedBy] =
           [[q \in Runs |-> runs[q].claimedBy] EXCEPT ![r] = w]
  BY <1>2
<1>4. Lifecycle!Claim(r)
  BY <1>1, <1>3 DEF Lifecycle!Claim
<1> QED BY <1>4 DEF Lifecycle!LNext

(* An accepted report is the one end of its run, which is claimed. *)
LEMMA ReportRefines ==
  ASSUME IInv, NEW w \in Workers, NEW r \in Runs, NEW s \in Terminal,
         NEW ref \in CIRuns \cup {NULL}, ReportRunResult(w, r, s, ref)
  PROVE  [Lifecycle!LNext]_(Lifecycle!lvars)
<1>1. /\ runs' \in [Runs -> RunRow] /\ runs \in [Runs -> RunRow]
      /\ \A q \in Runs : /\ runs'[q].claimedBy = runs[q].claimedBy
                         /\ q # r => runs'[q] = runs[q]
      /\ \/ /\ runs[r].claimedBy = w /\ runs[r].status = "executing"
            /\ runs'[r].status = s
         \/ runs' = runs
  BY ReportOutcome DEF IInv, TypeOK
<1>2. CASE runs' = runs
  BY <1>2, Stutters
<1>3. CASE runs[r].claimedBy = w /\ runs[r].status = "executing" /\ runs'[r].status = s
  <2>1. /\ [q \in Runs |-> runs'[q].status] =
             [[q \in Runs |-> runs[q].status] EXCEPT ![r] = s]
        /\ [q \in Runs |-> runs'[q].claimedBy] = [q \in Runs |-> runs[q].claimedBy]
    BY <1>1, <1>3
  <2>2. w # NULL
    BY NoNullAssumption
  <2>3. Lifecycle!Finish(r)
    BY <1>3, <2>1, <2>2 DEF Lifecycle!Finish, Lifecycle!Final, Terminal
  <2> QED BY <2>3 DEF Lifecycle!LNext
<1> QED BY <1>1, <1>2, <1>3

(* The reference is no part of the abstract run. *)
LEMMA ResolveUpdateRefines ==
  ASSUME IInv, NEW c \in CIRuns, ResolveUpdate(c)
  PROVE  UNCHANGED Lifecycle!lvars
<1>1. CASE UNCHANGED runs
  BY <1>1, Stutters
<1>2. CASE runs' = [runs EXCEPT ![cb[c].run] = ResolveRunExternalRefSet(@, c)]
  <2>1. cb[c].run \in Runs /\ runs \in [Runs -> RunRow]
    BY DEF ResolveUpdate, IInv, TypeOK, CallbackInv
  <2>2. /\ [q \in Runs |-> runs'[q].status] = [q \in Runs |-> runs[q].status]
        /\ [q \in Runs |-> runs'[q].claimedBy] = [q \in Runs |-> runs[q].claimedBy]
    BY <1>2, <2>1, ResolveRow
  <2> QED BY <2>2 DEF Lifecycle!lvars
<1> QED BY <1>1, <1>2 DEF ResolveUpdate

LEMMA NextRefines ==
  ASSUME IInv, [Next]_vars
  PROVE  [Lifecycle!LNext]_(Lifecycle!lvars)
<1>1. CASE UNCHANGED vars
  BY <1>1, Stutters DEF vars
<1>2. ASSUME NEW w \in Workers, FailRunDispatch(w)
      PROVE  [Lifecycle!LNext]_(Lifecycle!lvars)
  <2>1. /\ hand[w].run \in Runs /\ "failed" \in Terminal
        /\ ReportRunResult(w, hand[w].run, "failed", NULL)
    BY <1>2 DEF IInv, TypeOK, HandInv, FailRunDispatch, Hand, Terminal
  <2> QED BY <2>1, ReportRefines
<1>3. ASSUME NEW w \in Workers, HandStep(w) \/ Crash(w)
      PROVE  [Lifecycle!LNext]_(Lifecycle!lvars)
  <2>1. CASE InstallationToken(w) \/ Trigger(w) \/ Crash(w)
    BY <2>1, Stutters DEF InstallationToken, Trigger, Crash
  <2> QED BY <1>2, <1>3, <2>1, NextRunRefines DEF HandStep
<1>4. ASSUME NEW c \in CIRuns, GitHubStep(c) \/ CallbackStep(c)
      PROVE  UNCHANGED Lifecycle!lvars
  <2>1. CASE ResolveUpdate(c)
    BY <2>1, ResolveUpdateRefines
  <2>2. CASE GitHubStep(c) \/ ResolveFind(c) \/ MintCredentials(c)
    BY <2>2, Stutters
    DEF GitHubStep, Start, Rerun, Push, Conclude, ResolveFind, MintCredentials
  <2> QED BY <1>4, <2>1, <2>2 DEF CallbackStep
<1>5. ASSUME NEW c \in CIRuns, NEW w \in Workers, Callbacks(c, w)
      PROVE  UNCHANGED Lifecycle!lvars
  BY <1>5, Stutters DEF Callbacks
<1>6. ASSUME NEW c \in CIRuns, NEW r \in Runs, PollStep(c, r)
      PROVE  [Lifecycle!LNext]_(Lifecycle!lvars)
  <2>1. CASE CheckStatus(c, r) \/ PollTimeout(c, r)
    BY <2>1, Stutters DEF CheckStatus, PollTimeout
  <2>2. CASE PollReport(c, r)
    <3> DEFINE w == poll[<<c, r>>].worker
               s == poll[<<c, r>>].result.status
               ref == poll[<<c, r>>].result.ref
    <3>1. /\ poll[<<c, r>>] \in Poll /\ poll[<<c, r>>].pc = "report"
          /\ ReportRunResult(w, r, s, ref)
      BY <2>2 DEF IInv, TypeOK, PollReport
    <3>2. <<c, w, r>> \in minted /\ s \in Terminal
      BY <3>1 DEF IInv, TicketInv
    <3>3. w \in Workers /\ ref \in CIRuns \cup {NULL}
      BY <3>1, <3>2 DEF IInv, TypeOK, Poll, RunResult
    <3> HIDE DEF w, s, ref
    <3> QED BY <3>1, <3>2, <3>3, ReportRefines
  <2> QED BY <1>6, <2>1, <2>2 DEF PollStep
<1> QED BY <1>1, <1>3, <1>4, <1>5, <1>6, HandOverRefines DEF Next

(* Every effect of delivery on a run is one step of the run model            *)
(* (RunLifecycle), for any number of workers and workflow runs.              *)
THEOREM DeliverySteps == Spec => StepsOfLifecycle
<1>1. IInv /\ [Next]_vars => [Lifecycle!LNext]_(Lifecycle!lvars)
  BY NextRefines
<1> QED BY <1>1, Invariance, PTL DEF Spec, StepsOfLifecycle
===============================================================================
