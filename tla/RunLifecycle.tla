----------------------------- MODULE RunLifecycle -----------------------------
(***************************************************************************)
(* What the execution package promises of a run, whatever handlers,        *)
(* replicas and workers do meanwhile: the state machine of the run model,  *)
(* in which an approval is decided once, a run gets at most one claimant,  *)
(* and a final status is final.  One step moves one run.                   *)
(***************************************************************************)
CONSTANTS Runs, Workers, NULL

VARIABLES
  status,    \* where each run is in the run model
  decision,  \* "absent" for a run that needs no approval
  claimant   \* the worker credential a run was handed to, or NULL

lvars == <<status, decision, claimant>>

Final == {"succeeded", "failed", "cancelled", "timed_out"}

LInit ==
  /\ status = [r \in Runs |-> "absent"]
  /\ decision = [r \in Runs |-> "absent"]
  /\ claimant = [r \in Runs |-> NULL]

(* A run is admitted, with or without the need of an approval. *)
Admit(r) ==
  /\ status[r] = "absent"
  /\ status' = [status EXCEPT ![r] = "policy_checked"]
  /\ UNCHANGED <<decision, claimant>>

AdmitForApproval(r) ==
  /\ status[r] = "absent"
  /\ decision[r] = "absent"
  /\ status' = [status EXCEPT ![r] = "awaiting_approval"]
  /\ decision' = [decision EXCEPT ![r] = "pending"]
  /\ UNCHANGED claimant

(* The one decision on an approval. *)
Decide(r) ==
  /\ status[r] = "awaiting_approval"
  /\ decision[r] = "pending"
  /\ \E d \in {"approved", "denied"} :
       decision' = [decision EXCEPT ![r] = d]
  /\ UNCHANGED <<status, claimant>>

(* The run follows its decision. *)
Deny(r) ==
  /\ status[r] = "awaiting_approval"
  /\ decision[r] = "denied"
  /\ status' = [status EXCEPT ![r] = "denied"]
  /\ UNCHANGED <<decision, claimant>>

Queue(r) ==
  /\ \/ status[r] = "policy_checked" /\ decision[r] = "absent"
     \/ status[r] = "awaiting_approval" /\ decision[r] = "approved"
  /\ status' = [status EXCEPT ![r] = "queued"]
  /\ UNCHANGED <<decision, claimant>>

Start(r) ==
  /\ status[r] = "queued"
  /\ status' = [status EXCEPT ![r] = "executing"]
  /\ UNCHANGED <<decision, claimant>>

Claim(r) ==
  /\ status[r] = "executing"
  /\ claimant[r] = NULL
  /\ \E w \in Workers : claimant' = [claimant EXCEPT ![r] = w]
  /\ UNCHANGED <<status, decision>>

(* Only a claimed run ends otherwise than failed. *)
Finish(r) ==
  /\ status[r] = "executing"
  /\ \E s \in Final :
       /\ claimant[r] = NULL => s = "failed"
       /\ status' = [status EXCEPT ![r] = s]
  /\ UNCHANGED <<decision, claimant>>

LNext ==
  \E r \in Runs :
    \/ Admit(r) \/ AdmitForApproval(r) \/ Decide(r) \/ Deny(r)
    \/ Queue(r) \/ Start(r) \/ Claim(r) \/ Finish(r)

LSpec == LInit /\ [][LNext]_lvars
===============================================================================
