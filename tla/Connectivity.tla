---------------------------- MODULE Connectivity ------------------------------
(***************************************************************************)
(* Environments and their connectivity checks: the registration handler of *)
(* controlplane/internal/api/environments.go, the verification handlers of *)
(* api/verifications.go over the environment_verifications table, the      *)
(* verification half of the worker's poll loop (worker/internal/poller)    *)
(* and the waiting loop of `idpctl environment verify`.                    *)
(*                                                                         *)
(* Registration is not a transaction: a row, its AWS config and its three  *)
(* tier roles are separate INSERTs, and a check may be requested and       *)
(* claimed between any two of them.  Claiming is a GET whose handler reads *)
(* the environment after it has claimed.  A report is a message: it may be *)
(* handled after its sender has died, or be lost.  Pollers are worker      *)
(* processes; two of them may run with the same credential.                *)
(*                                                                         *)
(* Abstracted: the tenant, account and role identifiers (only whether they *)
(* are stored), error texts, and timestamps (a check has completed_at      *)
(* exactly when its status is not pending).                                *)
(***************************************************************************)
EXTENDS Policy

CONSTANTS
  NULL,          \* SQL NULL
  Envs,          \* environment names
  Workers,       \* worker credentials
  Grants,        \* the environments granted to a credential
  Pollers,       \* worker processes
  Credential,    \* the credential a process authenticates with
  MaxChecks,     \* bound: verification rows
  MaxFaults      \* bound: interruptions and lost messages

Checks == 1..MaxChecks

ASSUME BoundsAssumption == MaxChecks \in Nat /\ MaxFaults \in Nat

ASSUME WorkersAssumption ==
  /\ Grants \in [Workers -> SUBSET Envs]
  /\ Credential \in [Pollers -> Workers]

ASSUME NoNullAssumption == NULL \notin Workers /\ NULL \notin Envs /\ NULL \notin Checks

VARIABLES
  envs,     \* tables environments, environment_aws_config and ..._aws_tier_roles
  reg,      \* where the handler that registers an environment stands
  checks,   \* table environment_verifications
  ask,      \* where the handler that requested a check stands
  hand,     \* the job in the hands of a poller, and of the handler serving it
  posts,    \* reports on their way to the control plane
  cli,      \* what `idpctl environment verify` told its user about a check
  audit,    \* table audit_events, with the row the writing handler worked on
  faults    \* interruptions and lost messages so far

vars == <<envs, reg, checks, ask, hand, posts, cli, audit, faults>>

-------------------------------------------------------------------------------
Verdicts == {"succeeded", "failed"}
RegSteps == {"idle", "config", "roles", "audit"}
PollSteps == {"idle", "config", "roles", "checking", "sent"}

(* A map from tiers to outcomes, as the set of its entries. *)
TierResults == SUBSET (Tiers \X BOOLEAN)

EnvRow == [row : BOOLEAN, config : BOOLEAN, roles : SUBSET Tiers]

CheckRow ==
  [status : {"absent", "pending"} \cup Verdicts, env : Envs \cup {NULL},
   claimedBy : Workers \cup {NULL}, results : TierResults]

Job == [pc : PollSteps, check : Checks \cup {NULL}, roles : SUBSET Tiers,
        results : TierResults]

Report == [from : Pollers, check : Checks, results : TierResults]

NoCheck == [status |-> "absent", env |-> NULL, claimedBy |-> NULL,
            results |-> {}]

NoJob == [pc |-> "idle", check |-> NULL, roles |-> {}, results |-> {}]

(* Type invariant: tables, handler positions and messages keep their types. *)
TypeOK ==
  /\ envs \in [Envs -> EnvRow]
  /\ reg \in [Envs -> RegSteps]
  /\ checks \in [Checks -> CheckRow]
  /\ ask \in [Checks -> {"idle", "audit"}]
  /\ hand \in [Pollers -> Job]
  /\ posts \subseteq Report
  /\ cli \in [Checks -> {"none", "polling", "timed_out"} \cup Verdicts]
  /\ audit \subseteq {"environment.registered"} \X Envs
                       \cup {"environment.verify.requested"} \X Checks
  /\ faults \in 0..MaxFaults

Init ==
  /\ envs = [e \in Envs |-> [row |-> FALSE, config |-> FALSE, roles |-> {}]]
  /\ reg = [e \in Envs |-> "idle"]
  /\ checks = [v \in Checks |-> NoCheck]
  /\ ask = [v \in Checks |-> "idle"]
  /\ hand = [p \in Pollers |-> NoJob]
  /\ posts = {}
  /\ cli = [v \in Checks |-> "none"]
  /\ audit = {}
  /\ faults = 0

Fault == faults < MaxFaults /\ faults' = faults + 1

-------------------------------------------------------------------------------
(* handlePostEnvironments.  UNIQUE (tenant_id, name): a second registration  *)
(* of a name, also after a failed first one, is answered 500.                *)
CreateEnvironment(e) ==
  /\ ~envs[e].row
  /\ envs' = [envs EXCEPT ![e].row = TRUE]
  /\ reg' = [reg EXCEPT ![e] = "config"]
  /\ UNCHANGED <<checks, ask, hand, posts, cli, audit, faults>>

CreateAWSConfig(e) ==
  /\ reg[e] = "config"
  /\ envs' = [envs EXCEPT ![e].config = TRUE]
  /\ reg' = [reg EXCEPT ![e] = "roles"]
  /\ UNCHANGED <<checks, ask, hand, posts, cli, audit, faults>>

(* One INSERT per tier, in the order Go iterates over the map. *)
CreateAWSTierRole(e, t) ==
  /\ reg[e] = "roles"
  /\ t \notin envs[e].roles
  /\ envs' = [envs EXCEPT ![e].roles = @ \cup {t}]
  /\ reg' = [reg EXCEPT ![e] = IF Tiers \subseteq envs[e].roles \cup {t}
                               THEN "audit" ELSE "roles"]
  /\ UNCHANGED <<checks, ask, hand, posts, cli, audit, faults>>

RegisterAudit(e) ==
  /\ reg[e] = "audit"
  /\ audit' = audit \cup {<<"environment.registered", e>>}
  /\ reg' = [reg EXCEPT ![e] = "idle"]
  /\ UNCHANGED <<envs, checks, ask, hand, posts, cli, faults>>

RegisterInterrupted(e) ==
  /\ reg[e] # "idle"
  /\ Fault
  /\ reg' = [reg EXCEPT ![e] = "idle"]
  /\ UNCHANGED <<envs, checks, ask, hand, posts, cli, audit>>

-------------------------------------------------------------------------------
(* handlePostEnvironmentVerify: GetByName asks for the row only. *)
CreateVerification(v, e) ==
  /\ checks[v].status = "absent"
  /\ \A u \in Checks : u < v => checks[u].status # "absent"
  /\ envs[e].row
  /\ checks' = [checks EXCEPT
       ![v] = [NoCheck EXCEPT !.status = "pending", !.env = e]]
  /\ ask' = [ask EXCEPT ![v] = "audit"]
  /\ UNCHANGED <<envs, reg, hand, posts, cli, audit, faults>>

(* The request is audited and answered, and idpctl starts to poll. *)
VerifyAudit(v) ==
  /\ ask[v] = "audit"
  /\ audit' = audit \cup {<<"environment.verify.requested", v>>}
  /\ ask' = [ask EXCEPT ![v] = "idle"]
  /\ cli' = [cli EXCEPT ![v] = "polling"]
  /\ UNCHANGED <<envs, reg, checks, hand, posts, faults>>

VerifyInterrupted(v) ==
  /\ ask[v] = "audit"
  /\ Fault
  /\ ask' = [ask EXCEPT ![v] = "idle"]
  /\ UNCHANGED <<envs, reg, checks, hand, posts, cli, audit>>

(* runEnvironmentVerify: what GetVerification answers is printed as soon as *)
(* it is not pending.                                                       *)
PrintVerificationResult(v) ==
  /\ cli[v] = "polling"
  /\ checks[v].status \in Verdicts
  /\ cli' = [cli EXCEPT ![v] = checks[v].status]
  /\ UNCHANGED <<envs, reg, checks, ask, hand, posts, audit, faults>>

VerifyTimeout(v) ==
  /\ cli[v] = "polling"
  /\ checks[v].status = "pending"
  /\ cli' = [cli EXCEPT ![v] = "timed_out"]
  /\ UNCHANGED <<envs, reg, checks, ask, hand, posts, audit, faults>>

-------------------------------------------------------------------------------
(* handleGetNextWorkerVerification, called by pollVerifications.            *)

(* Mutant of ClaimNextPendingVerificationWhere: claimed_by IS NULL dropped. *)
ClaimsAnyPending(row, granted) == row.status = "pending" /\ row.env \in granted

(* Mutant of ClaimNextPendingVerificationWhere: failed checks are retried. *)
ClaimsFailed(row, granted) ==
  /\ \/ row.status = "pending" /\ row.claimedBy = NULL
     \/ row.status = "failed"
  /\ row.env \in granted

(* ClaimNextPendingVerification ... WHERE status = 'pending' AND claimed_by  *)
(* IS NULL AND environment_id = ANY(...)                                     *)
ClaimNextPendingVerificationWhere(row, granted) ==
  /\ row.status = "pending"
  /\ row.claimedBy = NULL
  /\ row.env \in granted

(* The oldest such row that no statement running at that moment has locked. *)
ClaimNextPendingVerification(rows, granted, locked) ==
  { v \in DOMAIN rows \ locked :
      /\ ClaimNextPendingVerificationWhere(rows[v], granted)
      /\ \A u \in DOMAIN rows \ locked :
            ClaimNextPendingVerificationWhere(rows[u], granted) => v <= u }

NextJob(p) ==
  /\ hand[p].pc = "idle"
  /\ \E locked \in SUBSET Checks :
       \E v \in ClaimNextPendingVerification(checks, Grants[Credential[p]],
                                             locked) :
          /\ checks' = [checks EXCEPT ![v].claimedBy = Credential[p]]
          /\ hand' = [hand EXCEPT
               ![p] = [NoJob EXCEPT !.pc = "config", !.check = v]]
  /\ UNCHANGED <<envs, reg, ask, posts, cli, audit, faults>>

(* The environment of the check in p's hand. *)
EnvOf(p) == envs[checks[hand[p].check].env]

(* GetAWSConfig; a missing row is a 500, and the check stays claimed. *)
GetAWSConfig(p) ==
  /\ hand[p].pc = "config"
  /\ \/ /\ EnvOf(p).config
        /\ hand' = [hand EXCEPT ![p].pc = "roles"]
     \/ /\ ~EnvOf(p).config
        /\ hand' = [hand EXCEPT ![p] = NoJob]
  /\ UNCHANGED <<envs, reg, checks, ask, posts, cli, audit, faults>>

(* Mutant of GetAWSTierRole: a missing role is skipped instead of a 500. *)
SkipMissingRole(p, t) ==
  /\ hand[p].pc = "roles"
  /\ t \notin hand[p].roles
  /\ hand' = [hand EXCEPT
       ![p].roles = @ \cup ({t} \cap EnvOf(p).roles),
       ![p].pc = IF EnvOf(p).roles \subseteq hand[p].roles \cup {t}
                 THEN "checking" ELSE "roles"]
  /\ UNCHANGED <<envs, reg, checks, ask, posts, cli, audit, faults>>

(* GetAWSTierRole, tier by tier; the last one completes the answer. *)
GetAWSTierRole(p, t) ==
  /\ hand[p].pc = "roles"
  /\ t \notin hand[p].roles
  /\ \/ /\ t \in EnvOf(p).roles
        /\ hand' = [hand EXCEPT
             ![p].roles = @ \cup {t},
             ![p].pc = IF Tiers \subseteq hand[p].roles \cup {t}
                       THEN "checking" ELSE "roles"]
     \/ /\ t \notin EnvOf(p).roles
        /\ hand' = [hand EXCEPT ![p] = NoJob]
  /\ UNCHANGED <<envs, reg, checks, ask, posts, cli, audit, faults>>

-------------------------------------------------------------------------------
(* The worker's side of pollVerifications.                                  *)

(* The tiers of job.RoleARNs that runChecks has not tried yet. *)
Untried(p) == { t \in hand[p].roles : \A b \in BOOLEAN :
                                        <<t, b>> \notin hand[p].results }

(* Mutant of MintCredentials: the first failure abandons the job. *)
MintOrGiveUp(p, t, ok) ==
  /\ hand[p].pc = "checking"
  /\ t \in Untried(p)
  /\ hand' = [hand EXCEPT
       ![p] = IF ok THEN [@ EXCEPT !.results = @ \cup {<<t, ok>>}] ELSE NoJob]
  /\ UNCHANGED <<envs, reg, checks, ask, posts, cli, audit, faults>>

(* runChecks: MintCredentials assumes the tier's role, or it does not. *)
MintCredentials(p, t, ok) ==
  /\ hand[p].pc = "checking"
  /\ t \in Untried(p)
  /\ hand' = [hand EXCEPT ![p].results = @ \cup {<<t, ok>>}]
  /\ UNCHANGED <<envs, reg, checks, ask, posts, cli, audit, faults>>

(* ReportResult: one POST, which Go's transport does not repeat. *)
ReportResult(p) ==
  /\ hand[p].pc = "checking"
  /\ Untried(p) = {}
  /\ posts' = posts \cup {[from |-> p, check |-> hand[p].check,
                           results |-> hand[p].results]}
  /\ hand' = [hand EXCEPT ![p].pc = "sent"]
  /\ UNCHANGED <<envs, reg, checks, ask, cli, audit, faults>>

(* The poller or the handler serving it dies, or an answer is lost. *)
PollInterrupted(p) ==
  /\ hand[p].pc # "idle"
  /\ Fault
  /\ hand' = [hand EXCEPT ![p] = NoJob]
  /\ UNCHANGED <<envs, reg, checks, ask, posts, cli, audit>>

-------------------------------------------------------------------------------
(* handlePostWorkerVerificationResult and Store.Complete.                   *)

(* Mutant of Verdict: a status the CHECK constraint does not know. *)
VerdictPartial(results) ==
  IF \A t \in Tiers : <<t, FALSE>> \notin results THEN "succeeded"
  ELSE IF \E t \in Tiers : <<t, TRUE>> \in results THEN "partial" ELSE "failed"

(* Every tier reported ok, and at least one tier reported. *)
Verdict(results) ==
  IF results # {} /\ \A t \in Tiers : <<t, FALSE>> \notin results
  THEN "succeeded" ELSE "failed"

(* CompleteVerification ... WHERE id = $1 AND claimed_by = $4: the status   *)
(* the row is in does not matter.                                           *)
CompleteVerificationWhere(row, worker) == row.claimedBy = worker

(* The row completed, or a 404; the sender, if it still waits, takes        *)
(* whatever answer it gets.                                                 *)
Complete(m) ==
  /\ m \in posts
  /\ posts' = posts \ {m}
  /\ checks' =
       IF CompleteVerificationWhere(checks[m.check], Credential[m.from])
       THEN [checks EXCEPT ![m.check].status = Verdict(m.results),
                           ![m.check].results = m.results]
       ELSE checks
  /\ hand' = [hand EXCEPT
       ![m.from] = IF @.pc = "sent" /\ @.check = m.check THEN NoJob ELSE @]
  /\ UNCHANGED <<envs, reg, ask, cli, audit, faults>>

(* The connection breaks before the report is handled. *)
PostLost(m) ==
  /\ m \in posts
  /\ Fault
  /\ posts' = posts \ {m}
  /\ hand' = [hand EXCEPT
       ![m.from] = IF @.pc = "sent" /\ @.check = m.check THEN NoJob ELSE @]
  /\ UNCHANGED <<envs, reg, checks, ask, cli, audit>>

-------------------------------------------------------------------------------
RegisterStep(e) ==
  \/ CreateAWSConfig(e)
  \/ \E t \in Tiers : CreateAWSTierRole(e, t)
  \/ RegisterAudit(e)

PollStep(p) ==
  \/ NextJob(p)
  \/ GetAWSConfig(p)
  \/ \E t \in Tiers : GetAWSTierRole(p, t)
  \/ \E t \in Tiers, ok \in BOOLEAN : MintCredentials(p, t, ok)
  \/ ReportResult(p)

CompleteStep(p) == \E m \in posts : m.from = p /\ Complete(m)

Next ==
  \/ \E e \in Envs : \/ CreateEnvironment(e)
                     \/ RegisterStep(e)
                     \/ RegisterInterrupted(e)
  \/ \E v \in Checks : \/ \E e \in Envs : CreateVerification(v, e)
                       \/ VerifyAudit(v)
                       \/ VerifyInterrupted(v)
                       \/ PrintVerificationResult(v)
                       \/ VerifyTimeout(v)
  \/ \E p \in Pollers : \/ PollStep(p)
                        \/ PollInterrupted(p)
                        \/ CompleteStep(p)
  \/ \E m \in posts : PostLost(m)

Spec == Init /\ [][Next]_vars

(* Handlers that have started keep running, the poll loop polls on every    *)
(* tick and carries its job on, and a report that is not lost is handled.   *)
FairSpec ==
  /\ Spec
  /\ \A e \in Envs : WF_vars(RegisterStep(e))
  /\ \A v \in Checks : WF_vars(VerifyAudit(v))
  /\ \A p \in Pollers : WF_vars(PollStep(p)) /\ WF_vars(CompleteStep(p))

-------------------------------------------------------------------------------
(* Every INSERT of the registration was done. *)
Registered(e) == envs[e].row /\ envs[e].config /\ envs[e].roles = Tiers

(* A verdict speaks for the results the row shows, and they for every tier. *)
SoundRow(row) ==
  /\ row.status = "succeeded" =>
       /\ \A t \in Tiers : <<t, TRUE>> \in row.results /\ <<t, FALSE>> \notin row.results
       /\ Registered(row.env)
       /\ row.env \in Grants[row.claimedBy]
  /\ row.status = "failed" =>
       /\ \E t \in Tiers : <<t, FALSE>> \in row.results
       /\ \A t \in Tiers : \E b \in BOOLEAN : <<t, b>> \in row.results

(* A check succeeds, and idpctl says so, only if a worker granted its       *)
(* environment assumed the role of each of the three tiers, all of them     *)
(* stored; one that failed has a tier that could not be assumed, and what   *)
(* idpctl told is still the verdict.  No registration in progress and no    *)
(* interruption can turn a partial job into a verdict                       *)
(* (handleGetNextWorkerVerification, runChecks, Store.Complete).            *)
VerdictSound ==
  \A v \in Checks :
    /\ SoundRow(checks[v])
    /\ cli[v] \in Verdicts => checks[v].status = cli[v]

(* A check that is being worked on, or whose report is under way, is still  *)
(* pending and claimed by that worker's credential, and nobody else works   *)
(* on it: not a second process with the same credential, and not the same   *)
(* process after a restart (FOR UPDATE SKIP LOCKED, pollVerifications).     *)
OneVerifier ==
  /\ \A p \in Pollers :
       hand[p].pc # "idle" =>
         /\ hand[p].check \in Checks
         /\ checks[hand[p].check].status = "pending"
         /\ checks[hand[p].check].claimedBy = Credential[p]
         /\ \A q \in Pollers : q # p => hand[q].check # hand[p].check
  /\ \A m \in posts :
       /\ checks[m.check].status = "pending"
       /\ checks[m.check].claimedBy = Credential[m.from]
       /\ \A n \in posts : n.check = m.check => n = m
       /\ \A p \in Pollers :
            hand[p].check = m.check => p = m.from /\ hand[p].pc = "sent"

(* A verdict is never overwritten, although CompleteVerification's WHERE    *)
(* clause does not ask for a pending row: a delayed report cannot replace   *)
(* the result an operator has already acted on (Store.Complete).            *)
VerdictFinal ==
  [][\A v \in Checks :
       checks[v].status \in Verdicts => checks'[v] = checks[v]]_vars

(* A check that waits for a worker while its environment is completely      *)
(* registered gets a verdict, if some running worker is granted the         *)
(* environment and nothing is interrupted; a check claimed earlier may wait *)
(* for ever (pollVerifications, handleGetNextWorkerVerification).           *)
EventuallyVerified ==
  \A v \in Checks :
    /\ checks[v].status = "pending" /\ checks[v].claimedBy = NULL
    /\ Registered(checks[v].env)
    /\ \E p \in Pollers : checks[v].env \in Grants[Credential[p]]
    ~> checks[v].status \in Verdicts \/ faults > 0

-------------------------------------------------------------------------------
(* The inductive invariant.                                                 *)

(* The INSERTs of a registration happen in order. *)
RegistrationInv ==
  \A e \in Envs :
    /\ envs[e].config => envs[e].row
    /\ envs[e].roles # {} => envs[e].config
    /\ reg[e] # "idle" => envs[e].row
    /\ reg[e] \in {"roles", "audit"} => envs[e].config

(* A row has an environment; only a claimed row has a verdict. *)
CheckInv ==
  \A v \in Checks :
    /\ checks[v].status = "absent" => cli[v] = "none" /\ ask[v] = "idle"
    /\ checks[v].status # "absent" => checks[v].env \in Envs
    /\ ask[v] = "audit" => cli[v] = "none"
    /\ checks[v].claimedBy = NULL => checks[v].status \in {"absent", "pending"}
    /\ checks[v].claimedBy # NULL => checks[v].status # "absent"
    /\ checks[v].claimedBy \in Workers =>
         checks[v].env \in Grants[checks[v].claimedBy]

(* What a poller holds was read from its environment, whose rows stay. *)
JobInv ==
  /\ \A p \in Pollers :
       /\ hand[p].pc = "idle" => hand[p].check = NULL
       /\ hand[p].pc \in {"roles", "checking", "sent"} => EnvOf(p).config
       /\ hand[p].roles # {} => hand[p].pc \in {"roles", "checking", "sent"}
                              /\ hand[p].roles \subseteq EnvOf(p).roles
       /\ hand[p].pc \in {"checking", "sent"} => hand[p].roles = Tiers
  /\ \A m \in posts :
       /\ Registered(checks[m.check].env)
       /\ \A t \in Tiers : \E b \in BOOLEAN : <<t, b>> \in m.results

IInv ==
  /\ TypeOK /\ RegistrationInv /\ CheckInv /\ JobInv
  /\ OneVerifier /\ VerdictSound
===============================================================================
