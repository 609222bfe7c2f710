------------------------- MODULE ConnectivityProofs ---------------------------
(***************************************************************************)
(* Every reachable state of Connectivity satisfies IInv, hence its safety  *)
(* properties: one lemma per action shows that the action keeps every      *)
(* conjunct, and NextIInv collects them.                                   *)
(***************************************************************************)
EXTENDS Connectivity, TLAPS

(* An empty database satisfies the invariant. *)
LEMMA InitIInv == Init => IInv
<1> SUFFICES ASSUME Init PROVE IInv
  OBVIOUS
<1>1. TypeOK
  BY BoundsAssumption DEF Init, TypeOK, EnvRow, RegSteps, CheckRow, TierResults, NoCheck, NoJob, Job, PollSteps
<1>2. RegistrationInv /\ CheckInv /\ VerdictSound
  BY NoNullAssumption DEF Init, RegistrationInv, CheckInv, VerdictSound, SoundRow, NoCheck, Verdicts
<1>3. JobInv /\ OneVerifier
  BY DEF Init, JobInv, OneVerifier, NoJob
<1> QED
  BY <1>1, <1>2, <1>3 DEF IInv

-------------------------------------------------------------------------------
(* Registration only adds to environments, which disturbs no job, report   *)
(* or verdict.                                                             *)
LEMMA EnvGrowth ==
  ASSUME IInv, UNCHANGED <<checks, hand, posts, cli>>,
         envs' \in [Envs -> EnvRow],
         \A e \in Envs : /\ envs[e].row => envs'[e].row
                         /\ envs[e].config => envs'[e].config
                         /\ envs[e].roles \subseteq envs'[e].roles
  PROVE  JobInv' /\ VerdictSound'
<1>1. \A e \in Envs : Registered(e) => Registered(e)'
  BY DEF Registered, IInv, TypeOK, EnvRow
<1>2. \A v \in Checks : checks[v].status # "absent" => checks[v].env \in Envs
  BY DEF IInv, CheckInv
<1>3. VerdictSound'
  BY <1>1, <1>2 DEF IInv, VerdictSound, SoundRow
<1>4. \A m \in posts : m.check \in Checks /\ checks[m.check].env \in Envs
  BY <1>2 DEF IInv, OneVerifier, TypeOK, Report
<1>5. \A p \in Pollers : hand[p].pc # "idle" => checks[hand[p].check].env \in Envs
  BY <1>2 DEF IInv, OneVerifier
<1>6. \A p \in Pollers : hand[p].roles # {} => hand[p].pc # "idle"
  BY DEF IInv, JobInv
<1>7. JobInv'
  BY <1>1, <1>4, <1>5, <1>6 DEF IInv, JobInv, EnvOf
<1> QED
  BY <1>3, <1>7

(* The INSERT of the row. *)
LEMMA CreateEnvironmentInv ==
  ASSUME IInv, NEW e \in Envs, CreateEnvironment(e)
  PROVE  IInv'
<1> USE DEF CreateEnvironment
<1>1. /\ envs' \in [Envs -> EnvRow]
      /\ reg' \in [Envs -> RegSteps]
      /\ envs'[e].row = TRUE /\ envs'[e].config = envs[e].config
      /\ envs'[e].roles = envs[e].roles
      /\ reg'[e] = "config"
      /\ \A x \in Envs : x # e => envs'[x] = envs[x] /\ reg'[x] = reg[x]
  BY DEF IInv, TypeOK, EnvRow, RegSteps
<1>2. JobInv' /\ VerdictSound'
  <2>1. \A x \in Envs : /\ envs[x].row => envs'[x].row
                        /\ envs[x].config => envs'[x].config
                        /\ envs[x].roles \subseteq envs'[x].roles
    BY <1>1
  <2> QED
    BY <1>1, <2>1, EnvGrowth
<1>3. RegistrationInv'
  BY <1>1 DEF IInv, RegistrationInv
<1>4. TypeOK' /\ CheckInv' /\ OneVerifier'
  BY <1>1 DEF IInv, TypeOK, CheckInv, OneVerifier
<1> QED
  BY <1>2, <1>3, <1>4 DEF IInv

(* The INSERT of the AWS config. *)
LEMMA CreateAWSConfigInv ==
  ASSUME IInv, NEW e \in Envs, CreateAWSConfig(e)
  PROVE  IInv'
<1> USE DEF CreateAWSConfig
<1>1. /\ envs' \in [Envs -> EnvRow]
      /\ reg' \in [Envs -> RegSteps]
      /\ envs'[e].row = envs[e].row /\ envs'[e].config = TRUE
      /\ envs'[e].roles = envs[e].roles
      /\ reg'[e] = "roles"
      /\ \A x \in Envs : x # e => envs'[x] = envs[x] /\ reg'[x] = reg[x]
  BY DEF IInv, TypeOK, EnvRow, RegSteps
<1>2. JobInv' /\ VerdictSound'
  <2>1. \A x \in Envs : /\ envs[x].row => envs'[x].row
                        /\ envs[x].config => envs'[x].config
                        /\ envs[x].roles \subseteq envs'[x].roles
    BY <1>1
  <2> QED
    BY <1>1, <2>1, EnvGrowth
<1>3. RegistrationInv'
  BY <1>1 DEF IInv, RegistrationInv
<1>4. TypeOK' /\ CheckInv' /\ OneVerifier'
  BY <1>1 DEF IInv, TypeOK, CheckInv, OneVerifier
<1> QED
  BY <1>2, <1>3, <1>4 DEF IInv

(* The INSERT of a tier role. *)
LEMMA CreateAWSTierRoleInv ==
  ASSUME IInv, NEW e \in Envs, NEW t \in Tiers, CreateAWSTierRole(e, t)
  PROVE  IInv'
<1> USE DEF CreateAWSTierRole
<1>1. /\ envs' \in [Envs -> EnvRow]
      /\ reg' \in [Envs -> RegSteps]
      /\ envs'[e].row = envs[e].row /\ envs'[e].config = envs[e].config
      /\ envs'[e].roles = envs[e].roles \cup {t}
      /\ reg'[e] \in {"roles", "audit"}
      /\ \A x \in Envs : x # e => envs'[x] = envs[x] /\ reg'[x] = reg[x]
  BY DEF IInv, TypeOK, EnvRow, RegSteps
<1>2. JobInv' /\ VerdictSound'
  <2>1. \A x \in Envs : /\ envs[x].row => envs'[x].row
                        /\ envs[x].config => envs'[x].config
                        /\ envs[x].roles \subseteq envs'[x].roles
    BY <1>1
  <2> QED
    BY <1>1, <2>1, EnvGrowth
<1>3. RegistrationInv'
  BY <1>1 DEF IInv, RegistrationInv
<1>4. TypeOK' /\ CheckInv' /\ OneVerifier'
  BY <1>1 DEF IInv, TypeOK, CheckInv, OneVerifier
<1> QED
  BY <1>2, <1>3, <1>4 DEF IInv

(* The audit event ends the registration handler. *)
LEMMA RegisterAuditInv ==
  ASSUME IInv, NEW e \in Envs, RegisterAudit(e)
  PROVE  IInv'
<1> USE DEF RegisterAudit
<1>1. TypeOK'
  BY DEF IInv, TypeOK, RegSteps
<1>2. RegistrationInv'
  BY DEF IInv, RegistrationInv, TypeOK
<1>3. CheckInv' /\ OneVerifier'
  BY DEF IInv, CheckInv, OneVerifier
<1>4. JobInv'
  BY DEF IInv, JobInv, Registered, EnvOf
<1>5. VerdictSound'
  BY DEF IInv, VerdictSound, SoundRow, Registered
<1> QED
  BY <1>1, <1>2, <1>3, <1>4, <1>5 DEF IInv

(* An interrupted registration leaves what it has inserted. *)
LEMMA RegisterInterruptedInv ==
  ASSUME IInv, NEW e \in Envs, RegisterInterrupted(e)
  PROVE  IInv'
<1> USE DEF RegisterInterrupted
<1>1. TypeOK'
  BY BoundsAssumption DEF IInv, TypeOK, RegSteps, Fault
<1>2. RegistrationInv'
  BY DEF IInv, RegistrationInv, TypeOK
<1>3. CheckInv' /\ OneVerifier'
  BY DEF IInv, CheckInv, OneVerifier
<1>4. JobInv'
  BY DEF IInv, JobInv, Registered, EnvOf
<1>5. VerdictSound'
  BY DEF IInv, VerdictSound, SoundRow, Registered
<1> QED
  BY <1>1, <1>2, <1>3, <1>4, <1>5 DEF IInv

-------------------------------------------------------------------------------
(* A new check is nobody's. *)
LEMMA CreateVerificationInv ==
  ASSUME IInv, NEW v \in Checks, NEW e \in Envs, CreateVerification(v, e)
  PROVE  IInv'
<1> USE DEF CreateVerification
<1>1. /\ checks' \in [Checks -> CheckRow]
      /\ ask' \in [Checks -> {"idle", "audit"}]
      /\ checks'[v].status = "pending" /\ checks'[v].env = e
      /\ checks'[v].claimedBy = NULL
      /\ \A u \in Checks : u # v => checks'[u] = checks[u] /\ ask'[u] = ask[u]
  BY DEF IInv, TypeOK, CheckRow, NoCheck, TierResults
<1>2. /\ checks[v].status = "absent" /\ cli[v] = "none"
      /\ \A p \in Pollers : hand[p].pc # "idle" => hand[p].check # v
      /\ \A m \in posts : m.check # v /\ m.check \in Checks
  BY DEF IInv, OneVerifier, CheckInv, TypeOK, Report
<1>3. TypeOK'
  BY <1>1 DEF IInv, TypeOK
<1>4. CheckInv'
  BY <1>1, <1>2, NoNullAssumption DEF IInv, CheckInv
<1>5. OneVerifier'
  BY <1>1, <1>2 DEF IInv, OneVerifier
<1>6. JobInv'
  <2>1. \A p \in Pollers : hand[p].pc # "idle" => EnvOf(p)' = EnvOf(p)
    BY <1>1, <1>2 DEF EnvOf, IInv, OneVerifier
  <2>2. \A m \in posts : Registered(checks[m.check].env) =>
                           Registered(checks[m.check].env)'
    BY <1>1, <1>2 DEF Registered
  <2>3. \A p \in Pollers : hand[p].roles # {} => hand[p].pc # "idle"
    BY DEF IInv, JobInv
  <2> QED
    BY <2>1, <2>2, <2>3 DEF IInv, JobInv
<1>7. VerdictSound'
  BY <1>1, <1>2 DEF IInv, VerdictSound, SoundRow, Registered, Verdicts
<1>8. RegistrationInv'
  BY DEF IInv, RegistrationInv
<1> QED
  BY <1>3, <1>4, <1>5, <1>6, <1>7, <1>8 DEF IInv

(* idpctl polls a check that exists. *)
LEMMA VerifyAuditInv ==
  ASSUME IInv, NEW v \in Checks, VerifyAudit(v)
  PROVE  IInv'
<1> USE DEF VerifyAudit
<1>1. TypeOK'
  BY DEF IInv, TypeOK
<1>2. CheckInv'
  BY DEF IInv, CheckInv, TypeOK
<1>3. VerdictSound'
  BY DEF IInv, VerdictSound, SoundRow, Registered, TypeOK, Verdicts
<1>4. RegistrationInv' /\ JobInv' /\ OneVerifier'
  BY DEF IInv, RegistrationInv, JobInv, OneVerifier, Registered, EnvOf
<1> QED
  BY <1>1, <1>2, <1>3, <1>4 DEF IInv

(* An interrupted request leaves its check to be claimed. *)
LEMMA VerifyInterruptedInv ==
  ASSUME IInv, NEW v \in Checks, VerifyInterrupted(v)
  PROVE  IInv'
<1> USE DEF VerifyInterrupted
<1>1. TypeOK'
  BY BoundsAssumption DEF IInv, TypeOK, Fault
<1>2. CheckInv'
  BY DEF IInv, CheckInv, TypeOK
<1>3. RegistrationInv' /\ OneVerifier'
  BY DEF IInv, RegistrationInv, OneVerifier
<1>4. JobInv'
  BY DEF IInv, JobInv, Registered, EnvOf
<1>5. VerdictSound'
  BY DEF IInv, VerdictSound, SoundRow, Registered
<1> QED
  BY <1>1, <1>2, <1>3, <1>4, <1>5 DEF IInv

(* idpctl prints the verdict it reads. *)
LEMMA PrintVerificationResultInv ==
  ASSUME IInv, NEW v \in Checks, PrintVerificationResult(v)
  PROVE  IInv'
<1> USE DEF PrintVerificationResult
<1>1. TypeOK'
  BY DEF IInv, TypeOK
<1>2. CheckInv'
  BY DEF IInv, CheckInv, TypeOK, Verdicts
<1>3. VerdictSound'
  BY DEF IInv, VerdictSound, SoundRow, Registered, TypeOK
<1>4. RegistrationInv' /\ JobInv' /\ OneVerifier'
  BY ZenonT(60) DEF IInv, RegistrationInv, JobInv, OneVerifier, Registered, EnvOf
<1> QED
  BY <1>1, <1>2, <1>3, <1>4 DEF IInv

(* idpctl gives up without a verdict. *)
LEMMA VerifyTimeoutInv ==
  ASSUME IInv, NEW v \in Checks, VerifyTimeout(v)
  PROVE  IInv'
<1> USE DEF VerifyTimeout
<1>1. TypeOK'
  BY DEF IInv, TypeOK
<1>2. CheckInv'
  BY DEF IInv, CheckInv, TypeOK
<1>3. VerdictSound'
  BY DEF IInv, VerdictSound, SoundRow, Registered, TypeOK, Verdicts
<1>4. RegistrationInv' /\ JobInv' /\ OneVerifier'
  BY DEF IInv, RegistrationInv, JobInv, OneVerifier, Registered, EnvOf
<1> QED
  BY <1>1, <1>2, <1>3, <1>4 DEF IInv

-------------------------------------------------------------------------------
(* A check is claimed while nobody works on it. *)
LEMMA NextJobInv ==
  ASSUME IInv, NEW p \in Pollers, NextJob(p)
  PROVE  IInv'
<1> USE DEF NextJob
<1>1. PICK v \in Checks :
        /\ ClaimNextPendingVerificationWhere(checks[v], Grants[Credential[p]])
        /\ checks' = [checks EXCEPT ![v].claimedBy = Credential[p]]
        /\ hand' = [hand EXCEPT ![p] = [NoJob EXCEPT !.pc = "config", !.check = v]]
  BY DEF IInv, TypeOK, ClaimNextPendingVerification
<1>2. /\ checks[v].status = "pending" /\ checks[v].claimedBy = NULL
      /\ checks[v].env \in Grants[Credential[p]]
  BY <1>1 DEF ClaimNextPendingVerificationWhere
<1>3. Credential[p] \in Workers /\ Credential[p] # NULL
  BY WorkersAssumption, NoNullAssumption
<1>4. /\ checks' \in [Checks -> CheckRow]
      /\ checks'[v].status = "pending" /\ checks'[v].env = checks[v].env
      /\ checks'[v].claimedBy = Credential[p]
      /\ \A u \in Checks : u # v => checks'[u] = checks[u]
  BY <1>1, <1>2, <1>3 DEF IInv, TypeOK, CheckRow
<1>5. /\ hand' \in [Pollers -> Job]
      /\ hand'[p].pc = "config" /\ hand'[p].check = v /\ hand'[p].roles = {}
      /\ \A q \in Pollers : q # p => hand'[q] = hand[q]
  BY <1>1 DEF IInv, TypeOK, Job, NoJob, PollSteps, TierResults
<1>6. /\ \A q \in Pollers : hand[q].check # v
      /\ \A m \in posts : m.check # v /\ m.check \in Checks
      /\ \A q \in Pollers : Credential[q] # NULL
  <2>1. \A q \in Pollers : Credential[q] # NULL
    BY WorkersAssumption, NoNullAssumption
  <2> QED
    BY <1>2, <2>1, NoNullAssumption DEF IInv, OneVerifier, JobInv, TypeOK, Report
<1>7. TypeOK'
  BY <1>4, <1>5 DEF IInv, TypeOK
<1>8. CheckInv'
  BY <1>2, <1>3, <1>4 DEF IInv, CheckInv
<1>9. OneVerifier'
  BY <1>4, <1>5, <1>6 DEF IInv, OneVerifier
<1>10. JobInv'
  <2>1. \A q \in Pollers : q # p /\ hand[q].pc # "idle" => EnvOf(q)' = EnvOf(q)
    BY <1>4, <1>5, <1>6 DEF EnvOf, IInv, OneVerifier
  <2>2. \A m \in posts : Registered(checks[m.check].env) =>
                           Registered(checks[m.check].env)'
    BY <1>4, <1>6 DEF Registered
  <2>3. \A q \in Pollers : hand[q].roles # {} => hand[q].pc # "idle"
    BY DEF IInv, JobInv
  <2> QED
    BY <1>5, <2>1, <2>2, <2>3 DEF IInv, JobInv
<1>11. VerdictSound'
  <2>1. cli[v] \notin Verdicts
    BY <1>2 DEF IInv, VerdictSound, SoundRow, Verdicts
  <2>2. \A e : Registered(e)' <=> Registered(e)
    BY DEF Registered
  <2> QED
    BY <1>4, <2>1, <2>2 DEF IInv, VerdictSound, SoundRow
<1>12. RegistrationInv'
  BY DEF IInv, RegistrationInv
<1> QED
  BY <1>7, <1>8, <1>9, <1>10, <1>11, <1>12 DEF IInv

(* A poller that drops its job, whatever became of it, disturbs nothing. *)
LEMMA DropJob ==
  ASSUME IInv, NEW p \in Pollers, hand' = [hand EXCEPT ![p] = NoJob],
         UNCHANGED <<envs, checks, posts>>
  PROVE  JobInv' /\ OneVerifier' /\ hand' \in [Pollers -> Job]
<1>1. /\ hand' \in [Pollers -> Job]
      /\ hand'[p].pc = "idle" /\ hand'[p].check = NULL /\ hand'[p].roles = {}
      /\ \A q \in Pollers : q # p => hand'[q] = hand[q]
  BY DEF IInv, TypeOK, Job, NoJob, PollSteps, TierResults
<1>2. \A m \in posts : m.check # NULL
  BY NoNullAssumption DEF IInv, TypeOK, Report
<1>3. \A q \in Pollers : hand[q].pc # "idle" => hand[q].check # NULL
  BY NoNullAssumption DEF IInv, OneVerifier
<1>4. OneVerifier'
  BY <1>1, <1>2, <1>3 DEF IInv, OneVerifier
<1>5. \A q \in Pollers : q # p => EnvOf(q)' = EnvOf(q)
  BY <1>1 DEF EnvOf
<1>6. JobInv'
  BY <1>1, <1>5 DEF IInv, JobInv, Registered
<1> QED
  BY <1>1, <1>4, <1>6

(* The handler reads a config that stays. *)
LEMMA GetAWSConfigInv ==
  ASSUME IInv, NEW p \in Pollers, GetAWSConfig(p)
  PROVE  IInv'
<1> USE DEF GetAWSConfig
<1>1. JobInv' /\ OneVerifier' /\ hand' \in [Pollers -> Job]
  <2>1. CASE hand' = [hand EXCEPT ![p] = NoJob]
    BY <2>1, DropJob
  <2>2. CASE EnvOf(p).config /\ hand' = [hand EXCEPT ![p].pc = "roles"]
    <3>1. /\ hand' \in [Pollers -> Job]
          /\ hand'[p].pc = "roles" /\ hand'[p].check = hand[p].check
          /\ hand'[p].roles = hand[p].roles
          /\ \A q \in Pollers : q # p => hand'[q] = hand[q]
      BY <2>2 DEF IInv, TypeOK, Job, PollSteps
    <3>2. OneVerifier'
      BY <3>1 DEF IInv, OneVerifier
    <3>3. \A q \in Pollers : EnvOf(q)' = EnvOf(q)
      BY <3>1 DEF EnvOf
    <3>4. JobInv'
      BY <2>2, <3>1, <3>3 DEF IInv, JobInv, Registered
    <3> QED
      BY <3>1, <3>2, <3>4
  <2> QED
    BY <2>1, <2>2
<1>2. TypeOK' /\ RegistrationInv' /\ CheckInv' /\ VerdictSound'
  BY <1>1 DEF IInv, TypeOK, RegistrationInv, CheckInv, VerdictSound, SoundRow, Registered
<1> QED
  BY <1>1, <1>2 DEF IInv

(* A job is delivered only with all three roles. *)
LEMMA GetAWSTierRoleInv ==
  ASSUME IInv, NEW p \in Pollers, NEW t \in Tiers, GetAWSTierRole(p, t)
  PROVE  IInv'
<1> USE DEF GetAWSTierRole
<1>1. JobInv' /\ OneVerifier' /\ hand' \in [Pollers -> Job]
  <2>1. CASE hand' = [hand EXCEPT ![p] = NoJob]
    BY <2>1, DropJob
  <2>2. CASE t \in EnvOf(p).roles /\ hand' # [hand EXCEPT ![p] = NoJob]
    <3>1. /\ hand' \in [Pollers -> Job]
          /\ hand'[p].pc \in {"roles", "checking"}
          /\ hand'[p].check = hand[p].check
          /\ hand'[p].roles = hand[p].roles \cup {t}
          /\ hand'[p].pc = "checking" => hand'[p].roles = Tiers
          /\ \A q \in Pollers : q # p => hand'[q] = hand[q]
      BY <2>2 DEF IInv, TypeOK, Job, PollSteps
    <3>2. OneVerifier'
      BY <3>1 DEF IInv, OneVerifier
    <3>3. \A q \in Pollers : EnvOf(q)' = EnvOf(q)
      BY <3>1 DEF EnvOf
    <3>4. JobInv'
      <4>1. hand[p].roles \subseteq EnvOf(p).roles /\ EnvOf(p).config
        BY DEF IInv, JobInv
      <4>2. \A e : Registered(e)' <=> Registered(e)
        BY DEF Registered
      <4>3. \A m \in posts' : /\ Registered(checks[m.check].env)'
                              /\ \A x \in Tiers : \E b \in BOOLEAN : <<x, b>> \in m.results
        BY <4>2 DEF IInv, JobInv
      <4>4. hand'[p].roles \subseteq EnvOf(p)'.roles /\ EnvOf(p)'.config
        BY <2>2, <3>1, <3>3, <4>1
      <4>5. \A q \in Pollers :
           /\ hand'[q].pc = "idle" => hand'[q].check = NULL
           /\ hand'[q].pc \in {"roles", "checking", "sent"} => EnvOf(q)'.config
           /\ hand'[q].roles # {} => hand'[q].pc \in {"roles", "checking", "sent"}
                                  /\ hand'[q].roles \subseteq EnvOf(q)'.roles
           /\ hand'[q].pc \in {"checking", "sent"} => hand'[q].roles = Tiers
        <5> SUFFICES ASSUME NEW q \in Pollers
                     PROVE  /\ hand'[q].pc = "idle" => hand'[q].check = NULL
                            /\ hand'[q].pc \in {"roles", "checking", "sent"} => EnvOf(q)'.config
                            /\ hand'[q].roles # {} =>
                                 /\ hand'[q].pc \in {"roles", "checking", "sent"}
                                 /\ hand'[q].roles \subseteq EnvOf(q)'.roles
                            /\ hand'[q].pc \in {"checking", "sent"} => hand'[q].roles = Tiers
          OBVIOUS
        <5>1. CASE q = p
          BY <5>1, <3>1, <4>4
        <5>2. CASE q # p
          <6>1. hand'[q] = hand[q] /\ EnvOf(q)' = EnvOf(q)
            BY <5>2, <3>1, <3>3
          <6> QED
            BY <6>1 DEF IInv, JobInv
        <5> QED
          BY <5>1, <5>2
      <4> QED
        BY <4>3, <4>5 DEF JobInv
    <3> QED
      BY <3>1, <3>2, <3>4
  <2> QED
    BY <2>1, <2>2
<1>2. TypeOK' /\ RegistrationInv' /\ CheckInv' /\ VerdictSound'
  BY <1>1 DEF IInv, TypeOK, RegistrationInv, CheckInv, VerdictSound, SoundRow, Registered
<1> QED
  BY <1>1, <1>2 DEF IInv

(* A tier is tried. *)
LEMMA MintCredentialsInv ==
  ASSUME IInv, NEW p \in Pollers, NEW t \in Tiers, NEW ok \in BOOLEAN,
         MintCredentials(p, t, ok)
  PROVE  IInv'
<1> USE DEF MintCredentials
<1>1. /\ hand' \in [Pollers -> Job]
      /\ hand'[p].pc = hand[p].pc /\ hand'[p].check = hand[p].check
      /\ hand'[p].roles = hand[p].roles
      /\ \A q \in Pollers : q # p => hand'[q] = hand[q]
  BY DEF IInv, TypeOK, Job, TierResults
<1>2. OneVerifier'
  BY <1>1 DEF IInv, OneVerifier
<1>3. \A q \in Pollers : EnvOf(q)' = EnvOf(q)
  BY <1>1 DEF EnvOf
<1>4. JobInv'
  BY <1>1, <1>3 DEF IInv, JobInv, Registered
<1>5. TypeOK' /\ RegistrationInv' /\ CheckInv' /\ VerdictSound'
  BY <1>1 DEF IInv, TypeOK, RegistrationInv, CheckInv, VerdictSound, SoundRow, Registered
<1> QED
  BY <1>2, <1>4, <1>5 DEF IInv

(* The one report of a job covers every tier. *)
LEMMA ReportResultInv ==
  ASSUME IInv, NEW p \in Pollers, ReportResult(p)
  PROVE  IInv'
<1> USE DEF ReportResult
<1> DEFINE m == [from |-> p, check |-> hand[p].check, results |-> hand[p].results]
<1>1. /\ hand[p].pc = "checking" /\ hand[p].check \in Checks
      /\ checks[hand[p].check].status = "pending"
      /\ checks[hand[p].check].claimedBy = Credential[p]
      /\ hand[p].roles = Tiers
      /\ hand[p].results \in TierResults
  BY DEF IInv, OneVerifier, JobInv, TypeOK, Job
<1>2. /\ hand' \in [Pollers -> Job]
      /\ hand'[p].pc = "sent" /\ hand'[p].check = hand[p].check
      /\ hand'[p].roles = hand[p].roles
      /\ \A q \in Pollers : q # p => hand'[q] = hand[q]
  BY DEF IInv, TypeOK, Job, PollSteps
<1>3. m \in Report /\ posts' = posts \cup {m}
  BY <1>1 DEF Report
<1>4. Registered(checks[m.check].env)
  <2>1. checks[m.check].env \in Envs
    BY <1>1 DEF IInv, CheckInv
  <2>2. EnvOf(p).config /\ EnvOf(p).roles = Tiers
    BY <1>1, <2>1 DEF IInv, JobInv, EnvOf, TypeOK, EnvRow, Tiers
  <2> QED
    BY <2>1, <2>2 DEF Registered, EnvOf, IInv, RegistrationInv
<1>5. \A t \in Tiers : \E b \in BOOLEAN : <<t, b>> \in m.results
  BY <1>1 DEF Untried
<1>6. \A n \in posts : n.check # hand[p].check
  BY <1>1 DEF IInv, OneVerifier
<1>7. \A q \in Pollers : q # p => hand[q].check # hand[p].check
  BY <1>1 DEF IInv, OneVerifier
<1>8. OneVerifier'
  <2>1. \A q \in Pollers :
         hand'[q].pc # "idle" =>
           /\ hand'[q].check \in Checks
           /\ checks'[hand'[q].check].status = "pending"
           /\ checks'[hand'[q].check].claimedBy = Credential[q]
           /\ \A r \in Pollers : r # q => hand'[r].check # hand'[q].check
    BY <1>1, <1>2 DEF IInv, OneVerifier
  <2>2. \A n \in posts' :
         /\ checks'[n.check].status = "pending"
         /\ checks'[n.check].claimedBy = Credential[n.from]
         /\ \A n2 \in posts' : n2.check = n.check => n2 = n
    BY <1>1, <1>3, <1>6 DEF IInv, OneVerifier
  <2>3. \A n \in posts', q \in Pollers :
         hand'[q].check = n.check => q = n.from /\ hand'[q].pc = "sent"
    BY <1>1, <1>2, <1>3, <1>6, <1>7 DEF IInv, OneVerifier
  <2> QED
    BY <2>1, <2>2, <2>3 DEF OneVerifier
<1>9. JobInv'
  <2>1. \A q \in Pollers : EnvOf(q)' = EnvOf(q)
    BY <1>2 DEF EnvOf
  <2>2. \A n \in posts' : /\ Registered(checks[n.check].env)'
                          /\ \A t \in Tiers : \E b \in BOOLEAN : <<t, b>> \in n.results
    BY <1>3, <1>4, <1>5 DEF IInv, JobInv, Registered
  <2>3. \A q \in Pollers :
       /\ hand'[q].pc = "idle" => hand'[q].check = NULL
       /\ hand'[q].pc \in {"roles", "checking", "sent"} => EnvOf(q)'.config
       /\ hand'[q].roles # {} => hand'[q].pc \in {"roles", "checking", "sent"}
                              /\ hand'[q].roles \subseteq EnvOf(q)'.roles
       /\ hand'[q].pc \in {"checking", "sent"} => hand'[q].roles = Tiers
    BY <1>1, <1>2, <2>1 DEF IInv, JobInv
  <2> QED
    BY <2>2, <2>3 DEF JobInv
<1>10. TypeOK'
  BY <1>2, <1>3 DEF IInv, TypeOK
<1>11. RegistrationInv' /\ CheckInv' /\ VerdictSound'
  BY DEF IInv, RegistrationInv, CheckInv, VerdictSound, SoundRow, Registered
<1> QED
  BY <1>8, <1>9, <1>10, <1>11 DEF IInv

(* A dead poller works on nothing. *)
LEMMA PollInterruptedInv ==
  ASSUME IInv, NEW p \in Pollers, PollInterrupted(p)
  PROVE  IInv'
<1> USE DEF PollInterrupted
<1>1. JobInv' /\ OneVerifier' /\ hand' \in [Pollers -> Job]
  BY DropJob
<1>2. TypeOK'
  BY <1>1, BoundsAssumption DEF IInv, TypeOK, Fault
<1>3. RegistrationInv' /\ CheckInv' /\ VerdictSound'
  BY DEF IInv, RegistrationInv, CheckInv, VerdictSound, SoundRow, Registered
<1> QED
  BY <1>1, <1>2, <1>3 DEF IInv

-------------------------------------------------------------------------------
(* A report that leaves the network, handled or not, leaves nobody behind  *)
(* who works on its check.                                                 *)
LEMMA PostGone ==
  ASSUME IInv, NEW m \in posts, posts' = posts \ {m},
         hand' = [hand EXCEPT
           ![m.from] = IF @.pc = "sent" /\ @.check = m.check THEN NoJob ELSE @]
  PROVE  /\ hand' \in [Pollers -> Job]
         /\ posts' \subseteq Report
         /\ m.from \in Pollers /\ m.check \in Checks
         /\ \A n \in posts' : n \in posts /\ n.check # m.check
         /\ \A q \in Pollers :
              \/ hand'[q] = NoJob
              \/ hand'[q] = hand[q] /\ hand[q].check # m.check
<1>1. m.from \in Pollers /\ m.check \in Checks
  BY DEF IInv, TypeOK, Report
<1>2. \A q \in Pollers : hand[q].check = m.check => q = m.from /\ hand[q].pc = "sent"
  BY DEF IInv, OneVerifier
<1>3. NoJob \in Job
  BY DEF NoJob, Job, PollSteps, TierResults
<1>4. hand' \in [Pollers -> Job]
  BY <1>1, <1>3 DEF IInv, TypeOK
<1>5. \A q \in Pollers : \/ hand'[q] = NoJob
                         \/ hand'[q] = hand[q] /\ hand[q].check # m.check
  BY <1>1, <1>2 DEF IInv, TypeOK
<1>6. \A n \in posts' : n \in posts /\ n.check # m.check
  BY DEF IInv, OneVerifier
<1> QED
  BY <1>1, <1>4, <1>5, <1>6 DEF IInv, TypeOK

(* With the report gone, what is left keeps its invariants, whatever       *)
(* happened to the row of the report's own check.                          *)
LEMMA PostGoneInv ==
  ASSUME IInv, NEW m \in posts, posts' = posts \ {m}, UNCHANGED envs,
         hand' = [hand EXCEPT
           ![m.from] = IF @.pc = "sent" /\ @.check = m.check THEN NoJob ELSE @],
         \A u \in Checks : u # m.check => checks'[u] = checks[u]
  PROVE  JobInv' /\ OneVerifier'
<1>1. /\ \A n \in posts' : n \in posts /\ n.check # m.check
      /\ \A q \in Pollers :
           \/ hand'[q] = NoJob
           \/ hand'[q] = hand[q] /\ hand[q].check # m.check
  BY PostGone
<1>2. \A n \in posts : n.check \in Checks /\ n.check # NULL
  BY NoNullAssumption DEF IInv, TypeOK, Report
<1>3. \A q \in Pollers : hand[q].pc # "idle" => hand[q].check \in Checks /\ hand[q].check # NULL
  BY NoNullAssumption DEF IInv, OneVerifier
<1>4. NoJob.pc = "idle" /\ NoJob.check = NULL /\ NoJob.roles = {}
  BY DEF NoJob
<1>5. OneVerifier'
  BY <1>1, <1>2, <1>3, <1>4 DEF IInv, OneVerifier
<1>6. \A q \in Pollers : hand'[q].pc # "idle" => EnvOf(q)' = EnvOf(q)
  BY <1>1, <1>3, <1>4 DEF EnvOf
<1>7. \A n \in posts' : Registered(checks[n.check].env)'
  BY <1>1, <1>2 DEF IInv, JobInv, Registered
<1>8. \A q \in Pollers : hand'[q].roles # {} => hand'[q].pc # "idle"
  BY <1>1, <1>4 DEF IInv, JobInv
<1>9. JobInv'
  BY <1>1, <1>4, <1>6, <1>7, <1>8 DEF IInv, JobInv
<1> QED
  BY <1>5, <1>9

(* A report finds its check pending, and writes a sound verdict. *)
LEMMA CompleteInv ==
  ASSUME IInv, NEW m \in posts, Complete(m)
  PROVE  IInv'
<1> USE DEF Complete
<1>1. /\ m.from \in Pollers /\ m.check \in Checks /\ m.results \in TierResults
      /\ checks[m.check].status = "pending"
      /\ checks[m.check].claimedBy = Credential[m.from]
      /\ checks[m.check].env \in Envs
      /\ Registered(checks[m.check].env)
      /\ \A t \in Tiers : \E b \in BOOLEAN : <<t, b>> \in m.results
  BY DEF IInv, OneVerifier, CheckInv, JobInv, TypeOK, Report
<1>2. Credential[m.from] \in Workers /\ Credential[m.from] # NULL
  BY <1>1, WorkersAssumption, NoNullAssumption
<1>3. Verdict(m.results) \in Verdicts
  BY DEF Verdict, Verdicts
<1>4. /\ checks' \in [Checks -> CheckRow]
      /\ checks'[m.check].status = Verdict(m.results)
      /\ checks'[m.check].results = m.results
      /\ checks'[m.check].env = checks[m.check].env
      /\ checks'[m.check].claimedBy = checks[m.check].claimedBy
      /\ \A u \in Checks : u # m.check => checks'[u] = checks[u]
  BY <1>1, <1>3 DEF IInv, TypeOK, CheckRow, CompleteVerificationWhere
<1>5. JobInv' /\ OneVerifier'
  BY <1>4, PostGoneInv
<1>6. TypeOK'
  <2>1. hand' \in [Pollers -> Job] /\ posts' \subseteq Report
    BY PostGone
  <2> QED
    BY <1>4, <2>1 DEF IInv, TypeOK
<1>7. CheckInv'
  BY <1>1, <1>2, <1>3, <1>4 DEF IInv, CheckInv, Verdicts
<1>8. VerdictSound'
  <2>1. Verdict(m.results) = "succeeded" =>
          \A t \in Tiers : <<t, TRUE>> \in m.results /\ <<t, FALSE>> \notin m.results
    BY <1>1 DEF Verdict
  <2>2. Verdict(m.results) = "failed" => \E t \in Tiers : <<t, FALSE>> \in m.results
    BY <1>1 DEF Verdict, Tiers
  <2>3. checks[m.check].env \in Grants[checks[m.check].claimedBy]
    BY <1>1, <1>2 DEF IInv, CheckInv
  <2>4. cli[m.check] \notin Verdicts
    BY <1>1 DEF IInv, VerdictSound, SoundRow, Verdicts
  <2>5. \A e : Registered(e)' <=> Registered(e)
    BY DEF Registered
  <2>6. SoundRow(checks[m.check])'
    BY <1>1, <1>4, <2>1, <2>2, <2>3, <2>5 DEF SoundRow
  <2>7. \A u \in Checks : u # m.check => SoundRow(checks[u])'
    BY <1>4, <2>5 DEF IInv, VerdictSound, SoundRow
  <2> QED
    BY <1>4, <2>4, <2>6, <2>7 DEF IInv, VerdictSound
<1>9. RegistrationInv'
  BY DEF IInv, RegistrationInv
<1> QED
  BY <1>5, <1>6, <1>7, <1>8, <1>9 DEF IInv

(* A lost report ends its sender's work. *)
LEMMA PostLostInv ==
  ASSUME IInv, NEW m \in posts, PostLost(m)
  PROVE  IInv'
<1> USE DEF PostLost
<1>1. JobInv' /\ OneVerifier'
  BY PostGoneInv
<1>2. TypeOK'
  <2>1. hand' \in [Pollers -> Job] /\ posts' \subseteq Report
    BY PostGone
  <2> QED
    BY <2>1, BoundsAssumption DEF IInv, TypeOK, Fault
<1>3. RegistrationInv' /\ CheckInv' /\ VerdictSound'
  BY DEF IInv, RegistrationInv, CheckInv, VerdictSound, SoundRow, Registered
<1> QED
  BY <1>1, <1>2, <1>3 DEF IInv

-------------------------------------------------------------------------------
(* Every step keeps the invariant. *)
LEMMA NextIInv == IInv /\ [Next]_vars => IInv'
<1> SUFFICES ASSUME IInv, [Next]_vars PROVE IInv'
  OBVIOUS
<1>1. ASSUME NEW e \in Envs, CreateEnvironment(e) \/ RegisterStep(e) \/ RegisterInterrupted(e)
      PROVE  IInv'
  BY <1>1, CreateEnvironmentInv, CreateAWSConfigInv, CreateAWSTierRoleInv, RegisterAuditInv, RegisterInterruptedInv DEF RegisterStep
<1>2. ASSUME NEW v \in Checks,
             \/ \E e \in Envs : CreateVerification(v, e)
             \/ VerifyAudit(v)
             \/ VerifyInterrupted(v)
             \/ PrintVerificationResult(v)
             \/ VerifyTimeout(v)
      PROVE  IInv'
  BY <1>2, CreateVerificationInv, VerifyAuditInv, VerifyInterruptedInv, PrintVerificationResultInv, VerifyTimeoutInv
<1>3. ASSUME NEW p \in Pollers, PollStep(p) \/ PollInterrupted(p) \/ CompleteStep(p)
      PROVE  IInv'
  BY <1>3, NextJobInv, GetAWSConfigInv, GetAWSTierRoleInv, MintCredentialsInv, ReportResultInv, PollInterruptedInv, CompleteInv DEF PollStep, CompleteStep
<1>4. ASSUME NEW m \in posts, PostLost(m)
      PROVE  IInv'
  BY <1>4, PostLostInv
<1>5. CASE UNCHANGED vars
  <2> USE <1>5 DEF vars
  <2>1. TypeOK' /\ RegistrationInv' /\ CheckInv' /\ OneVerifier'
    BY DEF IInv, TypeOK, RegistrationInv, CheckInv, OneVerifier
  <2>2. JobInv'
    BY DEF IInv, JobInv, Registered, EnvOf
  <2>3. VerdictSound'
    BY DEF IInv, VerdictSound, SoundRow, Registered
  <2> QED
    BY <2>1, <2>2, <2>3 DEF IInv
<1> QED
  BY <1>1, <1>2, <1>3, <1>4, <1>5 DEF Next

(* IInv holds in every reachable state. *)
THEOREM Invariance == Spec => []IInv
  BY InitIInv, NextIInv, PTL DEF Spec

(* Tables, handler positions and messages keep their types. *)
THEOREM TypeCorrect == Spec => []TypeOK
<1>1. IInv => TypeOK
  BY DEF IInv
<1> QED
  BY <1>1, Invariance, PTL

(* A succeeded check assumed the role of every tier of a completely        *)
(* registered environment, and idpctl told the verdict that stands         *)
(* (Store.Complete, runChecks).                                            *)
THEOREM VerdictSafe == Spec => []VerdictSound
<1>1. IInv => VerdictSound
  BY DEF IInv
<1> QED
  BY <1>1, Invariance, PTL

(* However many processes share a credential, and whenever they die, one   *)
(* at most works on a check (ClaimNextPendingVerification).                *)
THEOREM VerifierSafe == Spec => []OneVerifier
<1>1. IInv => OneVerifier
  BY DEF IInv
<1> QED
  BY <1>1, Invariance, PTL

-------------------------------------------------------------------------------
(* The step fact behind VerdictFinal: only Complete writes a status, and   *)
(* OneVerifier says that the row it writes is pending.                     *)
LEMMA NextKeepsVerdict ==
  ASSUME IInv, [Next]_vars, NEW v \in Checks, checks[v].status \in Verdicts
  PROVE  checks'[v] = checks[v]
<1>1. checks \in [Checks -> CheckRow]
  BY DEF IInv, TypeOK
<1>2. ASSUME NEW u \in Checks, NEW e \in Envs, CreateVerification(u, e)
      PROVE  checks'[v] = checks[v]
  BY <1>1, <1>2 DEF CreateVerification, Verdicts
<1>3. ASSUME NEW p \in Pollers, NextJob(p)
      PROVE  checks'[v] = checks[v]
  BY <1>1, <1>3 DEF NextJob, ClaimNextPendingVerification, ClaimNextPendingVerificationWhere, Verdicts
<1>4. ASSUME NEW m \in posts, Complete(m)
      PROVE  checks'[v] = checks[v]
  BY <1>1, <1>4 DEF Complete, IInv, OneVerifier, TypeOK, Report, Verdicts
<1>5. ASSUME UNCHANGED checks
      PROVE  checks'[v] = checks[v]
  BY <1>5
<1> QED
  BY <1>2, <1>3, <1>4, <1>5 DEF Next, vars, RegisterStep, PollStep, CompleteStep,
     CreateEnvironment, CreateAWSConfig, CreateAWSTierRole, RegisterAudit,
     RegisterInterrupted, VerifyAudit, VerifyInterrupted,
     PrintVerificationResult, VerifyTimeout, GetAWSConfig, GetAWSTierRole,
     MintCredentials, ReportResult, PollInterrupted, PostLost

(* No verdict is ever overwritten (CompleteVerification).                  *)
THEOREM VerdictKept == Spec => VerdictFinal
<1>1. IInv /\ [Next]_vars =>
        [\A v \in Checks :
           checks[v].status \in Verdicts => checks'[v] = checks[v]]_vars
  BY NextKeepsVerdict
<1> QED
  BY <1>1, Invariance, PTL DEF Spec, VerdictFinal
===============================================================================
