--------------------------- MODULE SingletonsProofs ---------------------------
(***************************************************************************)
(* Proofs that replicas agree on the singleton rows, and that an opt-out   *)
(* takes effect, for any number of replicas, restarts, ticks and faults.   *)
(*                                                                         *)
(* The argument: a row is never replaced, what a replica holds is the row, *)
(* and a replica that awaits the answer to its INSERT wrote the row        *)
(* (AgreementInv); so whatever a replica goes on with is what was chosen.  *)
(* A payload that is under way when the tenant opts out is the first since *)
(* (LateInv).                                                              *)
(***************************************************************************)
EXTENDS Singletons, TLAPS

Bound(table) == IF table = "signing_keys" THEN MaxStarts ELSE MaxTicks

(* The places of a replica whose tick may still send. *)
InTick(p) == at[p] \in ({"telemetry_instance"} \X Steps) \cup {Counting, Sending}

ShapeInv ==
  /\ DOMAIN rows = Tables /\ rows = [t \in Tables |-> rows[t]]
  /\ held \in [Replicas -> [Tables -> (Replicas \X Nat) \cup {NULL}]]
  /\ attempts \in [Replicas -> [Tables -> Nat]]

AgreementInv ==
  \A p \in Replicas, t \in Tables :
    /\ held[p][t] # NULL => held[p][t] = rows[t]
    /\ at[p] \in {t} \X Steps => attempts[p][t] \in 1..Bound(t)
    /\ at[p] = <<t, "answer">> => rows[t] = Own(p, t)

LateInv ==
  \A p \in Replicas :
    /\ telemetry = "none" => late[p] = 0
    /\ telemetry = "off" => late[p] <= 1 /\ (InTick(p) => late[p] = 0)

IInv == TypeOK /\ ShapeInv /\ AgreementInv /\ LateInv

USE DEF Tables, Steps, Down, Up, Counting, Sending

LEMMA OwnIsCandidate ==
  ASSUME IInv, NEW p \in Replicas, NEW t \in Tables, at[p] \in {t} \X Steps
  PROVE  Own(p, t) \in Candidates(t) /\ Own(p, t) # NULL
<1>1. attempts[p][t] \in 1..Bound(t) /\ Bound(t) \in Nat
  BY SingletonsAssumption DEF IInv, AgreementInv, Bound
<1> QED BY <1>1, NoNullAssumption DEF Own, Candidates, Bound

LEMMA CandidatesArePairs ==
  ASSUME NEW t \in Tables
  PROVE  Candidates(t) \subseteq Replicas \X Nat /\ NULL \notin Candidates(t)
  BY SingletonsAssumption, NoNullAssumption DEF Candidates

LEMMA InitIInv == Init => IInv
<1> SUFFICES ASSUME Init PROVE IInv
  OBVIOUS
<1>1. TypeOK
  BY SingletonsAssumption DEF Init, TypeOK, Places
<1>2. ShapeInv
  BY DEF Init, ShapeInv
<1>3. AgreementInv /\ LateInv
  BY DEF Init, AgreementInv, LateInv, InTick
<1> QED BY <1>1, <1>2, <1>3 DEF IInv

-------------------------------------------------------------------------------
(* LoadOrCreate of a table.                                                 *)

(* A replica that has the row in hand. *)
LEMMA HoldStep ==
  ASSUME IInv, NEW p \in Replicas, NEW t \in Tables, at[p] \in {t} \X Steps,
         rows[t] # NULL, Hold(p, t, rows[t]), Goto(p, Loaded(t)),
         UNCHANGED <<rows, attempts, telemetry, call, events, toggles, late, faults>>
  PROVE  IInv'
<1>1. rows[t] \in Candidates(t)
  BY DEF IInv, TypeOK
<1>2. held' \in [Replicas -> [Tables -> (Replicas \X Nat) \cup {NULL}]]
  BY <1>1, CandidatesArePairs DEF IInv, ShapeInv, Hold
<1>3. \A q \in Replicas, u \in Tables :
        held'[q][u] = IF q = p /\ u = t THEN rows[t] ELSE held[q][u]
  BY DEF IInv, ShapeInv, Hold
<1>4. \A q \in Replicas : at'[q] = IF q = p THEN Loaded(t) ELSE at[q]
  BY DEF IInv, TypeOK, Goto
<1>5. at' \in [Replicas -> Places]
  BY DEF IInv, TypeOK, Goto, Loaded, Places
<1>6. TypeOK'
  BY <1>1, <1>3, <1>4, <1>5 DEF IInv, TypeOK, Loaded
<1>7. AgreementInv'
  BY <1>3, <1>4 DEF IInv, AgreementInv, Loaded, Own
<1>8. ShapeInv' /\ LateInv'
  BY <1>2, <1>4 DEF IInv, ShapeInv, LateInv, InTick, Loaded
<1> QED BY <1>6, <1>7, <1>8 DEF IInv

(* A replica that goes on with nothing, to the next step or out. *)
LEMMA GoStep ==
  ASSUME IInv, NEW p \in Replicas, NEW t \in Tables, at[p] \in {t} \X Steps,
         NEW place \in {<<t, "create">>, <<t, "reread">>, GivenUp(t)}, Goto(p, place),
         faults' \in 0..MaxFaults,
         UNCHANGED <<rows, held, attempts, telemetry, call, events, toggles, late>>
  PROVE  IInv'
<1>1. \A q \in Replicas : at'[q] = IF q = p THEN place ELSE at[q]
  BY DEF IInv, TypeOK, Goto
<1>2. at' \in [Replicas -> Places]
  BY DEF IInv, TypeOK, Goto, GivenUp, Places
<1>3. TypeOK'
  BY <1>1, <1>2 DEF IInv, TypeOK, GivenUp
<1>4. AgreementInv'
  BY <1>1 DEF IInv, AgreementInv, GivenUp, Own
<1>5. ShapeInv' /\ LateInv'
  BY <1>1 DEF IInv, ShapeInv, LateInv, InTick, GivenUp
<1> QED BY <1>3, <1>4, <1>5 DEF IInv

(* The INSERT that makes the row. *)
LEMMA InsertStep ==
  ASSUME IInv, NEW p \in Replicas, NEW t \in Tables, at[p] = <<t, "create">>,
         rows[t] = NULL, rows' = [rows EXCEPT ![t] = Own(p, t)], Goto(p, <<t, "answer">>),
         UNCHANGED <<held, attempts, telemetry, call, events, toggles, late, faults>>
  PROVE  IInv'
<1>1. Own(p, t) \in Candidates(t) /\ Own(p, t) # NULL
  BY OwnIsCandidate
<1>2. \A u \in Tables : rows'[u] = IF u = t THEN Own(p, t) ELSE rows[u]
  BY DEF IInv, ShapeInv
<1>3. \A q \in Replicas : at'[q] = IF q = p THEN <<t, "answer">> ELSE at[q]
  BY DEF IInv, TypeOK, Goto
<1>4. at' \in [Replicas -> Places]
  BY DEF IInv, TypeOK, Goto, Places
<1>5. TypeOK'
  BY <1>1, <1>2, <1>3, <1>4 DEF IInv, TypeOK
<1>6. AgreementInv'
  <2>1. \A q \in Replicas : held[q][t] = NULL /\ at[q] # <<t, "answer">>
    <3>1. ASSUME NEW q \in Replicas, at[q] = <<t, "answer">> PROVE FALSE
      BY <3>1, OwnIsCandidate DEF IInv, AgreementInv
    <3> QED BY <3>1 DEF IInv, AgreementInv
  <2> QED BY <1>2, <1>3, <2>1 DEF IInv, AgreementInv, Own
<1>7. ShapeInv'
  BY DEF IInv, ShapeInv
<1>8. LateInv'
  BY <1>3 DEF IInv, LateInv, InTick
<1> QED BY <1>5, <1>6, <1>7, <1>8 DEF IInv

LEMMA LoadOrCreateStep ==
  ASSUME IInv, NEW p \in Replicas, NEW t \in Tables, LoadOrCreate(p, t)
  PROVE  IInv'
<1>. USE DEF LoadOrCreate
<1>0. faults \in 0..MaxFaults
  BY DEF IInv, TypeOK
<1>1. CASE GetRow(p, t)
  <2>1. CASE rows[t] # NULL
    BY <1>1, <2>1, HoldStep DEF GetRow
  <2>2. CASE rows[t] = NULL
    BY <1>0, <1>1, <2>2, GoStep DEF GetRow
  <2> QED BY <2>1, <2>2
<1>2. CASE CreateRow(p, t)
  <2>1. CASE rows[t] = NULL
    BY <1>2, <2>1, InsertStep DEF CreateRow
  <2>2. CASE rows[t] # NULL
    BY <1>0, <1>2, <2>2, GoStep DEF CreateRow
  <2> QED BY <2>1, <2>2
<1>3. CASE CreatedRow(p, t)
  <2>1. rows[t] = Own(p, t) /\ Own(p, t) # NULL
    <3>1. at[p] = <<t, "answer">>
      BY <1>3 DEF CreatedRow
    <3>2. rows[t] = Own(p, t)
      BY <3>1 DEF IInv, AgreementInv
    <3>3. Own(p, t) # NULL
      BY <3>1, OwnIsCandidate
    <3> QED BY <3>2, <3>3
  <2> QED BY <1>3, <2>1, HoldStep DEF CreatedRow
<1>4. CASE RereadRow(p, t)
  <2>1. CASE rows[t] # NULL
    BY <1>4, <2>1, HoldStep DEF RereadRow
  <2>2. CASE rows[t] = NULL
    BY <1>0, <1>4, <2>2, GoStep DEF RereadRow
  <2> QED BY <2>1, <2>2
<1>5. CASE StatementFails(p, t)
  <2>1. faults' \in 0..MaxFaults
    BY <1>5, SingletonsAssumption DEF StatementFails, Fault, IInv, TypeOK
  <2> QED BY <1>5, <2>1, GoStep DEF StatementFails
<1> QED BY <1>1, <1>2, <1>3, <1>4, <1>5
-------------------------------------------------------------------------------
(* The other steps of a replica.                                            *)

LEMMA BeginStep ==
  ASSUME IInv, NEW p \in Replicas, NEW t \in Tables, Begin(p, t),
         attempts[p][t] < Bound(t),
         t = "signing_keys" => at[p] = Down,
         t = "telemetry_instance" => at[p] = Up /\ telemetry = "on",
         UNCHANGED <<rows, held, telemetry, call, events, toggles, late, faults>>
  PROVE  IInv'
<1>1. \A q \in Replicas : at'[q] = IF q = p THEN <<t, "get">> ELSE at[q]
  BY DEF IInv, TypeOK, Begin, Goto
<1>2. at' \in [Replicas -> Places]
  BY DEF IInv, TypeOK, Begin, Goto, Places
<1>3. \A q \in Replicas, u \in Tables :
        attempts'[q][u] = IF q = p /\ u = t THEN attempts[q][u] + 1 ELSE attempts[q][u]
  BY DEF IInv, ShapeInv, Begin
<1>4. attempts' \in [Replicas -> [Tables -> Nat]]
  BY DEF IInv, ShapeInv, Begin
<1>5. TypeOK'
  BY <1>1, <1>2, <1>4 DEF IInv, TypeOK, ShapeInv
<1>6. AgreementInv'
  <2>1. attempts[p][t] + 1 \in 1..Bound(t)
    BY SingletonsAssumption DEF IInv, ShapeInv, Bound
  <2> QED BY <1>1, <1>3, <2>1 DEF IInv, AgreementInv, Own
<1>7. ShapeInv' /\ LateInv'
  BY <1>1, <1>4 DEF IInv, ShapeInv, LateInv, InTick
<1> QED BY <1>5, <1>6, <1>7 DEF IInv

LEMMA CrashStep ==
  ASSUME IInv, NEW p \in Replicas, Crash(p)
  PROVE  IInv'
<1>1. \A q \in Replicas : at'[q] = IF q = p THEN Down ELSE at[q]
  BY DEF IInv, TypeOK, Crash, Goto
<1>2. at' \in [Replicas -> Places]
  BY DEF IInv, TypeOK, Crash, Goto, Places
<1>3. \A q \in Replicas, u \in Tables : held'[q][u] = IF q = p THEN NULL ELSE held[q][u]
  BY DEF IInv, ShapeInv, Crash
<1>4. held' \in [Replicas -> [Tables -> (Replicas \X Nat) \cup {NULL}]]
  BY DEF IInv, ShapeInv, Crash
<1>5. TypeOK'
  BY <1>1, <1>2, <1>3, SingletonsAssumption DEF IInv, TypeOK, Crash, Fault
<1>6. AgreementInv'
  BY <1>1, <1>3 DEF IInv, AgreementInv, Crash, Own
<1>7. ShapeInv' /\ LateInv'
  BY <1>1, <1>4 DEF IInv, ShapeInv, LateInv, InTick, Crash
<1> QED BY <1>5, <1>6, <1>7 DEF IInv

(* The tick counts, and goes on to send. *)
LEMMA CountedStep ==
  ASSUME IInv, NEW p \in Replicas, at[p] = Counting, Goto(p, Sending),
         UNCHANGED <<rows, held, attempts, telemetry, call, events, toggles, late, faults>>
  PROVE  IInv'
<1>1. \A q \in Replicas : at'[q] = IF q = p THEN Sending ELSE at[q]
  BY DEF IInv, TypeOK, Goto
<1>2. at' \in [Replicas -> Places]
  BY DEF IInv, TypeOK, Goto, Places
<1>3. TypeOK'
  BY <1>1, <1>2 DEF IInv, TypeOK
<1>4. AgreementInv'
  BY <1>1 DEF IInv, AgreementInv, Own
<1>5. ShapeInv'
  BY DEF IInv, ShapeInv
<1>6. LateInv'
  BY <1>1 DEF IInv, LateInv, InTick
<1> QED BY <1>3, <1>4, <1>5, <1>6 DEF IInv

(* The tick ends, having sent at most one payload. *)
LEMMA TickEndsStep ==
  ASSUME IInv, NEW p \in Replicas, at[p] \in {Counting, Sending}, Goto(p, Up),
         Hold(p, "telemetry_instance", NULL), faults' \in 0..MaxFaults,
         NEW n \in {late[p], late[p] + 1}, telemetry # "off" => n = late[p],
         late' = [late EXCEPT ![p] = n],
         UNCHANGED <<rows, attempts, telemetry, call, events, toggles>>
  PROVE  IInv'
<1>1. \A q \in Replicas : at'[q] = IF q = p THEN Up ELSE at[q]
  BY DEF IInv, TypeOK, Goto
<1>2. at' \in [Replicas -> Places]
  BY DEF IInv, TypeOK, Goto, Places
<1>3. \A q \in Replicas, u \in Tables :
        held'[q][u] = IF q = p /\ u = "telemetry_instance" THEN NULL ELSE held[q][u]
  BY DEF IInv, ShapeInv, Hold
<1>4. held' \in [Replicas -> [Tables -> (Replicas \X Nat) \cup {NULL}]]
  BY DEF IInv, ShapeInv, Hold
<1>5. late' \in [Replicas -> Nat] /\ \A q \in Replicas : late'[q] = IF q = p THEN n ELSE late[q]
  BY DEF IInv, TypeOK
<1>6. TypeOK'
  BY <1>1, <1>2, <1>3, <1>5 DEF IInv, TypeOK
<1>7. AgreementInv'
  BY <1>1, <1>3 DEF IInv, AgreementInv, Own
<1>8. ShapeInv'
  BY <1>4 DEF IInv, ShapeInv
<1>9. LateInv'
  BY <1>1, <1>5 DEF IInv, TypeOK, LateInv, InTick
<1> QED BY <1>6, <1>7, <1>8, <1>9 DEF IInv

LEMMA ReplicaStep ==
  ASSUME IInv, NEW p \in Replicas, Replica(p)
  PROVE  IInv'
<1>1. CASE Start(p) \/ Tick(p)
  BY <1>1, BeginStep DEF Start, Tick, Bound
<1>2. CASE LoadSigningKey(p) \/ LoadOrCreateInstanceID(p)
  BY <1>2, LoadOrCreateStep DEF LoadSigningKey, LoadOrCreateInstanceID
<1>3. CASE BuildPayload(p)
  <2>1. late = [late EXCEPT ![p] = late[p]] /\ faults' \in 0..MaxFaults
    BY <1>3, SingletonsAssumption DEF BuildPayload, Fault, IInv, TypeOK
  <2> QED BY <1>3, <2>1, CountedStep, TickEndsStep DEF BuildPayload
<1>4. CASE Send(p)
  BY <1>4, TickEndsStep DEF Send, IInv, TypeOK
<1> QED BY <1>1, <1>2, <1>3, <1>4, CrashStep DEF Replica

LEMMA TenantStep ==
  ASSUME IInv, SetUp \/ \E c \in Calls : SetTelemetry(c) \/ AuditToggle(c)
  PROVE  IInv'
<1>1. UNCHANGED <<rows, at, held, attempts>>
  BY DEF SetUp, SetTelemetry, AuditToggle
<1>2. AgreementInv' /\ ShapeInv'
  BY <1>1 DEF IInv, AgreementInv, ShapeInv, Own
<1>3. telemetry' \in {"none", "on", "off"} /\ call' \in [Calls -> {"idle", "audit"}]
  BY DEF IInv, TypeOK, SetUp, SetTelemetry, AuditToggle
<1>5. toggles' \in 0..MaxToggles /\ events' \in Nat /\ faults' \in 0..MaxFaults
  BY SingletonsAssumption DEF IInv, TypeOK, SetUp, SetTelemetry, AuditToggle, Fault
<1>6. late' \in [Replicas -> Nat]
  BY DEF IInv, TypeOK, SetUp, SetTelemetry, AuditToggle
<1>7. TypeOK'
  BY <1>1, <1>3, <1>5, <1>6 DEF IInv, TypeOK
<1>4. LateInv'
  BY <1>1 DEF IInv, TypeOK, LateInv, InTick, SetUp, SetTelemetry, AuditToggle
<1> QED BY <1>2, <1>7, <1>4 DEF IInv

LEMMA NextIInv == IInv /\ [Next]_vars => IInv'
<1> SUFFICES ASSUME IInv, [Next]_vars PROVE IInv'
  OBVIOUS
<1>1. CASE UNCHANGED vars
  BY <1>1 DEF vars, IInv, TypeOK, ShapeInv, AgreementInv, LateInv, InTick, Own
<1> QED BY <1>1, ReplicaStep, TenantStep DEF Next

LEMMA Invariance == Spec => []IInv
  BY InitIInv, NextIInv, PTL DEF Spec

(* Rows and replicas keep their types; a replica serves only with a key and  *)
(* sends only with an identity (server.Run, buildPayload).                   *)
THEOREM TypeCorrect == Spec => []TypeOK
<1>1. IInv => TypeOK
  BY DEF IInv
<1> QED BY <1>1, Invariance, PTL

(* After an opt-out a replica sends at most the payload of the tick it was   *)
(* in (Sender.tick).                                                         *)
THEOREM OptOutSafe == Spec => []OptOutTakesEffect
<1>1. IInv => OptOutTakesEffect
  BY DEF IInv, LateInv, OptOutTakesEffect
<1> QED BY <1>1, Invariance, PTL

-------------------------------------------------------------------------------
(* Each table is a ChooseOnce.                                              *)

Chooses(t) ==
  /\ rows[t] = NULL /\ rows'[t] \in Candidates(t)
  /\ UNCHANGED Learned(t)

Learns(t, p) ==
  /\ rows[t] # NULL /\ rows'[t] = rows[t]
  /\ Learned(t)' = [Learned(t) EXCEPT ![p] = rows[t]]

Forgets(t, p) == rows'[t] = rows[t] /\ Learned(t)' = [Learned(t) EXCEPT ![p] = NULL]

Stays(t) == rows'[t] = rows[t] /\ UNCHANGED Learned(t)

Serves(t) ==
  Stays(t) \/ Chooses(t) \/ \E p \in Replicas : Learns(t, p) \/ Forgets(t, p)

LEMMA HoldLearns ==
  ASSUME IInv, NEW t \in Tables, NEW u \in Tables, NEW p \in Replicas, NEW v, Hold(p, u, v)
  PROVE  IF u = t THEN Learned(t)' = [Learned(t) EXCEPT ![p] = v] ELSE UNCHANGED Learned(t)
<1>1. held \in [Replicas -> [Tables -> (Replicas \X Nat) \cup {NULL}]]
  BY DEF IInv, ShapeInv
<1>2. \A q \in Replicas : held'[q][t] = IF q = p /\ u = t THEN v ELSE held[q][t]
  BY <1>1 DEF Hold
<1> QED BY <1>2 DEF Learned

LEMMA HoldServes ==
  ASSUME IInv, NEW t \in Tables, NEW u \in Tables, NEW p \in Replicas, UNCHANGED rows,
         (Hold(p, u, rows[u]) /\ rows[u] # NULL) \/ Hold(p, u, NULL)
  PROVE  Serves(t)
<1>1. CASE u = t
  BY <1>1, HoldLearns DEF Serves, Learns, Forgets
<1>2. CASE u # t
  BY <1>2, HoldLearns DEF Serves, Stays
<1> QED BY <1>1, <1>2

LEMMA StayServes ==
  ASSUME NEW t \in Tables, UNCHANGED <<rows, held>>
  PROVE  Serves(t)
  BY DEF Serves, Stays, Learned

LEMMA LoadOrCreateServes ==
  ASSUME IInv, NEW t \in Tables, NEW u \in Tables, NEW p \in Replicas, LoadOrCreate(p, u)
  PROVE  Serves(t)
<1>1. CASE GetRow(p, u) \/ RereadRow(p, u)
  BY <1>1, HoldServes, StayServes DEF GetRow, RereadRow
<1>2. CASE CreateRow(p, u)
  <2>1. CASE rows[u] = NULL
    <3>1. Own(p, u) \in Candidates(u)
      BY <1>2, OwnIsCandidate DEF CreateRow
    <3>2. rows'[t] = (IF t = u THEN Own(p, u) ELSE rows[t]) /\ UNCHANGED Learned(t)
      BY <1>2, <2>1 DEF CreateRow, IInv, ShapeInv, Learned
    <3> QED BY <2>1, <3>1, <3>2 DEF Serves, Stays, Chooses
  <2>2. CASE rows[u] # NULL
    BY <1>2, <2>2, StayServes DEF CreateRow
  <2> QED BY <2>1, <2>2
<1>3. CASE CreatedRow(p, u)
  <2>1. rows[u] = Own(p, u) /\ Own(p, u) # NULL
    <3>1. at[p] = <<u, "answer">>
      BY <1>3 DEF CreatedRow
    <3>2. rows[u] = Own(p, u)
      BY <3>1 DEF IInv, AgreementInv
    <3>3. Own(p, u) # NULL
      BY <3>1, OwnIsCandidate
    <3> QED BY <3>2, <3>3
  <2> QED BY <1>3, <2>1, HoldServes DEF CreatedRow
<1>4. CASE StatementFails(p, u)
  BY <1>4, StayServes DEF StatementFails
<1> QED BY <1>1, <1>2, <1>3, <1>4 DEF LoadOrCreate

LEMMA TableStep ==
  ASSUME IInv, [Next]_vars, NEW t \in Tables
  PROVE  Serves(t)
<1>1. ASSUME NEW p \in Replicas, Crash(p) PROVE Serves(t)
  <2>1. \A q \in Replicas : held'[q][t] = IF q = p THEN NULL ELSE held[q][t]
    BY <1>1 DEF IInv, ShapeInv, Crash
  <2>2. Forgets(t, p)
    BY <1>1, <2>1 DEF Forgets, Learned, Crash
  <2> QED BY <2>2 DEF Serves
<1>2. ASSUME NEW p \in Replicas, Replica(p) PROVE Serves(t)
  <2>1. CASE Start(p) \/ Tick(p)
    BY <2>1, StayServes DEF Start, Tick
  <2>2. CASE LoadSigningKey(p) \/ LoadOrCreateInstanceID(p)
    BY <2>2, LoadOrCreateServes DEF LoadSigningKey, LoadOrCreateInstanceID
  <2>3. CASE BuildPayload(p) \/ Send(p)
    <3>1. UNCHANGED rows /\ (UNCHANGED held \/ Hold(p, "telemetry_instance", NULL))
      BY <2>3 DEF BuildPayload, Send
    <3> QED BY <3>1, HoldServes, StayServes
  <2> QED BY <1>1, <1>2, <2>1, <2>2, <2>3 DEF Replica
<1>3. CASE SetUp \/ \E c \in Calls : SetTelemetry(c) \/ AuditToggle(c)
  BY <1>3, StayServes DEF SetUp, SetTelemetry, AuditToggle
<1>4. CASE UNCHANGED vars
  BY <1>4, StayServes DEF vars
<1> QED BY <1>2, <1>3, <1>4 DEF Next

LEMMA ServesChooses ==
  ASSUME IInv, NEW t \in Tables, Chooses(t)
  PROVE  Chosen(t) = {} /\ \E v \in Candidates(t) : Chosen(t)' = {v}
<1>1. rows'[t] # NULL
  BY CandidatesArePairs DEF Chooses
<1> QED BY <1>1 DEF Chooses, Chosen

(* "Safe to call from multiple instances starting concurrently"              *)
(* (signingkey.LoadOrCreate): one signing key and one telemetry identity are *)
(* chosen, for any number of replicas, crashes and lost answers.             *)
THEOREM SingletonsChosenOnce == Spec => RefinesChooseOnce
<1>1. Init => KeyOnce!Init /\ IdentityOnce!Init
  BY DEF Init, KeyOnce!Init, IdentityOnce!Init, Chosen, Learned
<1>2. IInv /\ [Next]_vars => [KeyOnce!Next]_(KeyOnce!vars)
  <2> SUFFICES ASSUME IInv, [Next]_vars PROVE [KeyOnce!Next]_(KeyOnce!vars)
    OBVIOUS
  <2> DEFINE t == "signing_keys"
  <2>1. Serves(t)
    BY TableStep
  <2>2. CASE Stays(t)
    BY <2>2 DEF Stays, Chosen, KeyOnce!vars
  <2>3. CASE Chooses(t)
    <3>1. Chosen(t) = {} /\ (\E v \in Candidates(t) : Chosen(t)' = {v}) /\ UNCHANGED Learned(t)
      BY <2>3, ServesChooses DEF Chooses
    <3> QED BY <3>1 DEF KeyOnce!Next, KeyOnce!Choose
  <2>4. ASSUME NEW p \in Replicas, Learns(t, p) PROVE KeyOnce!Next
    <3>1. rows[t] \in Chosen(t) /\ UNCHANGED Chosen(t)
      BY <2>4 DEF Learns, Chosen
    <3> QED BY <2>4, <3>1 DEF Learns, KeyOnce!Next, KeyOnce!Learn
  <2>5. ASSUME NEW p \in Replicas, Forgets(t, p) PROVE KeyOnce!Next
    <3>1. UNCHANGED Chosen(t)
      BY <2>5 DEF Forgets, Chosen
    <3> QED BY <2>5, <3>1 DEF Forgets, KeyOnce!Next, KeyOnce!Forget
  <2> QED BY <2>1, <2>2, <2>3, <2>4, <2>5 DEF Serves
<1>3. IInv /\ [Next]_vars => [IdentityOnce!Next]_(IdentityOnce!vars)
  <2> SUFFICES ASSUME IInv, [Next]_vars PROVE [IdentityOnce!Next]_(IdentityOnce!vars)
    OBVIOUS
  <2> DEFINE t == "telemetry_instance"
  <2>1. Serves(t)
    BY TableStep
  <2>2. CASE Stays(t)
    BY <2>2 DEF Stays, Chosen, IdentityOnce!vars
  <2>3. CASE Chooses(t)
    <3>1. Chosen(t) = {} /\ (\E v \in Candidates(t) : Chosen(t)' = {v}) /\ UNCHANGED Learned(t)
      BY <2>3, ServesChooses DEF Chooses
    <3> QED BY <3>1 DEF IdentityOnce!Next, IdentityOnce!Choose
  <2>4. ASSUME NEW p \in Replicas, Learns(t, p) PROVE IdentityOnce!Next
    <3>1. rows[t] \in Chosen(t) /\ UNCHANGED Chosen(t)
      BY <2>4 DEF Learns, Chosen
    <3> QED BY <2>4, <3>1 DEF Learns, IdentityOnce!Next, IdentityOnce!Learn
  <2>5. ASSUME NEW p \in Replicas, Forgets(t, p) PROVE IdentityOnce!Next
    <3>1. UNCHANGED Chosen(t)
      BY <2>5 DEF Forgets, Chosen
    <3> QED BY <2>5, <3>1 DEF Forgets, IdentityOnce!Next, IdentityOnce!Forget
  <2> QED BY <2>1, <2>2, <2>3, <2>4, <2>5 DEF Serves
<1> QED BY <1>1, <1>2, <1>3, Invariance, PTL
        DEF Spec, RefinesChooseOnce, KeyOnce!Spec, IdentityOnce!Spec
===============================================================================
