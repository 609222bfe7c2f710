------------------------------ MODULE Singletons ------------------------------
(***************************************************************************)
(* The replicas of the control plane and what they share without talking   *)
(* to each other: the signing key each loads or creates when it starts     *)
(* (server/server.go, signingkey/signingkey.go), and the telemetry         *)
(* identity and opt-in that each reads on its daily tick                   *)
(* (telemetry/telemetry.go, PATCH /v1/tenants/telemetry in api/tenant.go).  *)
(*                                                                         *)
(* Both rows are protected by a UNIQUE constraint alone: no lock, no       *)
(* transaction.  A replica is one thread here: it starts, then ticks.      *)
(*                                                                         *)
(* Abstracted: a generated key or identity is named after the replica and  *)
(* its attempt; the counts in a payload; configuration and migrations that *)
(* fail just end the start.                                                *)
(***************************************************************************)
EXTENDS Naturals

CONSTANTS
  NULL,
  Replicas,     \* processes of the control plane on one database
  Senders,      \* those with TELEMETRY_ENDPOINT_URL set
  Calls,        \* PATCH requests in flight
  MaxStarts,    \* bound: starts of a replica
  MaxTicks,     \* bound: ticks of a replica that find the tenant opted in
  MaxToggles,   \* bound: PATCH requests
  MaxFaults     \* bound: failed statements, lost answers, crashes

ASSUME SingletonsAssumption ==
  /\ Senders \subseteq Replicas
  /\ {MaxStarts, MaxTicks, MaxToggles, MaxFaults} \subseteq Nat
ASSUME NoNullAssumption == NULL \notin Replicas \X Nat

VARIABLES
  rows,       \* the singleton tables: the one row, or NULL
  at,         \* where a replica is: the table it loads or creates, and the step
  held,       \* what a replica holds in memory of each table
  attempts,   \* how often a replica has started, and ticked
  telemetry,  \* tenants.telemetry_enabled, "none" before setup
  call,       \* the PATCH handlers
  events,     \* telemetry.toggled audit events
  toggles,
  late,       \* payloads a replica sent since the last opt-out
  faults

vars == <<rows, at, held, attempts, telemetry, call, events, toggles, late, faults>>

-------------------------------------------------------------------------------
Tables == {"signing_keys", "telemetry_instance"}

(* Every INSERT brings a value that nobody else ever brings. *)
Candidates(table) ==
  Replicas \X (1..(IF table = "signing_keys" THEN MaxStarts ELSE MaxTicks))

Steps == {"get", "create", "answer", "reread"}

Down == <<"server", "down">>
Up == <<"server", "up">>
Counting == <<"tick", "count">>
Sending == <<"tick", "send">>

Places == (Tables \X Steps) \cup {Down, Up, Counting, Sending}

(* Type invariant; a replica serves requests only with a key, and sends     *)
(* only with an identity.                                                   *)
TypeOK ==
  /\ \A t \in Tables : rows[t] \in Candidates(t) \cup {NULL}
  /\ at \in [Replicas -> Places]
  /\ \A p \in Replicas :
       /\ \A t \in Tables : held[p][t] \in Candidates(t) \cup {NULL}
       /\ at[p] \notin {Down} \cup ({"signing_keys"} \X Steps) =>
            held[p]["signing_keys"] # NULL
       /\ at[p] \in {Counting, Sending} => held[p]["telemetry_instance"] # NULL
  /\ \A p \in Replicas, t \in Tables : attempts[p][t] \in Nat
  /\ telemetry \in {"none", "on", "off"}
  /\ call \in [Calls -> {"idle", "audit"}]
  /\ events \in Nat /\ toggles \in 0..MaxToggles
  /\ late \in [Replicas -> Nat] /\ faults \in 0..MaxFaults

Init ==
  /\ rows = [t \in Tables |-> NULL]
  /\ at = [p \in Replicas |-> Down]
  /\ held = [p \in Replicas |-> [t \in Tables |-> NULL]]
  /\ attempts = [p \in Replicas |-> [t \in Tables |-> 0]]
  /\ telemetry = "none"
  /\ call = [c \in Calls |-> "idle"]
  /\ events = 0 /\ toggles = 0
  /\ late = [p \in Replicas |-> 0]
  /\ faults = 0

Fault == faults < MaxFaults /\ faults' = faults + 1

Goto(p, place) == at' = [at EXCEPT ![p] = place]

(* The replica now holds value of the table. *)
Hold(p, table, value) == held' = [held EXCEPT ![p][table] = value]

Begin(p, table) ==
  /\ attempts' = [attempts EXCEPT ![p][table] = @ + 1]
  /\ Goto(p, <<table, "get">>)

Own(p, table) == <<p, attempts[p][table]>>

(* Where a replica goes with the row in hand, and without. *)
Loaded(table) == IF table = "signing_keys" THEN Up ELSE Counting
GivenUp(table) == IF table = "signing_keys" THEN Down ELSE Up

-------------------------------------------------------------------------------
(* LoadOrCreate, the same in both packages.                                 *)

GetRow(p, table) ==
  /\ at[p] = <<table, "get">>
  /\ IF rows[table] # NULL
       THEN Hold(p, table, rows[table]) /\ Goto(p, Loaded(table))
       ELSE UNCHANGED held /\ Goto(p, <<table, "create">>)
  /\ UNCHANGED <<rows, faults>>

(* Mutant of CreateRow: an upsert, the later INSERT replaces the row. *)
Upsert(p, table) ==
  /\ at[p] = <<table, "create">>
  /\ rows' = [rows EXCEPT ![table] = Own(p, table)]
  /\ Goto(p, <<table, "answer">>)
  /\ UNCHANGED <<held, faults>>

(* The INSERT reaches the database: it conflicts, or the row is there. *)
CreateRow(p, table) ==
  /\ at[p] = <<table, "create">>
  /\ IF rows[table] = NULL
       THEN rows' = [rows EXCEPT ![table] = Own(p, table)] /\ Goto(p, <<table, "answer">>)
       ELSE UNCHANGED rows /\ Goto(p, <<table, "reread">>)
  /\ UNCHANGED <<held, faults>>

(* The answer of the successful INSERT reaches the replica. *)
CreatedRow(p, table) ==
  /\ at[p] = <<table, "answer">>
  /\ Hold(p, table, Own(p, table)) /\ Goto(p, Loaded(table))
  /\ UNCHANGED <<rows, faults>>

(* Mutant of RereadRow: whatever the second SELECT finds is used. *)
RereadUnchecked(p, table) ==
  /\ at[p] = <<table, "reread">>
  /\ Hold(p, table, rows[table]) /\ Goto(p, Loaded(table))
  /\ UNCHANGED <<rows, faults>>

(* Every error of the INSERT is taken for a lost race. *)
RereadRow(p, table) ==
  /\ at[p] = <<table, "reread">>
  /\ IF rows[table] # NULL
       THEN Hold(p, table, rows[table]) /\ Goto(p, Loaded(table))
       ELSE UNCHANGED held /\ Goto(p, GivenUp(table))
  /\ UNCHANGED <<rows, faults>>

(* A statement fails, or the answer to a successful INSERT is lost. *)
StatementFails(p, table) ==
  /\ Fault
  /\ \/ at[p] \in {table} \X {"get", "reread"} /\ Goto(p, GivenUp(table))
     \/ at[p] \in {table} \X {"create", "answer"} /\ Goto(p, <<table, "reread">>)
  /\ UNCHANGED <<rows, held>>

LoadOrCreate(p, table) ==
  /\ \/ GetRow(p, table) \/ CreateRow(p, table) \/ CreatedRow(p, table)
     \/ RereadRow(p, table) \/ StatementFails(p, table)
  /\ UNCHANGED <<attempts, telemetry, call, events, toggles, late>>

(* signingkey.LoadOrCreate, called by server.Run. *)
LoadSigningKey(p) == LoadOrCreate(p, "signing_keys")

(* telemetry.LoadOrCreateInstanceID, called by buildPayload. *)
LoadOrCreateInstanceID(p) == LoadOrCreate(p, "telemetry_instance")

-------------------------------------------------------------------------------
(* The server and its sender.                                               *)

(* server.Run connects, migrates and goes on to load the key. *)
Start(p) ==
  /\ at[p] = Down /\ attempts[p]["signing_keys"] < MaxStarts
  /\ Begin(p, "signing_keys")
  /\ UNCHANGED <<rows, held, telemetry, call, events, toggles, late, faults>>

(* The process ends: its memory is gone, its restart is a new Start. *)
Crash(p) ==
  /\ at[p] # Down /\ Fault
  /\ Goto(p, Down)
  /\ held' = [held EXCEPT ![p] = [t \in Tables |-> NULL]]
  /\ UNCHANGED <<rows, attempts, telemetry, call, events, toggles, late>>

(* Mutant of Tick: the opt-in is not asked for. *)
TickAlways(p) ==
  /\ p \in Senders /\ at[p] = Up /\ attempts[p]["telemetry_instance"] < MaxTicks
  /\ telemetry # "none"
  /\ Begin(p, "telemetry_instance")
  /\ UNCHANGED <<rows, held, telemetry, call, events, toggles, late, faults>>

(* A tick goes on only if there is a tenant and it has opted in. *)
Tick(p) ==
  /\ p \in Senders /\ at[p] = Up /\ attempts[p]["telemetry_instance"] < MaxTicks
  /\ telemetry = "on"
  /\ Begin(p, "telemetry_instance")
  /\ UNCHANGED <<rows, held, telemetry, call, events, toggles, late, faults>>

(* The counts of buildPayload. *)
BuildPayload(p) ==
  /\ at[p] = Counting
  /\ \/ Goto(p, Sending) /\ UNCHANGED <<held, faults>>
     \/ Fault /\ Goto(p, Up) /\ Hold(p, "telemetry_instance", NULL)
  /\ UNCHANGED <<rows, attempts, telemetry, call, events, toggles, late>>

(* The POST, received or not; a tick never repeats it. *)
Send(p) ==
  /\ at[p] = Sending
  /\ late' = [late EXCEPT ![p] = IF telemetry = "off" THEN @ + 1 ELSE @]
  /\ Goto(p, Up) /\ Hold(p, "telemetry_instance", NULL)
  /\ UNCHANGED <<rows, attempts, telemetry, call, events, toggles, faults>>

-------------------------------------------------------------------------------
(* The tenant.                                                              *)

(* POST /v1/setup, with or without the opt-in (module Setup). *)
SetUp ==
  /\ telemetry = "none"
  /\ telemetry' \in {"on", "off"}
  /\ UNCHANGED <<rows, at, held, attempts, call, events, toggles, late, faults>>

(* An actor above the read-only tier enables or disables telemetry. *)
SetTelemetry(c) ==
  /\ call[c] = "idle" /\ telemetry # "none" /\ toggles < MaxToggles
  /\ telemetry' \in {"on", "off"}
  /\ late' = IF telemetry = "on" THEN [p \in Replicas |-> 0] ELSE late
  /\ call' = [call EXCEPT ![c] = "audit"]
  /\ toggles' = toggles + 1
  /\ UNCHANGED <<rows, at, held, attempts, events, faults>>

(* The event, in a statement of its own that may fail after the toggle. *)
AuditToggle(c) ==
  /\ call[c] = "audit"
  /\ call' = [call EXCEPT ![c] = "idle"]
  /\ \/ events' = events + 1 /\ UNCHANGED faults
     \/ Fault /\ UNCHANGED events
  /\ UNCHANGED <<rows, at, held, attempts, telemetry, toggles, late>>

-------------------------------------------------------------------------------
Replica(p) ==
  \/ Start(p) \/ LoadSigningKey(p) \/ Crash(p)
  \/ Tick(p) \/ LoadOrCreateInstanceID(p) \/ BuildPayload(p) \/ Send(p)

Next ==
  \/ \E p \in Replicas : Replica(p)
  \/ SetUp
  \/ \E c \in Calls : SetTelemetry(c) \/ AuditToggle(c)

Spec == Init /\ [][Next]_vars

-------------------------------------------------------------------------------
(* "Safe to call from multiple instances starting concurrently": the key is *)
(* chosen once, and every replica, also after crashes and lost answers,     *)
(* signs and verifies with that one (signingkey.LoadOrCreate); and all      *)
(* payloads of a deployment carry one identity (LoadOrCreateInstanceID).    *)
Chosen(table) == {rows[table]} \ {NULL}
Learned(table) == [p \in Replicas |-> held[p][table]]

KeyOnce == INSTANCE ChooseOnce WITH
  Values <- Candidates("signing_keys"), Learners <- Replicas,
  chosen <- Chosen("signing_keys"), learned <- Learned("signing_keys")

IdentityOnce == INSTANCE ChooseOnce WITH
  Values <- Candidates("telemetry_instance"), Learners <- Replicas,
  chosen <- Chosen("telemetry_instance"), learned <- Learned("telemetry_instance")

RefinesChooseOnce == KeyOnce!Spec /\ IdentityOnce!Spec

(* Once an operator has opted out, a replica sends at most the payload of   *)
(* the tick it was in, however often it restarts and however toggles and    *)
(* ticks overlap (Sender.tick, handlePatchTenantTelemetry).                 *)
OptOutTakesEffect == telemetry = "off" => \A p \in Replicas : late[p] <= 1
===============================================================================
