-------------------------------- MODULE Setup ---------------------------------
(***************************************************************************)
(* First-run setup: idpctl setup (cli/internal/cmd/setup.go) and           *)
(* POST /v1/setup (api/setup.go), which creates the tenant, its team, the  *)
(* root actor, the login and the audit events in one serializable          *)
(* transaction.  No constraint of the schema limits tenants to one row:    *)
(* only the check inside the transaction and its isolation do.             *)
(*                                                                         *)
(* A serializable transaction reads the rows committed when it took its    *)
(* snapshot; its commit fails if a transaction that committed since has    *)
(* written what it read.  It may also fail earlier, or without need.       *)
(*                                                                         *)
(* Abstracted: names and passwords (long enough or not), ids: everything   *)
(* an operator's request creates is named after the operator.              *)
(***************************************************************************)
EXTENDS Naturals, FiniteSets

CONSTANTS
  NoSession,    \* credentials.json is not there
  Operators,    \* people that run idpctl setup
  Username,     \* the admin username each of them enters
  OptIn,        \* those that opt in to telemetry
  MinPassword,  \* those whose password reaches minPasswordLength
  MaxRuns,      \* bound: times each of them runs it
  MaxFaults     \* bound: failed statements and lost answers

ASSUME SetupAssumption ==
  /\ OptIn \subseteq Operators /\ MinPassword \subseteq Operators
  /\ DOMAIN Username = Operators /\ NoSession \notin Operators
  /\ MaxRuns \in Nat /\ MaxFaults \in Nat

VARIABLES
  db,       \* the committed rows, table by table
  tx,       \* the request of an operator and its transaction
  session,  \* credentials.json of an operator: the tenant of its token
  runs,     \* how often an operator has run idpctl setup
  faults

vars == <<db, tx, session, runs, faults>>

-------------------------------------------------------------------------------
Tables == {"tenants", "telemetry", "teams", "actors", "users", "completed", "toggled"}

Rows == [Tables -> SUBSET Operators]

NoRows == [t \in Tables |-> {}]

Transaction ==
  [pc : {"none", "status", "fast", "begin", "tenant", "telemetry", "team", "actor",
         "credential", "audit", "auditTelemetry", "commit", "issue"},
   snapshot : Rows, writes : Rows]

NoTransaction == [pc |-> "none", snapshot |-> NoRows, writes |-> NoRows]

(* Type invariant: rows, transactions and sessions keep their types. *)
TypeOK ==
  /\ db \in Rows
  /\ tx \in [Operators -> Transaction]
  /\ session \in [Operators -> Operators \cup {NoSession}]
  /\ runs \in [Operators -> 0..MaxRuns]
  /\ faults \in 0..MaxFaults

Init ==
  /\ db = NoRows
  /\ tx = [o \in Operators |-> NoTransaction]
  /\ session = [o \in Operators |-> NoSession]
  /\ runs = [o \in Operators |-> 0]
  /\ faults = 0

Fault == faults < MaxFaults /\ faults' = faults + 1

(* The request ends and its transaction is rolled back. *)
Ended(o) == tx' = [tx EXCEPT ![o] = NoTransaction]

(* The request goes on at pc. *)
Goto(o, pc) == tx' = [tx EXCEPT ![o].pc = pc]

Write(o, table, pc) ==
  tx' = [tx EXCEPT ![o].writes[table] = @ \cup {o}, ![o].pc = pc]

(* SELECT EXISTS (SELECT 1 FROM tenants) over some rows. *)
AnyTenantExists(rows) == rows["tenants"] # {}

-------------------------------------------------------------------------------
(* idpctl setup.                                                            *)

(* An operator whose idpctl has no session runs it. *)
RunSetup(o) ==
  /\ tx[o].pc = "none" /\ session[o] = NoSession /\ runs[o] < MaxRuns
  /\ runs' = [runs EXCEPT ![o] = @ + 1]
  /\ Goto(o, "status")
  /\ UNCHANGED <<db, session, faults>>

(* GET /v1/setup, and the prompts that follow unless setup has run. *)
NeedsSetup(o) ==
  /\ tx[o].pc = "status"
  /\ IF AnyTenantExists(db) THEN Ended(o) ELSE Goto(o, "fast")
  /\ UNCHANGED <<db, session, runs, faults>>

-------------------------------------------------------------------------------
(* POST /v1/setup.                                                          *)

(* The body is checked, and the fast path outside the transaction. *)
FastPath(o) ==
  /\ tx[o].pc = "fast"
  /\ IF o \in MinPassword /\ ~AnyTenantExists(db) THEN Goto(o, "begin") ELSE Ended(o)
  /\ UNCHANGED <<db, session, runs, faults>>

(* Mutant of BeginTx: the check is not repeated inside the transaction. *)
BeginTxUnchecked(o) ==
  /\ tx[o].pc = "begin"
  /\ tx' = [tx EXCEPT ![o].pc = "tenant", ![o].snapshot = db]
  /\ UNCHANGED <<db, session, runs, faults>>

(* BeginTx, with AnyExists as the statement that takes the snapshot. *)
BeginTx(o) ==
  /\ tx[o].pc = "begin"
  /\ IF AnyTenantExists(db) THEN Ended(o)
     ELSE tx' = [tx EXCEPT ![o].pc = "tenant", ![o].snapshot = db]
  /\ UNCHANGED <<db, session, runs, faults>>

CreateTenant(o) ==
  /\ tx[o].pc = "tenant"
  /\ Write(o, "tenants", IF o \in OptIn THEN "telemetry" ELSE "team")
  /\ UNCHANGED <<db, session, runs, faults>>

SetTenantTelemetry(o) ==
  /\ tx[o].pc = "telemetry"
  /\ Write(o, "telemetry", "team")
  /\ UNCHANGED <<db, session, runs, faults>>

CreateTeam(o) ==
  /\ tx[o].pc = "team"
  /\ Write(o, "teams", "actor")
  /\ UNCHANGED <<db, session, runs, faults>>

(* The one actor without authorized_by. *)
CreateRootActor(o) ==
  /\ tx[o].pc = "actor"
  /\ Write(o, "actors", "credential")
  /\ UNCHANGED <<db, session, runs, faults>>

SameUsername(o) == {p \in Operators : Username[p] = Username[o]}

(* local_users.username is unique: the INSERT waits for an open transaction  *)
(* with the same name, and fails once one is committed.                      *)
CreateLocalUser(o) ==
  /\ tx[o].pc = "credential"
  /\ \A p \in SameUsername(o) : tx[p].writes["users"] = {}
  /\ IF db["users"] \cap SameUsername(o) # {} THEN Ended(o) ELSE Write(o, "users", "audit")
  /\ UNCHANGED <<db, session, runs, faults>>

AuditSetup(o) ==
  /\ \/ /\ tx[o].pc = "audit"
        /\ Write(o, "completed", IF o \in OptIn THEN "auditTelemetry" ELSE "commit")
     \/ /\ tx[o].pc = "auditTelemetry"
        /\ Write(o, "toggled", "commit")
  /\ UNCHANGED <<db, session, runs, faults>>

(* Mutant of Serializable: read committed. *)
ReadCommitted(o) == TRUE

(* Nothing this transaction has read was written since its snapshot. *)
Serializable(o) == db["tenants"] = tx[o].snapshot["tenants"]

(* Mutant of Commit: only the deferred Rollback is left. *)
CommitForgotten(o) ==
  /\ tx[o].pc = "commit"
  /\ tx' = [tx EXCEPT ![o] = [NoTransaction EXCEPT !.pc = "issue"]]
  /\ UNCHANGED <<db, session, runs, faults>>

(* A serialization failure is answered 409. *)
Commit(o) ==
  /\ tx[o].pc = "commit"
  /\ \/ /\ Serializable(o)
        /\ db' = [t \in Tables |-> db[t] \cup tx[o].writes[t]]
        /\ tx' = [tx EXCEPT ![o] = [NoTransaction EXCEPT !.pc = "issue"]]
     \/ /\ ~Serializable(o)
        /\ Ended(o)
        /\ UNCHANGED db
  /\ UNCHANGED <<session, runs, faults>>

(* The token is issued after the commit, answered, and saved by idpctl. *)
IssueAndSave(o) ==
  /\ tx[o].pc = "issue"
  /\ session' = [session EXCEPT ![o] = o]
  /\ Ended(o)
  /\ UNCHANGED <<db, runs, faults>>

(* A statement fails, the client goes away, the answer is lost or cannot be  *)
(* saved: what is not committed is rolled back.                              *)
Interrupted(o) ==
  /\ tx[o].pc # "none"
  /\ Fault
  /\ Ended(o)
  /\ UNCHANGED <<db, session, runs>>

-------------------------------------------------------------------------------
PostSetup(o) ==
  \/ FastPath(o) \/ BeginTx(o) \/ CreateTenant(o) \/ SetTenantTelemetry(o)
  \/ CreateTeam(o) \/ CreateRootActor(o) \/ CreateLocalUser(o) \/ AuditSetup(o)
  \/ Commit(o) \/ IssueAndSave(o)

Next == \E o \in Operators : RunSetup(o) \/ NeedsSetup(o) \/ PostSetup(o) \/ Interrupted(o)

Spec == Init /\ [][Next]_vars

(* The server works on, and operators without a session run setup again, as  *)
(* idpctl tells them to.                                                     *)
FairSpec ==
  /\ Spec
  /\ \A o \in Operators : WF_vars(RunSetup(o) \/ NeedsSetup(o) \/ PostSetup(o))

-------------------------------------------------------------------------------
(* Setup happens entirely or not at all: either the database is empty, or it *)
(* holds the rows of one operator, the telemetry choice and its event among  *)
(* them exactly if that operator opted in.                                   *)
AllOrNothing ==
  \/ db = NoRows
  \/ \E o \in Operators :
       db = [t \in Tables |-> IF t \in {"telemetry", "toggled"} /\ o \notin OptIn THEN {} ELSE {o}]

(* "POST /v1/setup creates exactly one tenant, ever", and whoever is logged  *)
(* in by it is logged in to that tenant.                                     *)
Once == INSTANCE ChooseOnce WITH
  NULL <- NoSession, Values <- Operators, Learners <- Operators,
  chosen <- db["tenants"], learned <- session

RefinesChooseOnce == Once!Spec

(* As long as one operator enters a usable password, the instance gets set   *)
(* up, whoever loses the race.                                               *)
EventuallySetUp == <>(db["tenants"] # {})
===============================================================================
