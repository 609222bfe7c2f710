----------------------------- MODULE AccessProofs -----------------------------
(***************************************************************************)
(* How the first operator gets in, and how sessions end.                   *)
(*                                                                         *)
(* Setup: proof that it happens at most once and as a whole, and that it   *)
(* implements ChooseOnce, for any operators, usernames and bounds.  How    *)
(* far a transaction has come tells what it has written (TransactionInv),  *)
(* and it got there only from a snapshot without a tenant; so a commit     *)
(* that serializes with the others finds the database empty, and a session *)
(* is one of the tenant (SessionInv).                                      *)
(*                                                                         *)
(* Sessions: proof that a revoked session is not accepted while its token  *)
(* lives, for any actors, users, sessions, logins, requests and times.  As *)
(* long as the token lives its row in revoked_sessions is there, because   *)
(* it expires with the token and only expired rows are pruned              *)
(* (TombstoneInv).  What a request or a login remembers stays true: tokens *)
(* are never taken back, and nobody becomes active again (MemoryInv).      *)
(***************************************************************************)
EXTENDS Setup, Sessions, TLAPS

(* Setup as a whole, by operator o. *)
RowsOf(o) == [t \in Tables |-> IF t \in {"telemetry", "toggled"} /\ o \notin OptIn THEN {} ELSE {o}]

(* The statements of a transaction that come after the write to a table. *)
After(t) ==
  CASE t = "tenants" -> {"telemetry", "team", "actor", "credential", "audit", "auditTelemetry", "commit"}
    [] t = "telemetry" -> {"team", "actor", "credential", "audit", "auditTelemetry", "commit"}
    [] t = "teams" -> {"actor", "credential", "audit", "auditTelemetry", "commit"}
    [] t = "actors" -> {"credential", "audit", "auditTelemetry", "commit"}
    [] t = "users" -> {"audit", "auditTelemetry", "commit"}
    [] t = "completed" -> {"auditTelemetry", "commit"}
    [] t = "toggled" -> {"commit"}

InTransaction == {"tenant"} \cup After("tenants")

(* A transaction has written the tables it has passed, and saw no tenant. *)
TransactionInv ==
  \A o \in Operators :
    /\ tx[o].pc \in {"telemetry", "auditTelemetry"} => o \in OptIn
    /\ \A t \in Tables :
         tx[o].writes[t] = IF tx[o].pc \in After(t) THEN RowsOf(o)[t] ELSE {}
    /\ tx[o].pc \in InTransaction => tx[o].snapshot["tenants"] = {}

(* A session, or the request that is about to answer one, is the tenant's. *)
SessionInv ==
  \A o \in Operators :
    /\ session[o] # NoSession => session[o] = o
    /\ session[o] # NoSession \/ tx[o].pc = "issue" => db["tenants"] = {o}

IInv == TypeOK /\ AllOrNothing /\ TransactionInv /\ SessionInv

LEMMA InitIInv == Init => IInv
<1> SUFFICES ASSUME Init PROVE IInv
  OBVIOUS
<1>1. TypeOK
  BY SetupAssumption DEF Init, TypeOK, Rows, NoRows, Transaction, NoTransaction
<1>2. AllOrNothing /\ SessionInv
  BY DEF Init, AllOrNothing, SessionInv, NoTransaction
<1>3. TransactionInv
  BY DEF Init, TransactionInv, NoTransaction, NoRows, Tables, After, InTransaction
<1> QED BY <1>1, <1>2, <1>3 DEF IInv

(* A request that ends, or goes on without writing, keeps what is known of   *)
(* transactions: it has written nothing before "tenant" and nothing that     *)
(* counts once it has ended.                                                 *)
LEMMA EndedStep ==
  ASSUME IInv, NEW o \in Operators, Ended(o), UNCHANGED <<db, session>>,
         runs' = runs, faults' \in 0..MaxFaults
  PROVE  IInv'
<1>1. tx' \in [Operators -> Transaction]
  BY DEF IInv, TypeOK, Ended, NoTransaction, Transaction, NoRows, Rows
<1>2. TypeOK'
  BY <1>1 DEF IInv, TypeOK
<1>3. AllOrNothing' /\ SessionInv'
  BY DEF IInv, TypeOK, AllOrNothing, SessionInv, Ended, NoTransaction
<1>4. TransactionInv'
  BY DEF IInv, TypeOK, TransactionInv, Ended, NoTransaction, NoRows, Tables, After, InTransaction
<1> QED BY <1>2, <1>3, <1>4 DEF IInv

LEMMA GotoStep ==
  ASSUME IInv, NEW o \in Operators, NEW pc \in {"status", "fast", "begin"}, Goto(o, pc),
         tx[o].pc \in {"none", "status", "fast"}, UNCHANGED <<db, session, faults>>,
         runs' \in [Operators -> 0..MaxRuns]
  PROVE  IInv'
<1>1. tx' \in [Operators -> Transaction]
  BY DEF IInv, TypeOK, Goto, Transaction
<1>2. TypeOK'
  BY <1>1 DEF IInv, TypeOK
<1>3. AllOrNothing' /\ SessionInv'
  BY DEF IInv, TypeOK, AllOrNothing, SessionInv, Goto, Transaction
<1>4. TransactionInv'
  BY DEF IInv, TypeOK, TransactionInv, Goto, Transaction, Tables, After, InTransaction
<1> QED BY <1>2, <1>3, <1>4 DEF IInv

LEMMA BeginTxStep ==
  ASSUME IInv, NEW o \in Operators, BeginTx(o)
  PROVE  IInv'
<1>1. CASE AnyTenantExists(db)
  BY <1>1, EndedStep DEF BeginTx, IInv, TypeOK
<1>2. CASE ~AnyTenantExists(db)
  <2>1. tx' \in [Operators -> Transaction]
    BY <1>2 DEF IInv, TypeOK, BeginTx, Transaction
  <2>2. TypeOK'
    BY <2>1 DEF IInv, TypeOK, BeginTx
  <2>3. AllOrNothing' /\ SessionInv'
    BY <1>2 DEF IInv, TypeOK, AllOrNothing, SessionInv, BeginTx, Transaction
  <2>4. TransactionInv'
    BY <1>2 DEF IInv, TypeOK, TransactionInv, BeginTx, Transaction, Tables, After,
                InTransaction, AnyTenantExists
  <2> QED BY <2>2, <2>3, <2>4 DEF IInv
<1> QED BY <1>1, <1>2

(* What each INSERT is, and what comes after it. *)
Insert(o, table, pc) ==
  \/ tx[o].pc = "tenant" /\ table = "tenants" /\ pc = (IF o \in OptIn THEN "telemetry" ELSE "team")
  \/ tx[o].pc = "telemetry" /\ table = "telemetry" /\ pc = "team"
  \/ tx[o].pc = "team" /\ table = "teams" /\ pc = "actor"
  \/ tx[o].pc = "actor" /\ table = "actors" /\ pc = "credential"
  \/ tx[o].pc = "credential" /\ table = "users" /\ pc = "audit"
  \/ tx[o].pc = "audit" /\ table = "completed" /\ pc = (IF o \in OptIn THEN "auditTelemetry" ELSE "commit")
  \/ tx[o].pc = "auditTelemetry" /\ table = "toggled" /\ pc = "commit"

LEMMA WriteStep ==
  ASSUME IInv, NEW o \in Operators, NEW table \in Tables, NEW pc \in InTransaction,
         Insert(o, table, pc), Write(o, table, pc), UNCHANGED <<db, session, runs, faults>>
  PROVE  IInv'
<1>1. tx[o] \in Transaction /\ tx[o].writes \in [Tables -> SUBSET Operators]
  BY DEF IInv, TypeOK, Transaction, Rows
<1>2. tx' = [tx EXCEPT ![o] =
        [@ EXCEPT !.writes = [tx[o].writes EXCEPT ![table] = @ \cup {o}], !.pc = pc]]
  BY <1>1 DEF Write, IInv, TypeOK
<1>3. tx' \in [Operators -> Transaction]
  BY <1>1, <1>2 DEF IInv, TypeOK, Transaction, InTransaction, After, Rows
<1>4. TypeOK'
  BY <1>3 DEF IInv, TypeOK
<1>5. AllOrNothing' /\ SessionInv'
  BY <1>1, <1>2 DEF IInv, TypeOK, AllOrNothing, SessionInv, InTransaction, After
<1>6. TransactionInv'
  <2>1. pc \in {"telemetry", "auditTelemetry"} => o \in OptIn
    BY DEF Insert
  <2>2. \A t \in Tables : tx'[o].writes[t] = IF pc \in After(t) THEN RowsOf(o)[t] ELSE {}
    <3>1. ASSUME NEW t \in Tables
          PROVE  /\ tx[o].writes[t] = IF tx[o].pc \in After(t) THEN RowsOf(o)[t] ELSE {}
                 /\ tx'[o].writes[t] = IF t = table THEN tx[o].writes[t] \cup {o} ELSE tx[o].writes[t]
      <4>1. tx[o].writes[t] = IF tx[o].pc \in After(t) THEN RowsOf(o)[t] ELSE {}
        BY DEF IInv, TransactionInv
      <4>2. tx'[o].writes = [tx[o].writes EXCEPT ![table] = @ \cup {o}]
        BY <1>1, <1>2 DEF IInv, TypeOK, Transaction
      <4> QED BY <1>1, <4>1, <4>2
    <3>2. tx[o].pc \in {"telemetry", "auditTelemetry"} => o \in OptIn
      BY DEF IInv, TransactionInv
    <3>3. CASE tx[o].pc \in {"tenant", "telemetry"}
      BY <3>1, <3>2, <3>3 DEF Insert, After, Tables, RowsOf
    <3>4. CASE tx[o].pc \in {"team", "actor", "credential"}
      BY <3>1, <3>4 DEF Insert, After, Tables, RowsOf
    <3>5. CASE tx[o].pc \in {"audit", "auditTelemetry"}
      BY <3>1, <3>2, <3>5 DEF Insert, After, Tables, RowsOf
    <3> QED BY <3>3, <3>4, <3>5 DEF Insert
  <2>3. tx'[o].snapshot["tenants"] = {}
    BY <1>1, <1>2 DEF IInv, TypeOK, TransactionInv, Insert, InTransaction, After
  <2>4. tx'[o].pc = pc /\ \A p \in Operators \ {o} : tx'[p] = tx[p]
    BY <1>1, <1>2 DEF IInv, TypeOK
  <2> QED BY <2>1, <2>2, <2>3, <2>4 DEF IInv, TransactionInv
<1> QED BY <1>4, <1>5, <1>6 DEF IInv

LEMMA InsertsStep ==
  ASSUME IInv, NEW o \in Operators,
         CreateTenant(o) \/ SetTenantTelemetry(o) \/ CreateTeam(o) \/ CreateRootActor(o) \/ AuditSetup(o)
  PROVE  IInv'
  BY WriteStep DEF CreateTenant, SetTenantTelemetry, CreateTeam, CreateRootActor, AuditSetup,
                   Insert, Tables, InTransaction, After

LEMMA CreateLocalUserStep ==
  ASSUME IInv, NEW o \in Operators, CreateLocalUser(o)
  PROVE  IInv'
<1>1. CASE db["users"] \cap SameUsername(o) # {}
  BY <1>1, EndedStep DEF CreateLocalUser, IInv, TypeOK
<1>2. CASE db["users"] \cap SameUsername(o) = {}
  BY <1>2, WriteStep DEF CreateLocalUser, Insert, Tables, InTransaction, After
<1> QED BY <1>1, <1>2

(* A commit that serializes finds the database empty and leaves it whole. *)
LEMMA SerializedCommit ==
  ASSUME IInv, NEW o \in Operators, tx[o].pc = "commit", Serializable(o)
  PROVE  /\ db = NoRows
         /\ [t \in Tables |-> db[t] \cup tx[o].writes[t]] = RowsOf(o)
<1>1. db["tenants"] = {}
  BY DEF IInv, TransactionInv, InTransaction, After, Serializable
<1>2. db = NoRows
  BY <1>1 DEF IInv, AllOrNothing, Tables
<1>3. \A t \in Tables : tx[o].writes[t] = RowsOf(o)[t]
  BY DEF IInv, TransactionInv, After, Tables
<1>4. [t \in Tables |-> db[t] \cup tx[o].writes[t]] = [t \in Tables |-> RowsOf(o)[t]]
  BY <1>2, <1>3 DEF NoRows
<1> QED BY <1>2, <1>4 DEF RowsOf

LEMMA CommitStep ==
  ASSUME IInv, NEW o \in Operators, Commit(o)
  PROVE  IInv'
<1>1. CASE ~Serializable(o)
  BY <1>1, EndedStep DEF Commit, IInv, TypeOK
<1>2. CASE Serializable(o)
  <2>1. db = NoRows /\ db' = RowsOf(o)
    BY <1>2, SerializedCommit DEF Commit
  <2>2. tx' = [tx EXCEPT ![o] = [NoTransaction EXCEPT !.pc = "issue"]]
    BY <1>2 DEF Commit
  <2>3. tx' \in [Operators -> Transaction] /\ db' \in Rows
    BY <2>1, <2>2 DEF IInv, TypeOK, NoTransaction, Transaction, NoRows, Rows, RowsOf
  <2>4. TypeOK'
    BY <2>3 DEF IInv, TypeOK, Commit
  <2>5. AllOrNothing'
    BY <2>1 DEF AllOrNothing, RowsOf
  <2>6. SessionInv'
    <3>1. db["tenants"] = {} /\ db'["tenants"] = {o}
      BY <2>1 DEF NoRows, RowsOf, Tables
    <3>2. \A p \in Operators : session[p] = NoSession /\ (tx'[p].pc = "issue" => p = o)
      BY <2>2, <3>1 DEF IInv, TypeOK, SessionInv
    <3> QED BY <3>1, <3>2 DEF Commit, SessionInv
  <2>7. TransactionInv'
    BY <2>2 DEF IInv, TypeOK, TransactionInv, NoTransaction, NoRows, Tables, After, InTransaction
  <2> QED BY <2>4, <2>5, <2>6, <2>7 DEF IInv
<1> QED BY <1>1, <1>2

LEMMA IssueAndSaveStep ==
  ASSUME IInv, NEW o \in Operators, IssueAndSave(o)
  PROVE  IInv'
<1>1. tx' \in [Operators -> Transaction]
  BY DEF IInv, TypeOK, IssueAndSave, Ended, NoTransaction, Transaction, NoRows, Rows
<1>2. TypeOK'
  BY <1>1 DEF IInv, TypeOK, IssueAndSave
<1>3. AllOrNothing' /\ SessionInv'
  BY DEF IInv, TypeOK, AllOrNothing, SessionInv, IssueAndSave, Ended, NoTransaction
<1>4. TransactionInv'
  BY DEF IInv, TypeOK, TransactionInv, IssueAndSave, Ended, NoTransaction, NoRows, Tables, After, InTransaction
<1> QED BY <1>2, <1>3, <1>4 DEF IInv

LEMMA RunSetupStep ==
  ASSUME IInv, NEW o \in Operators, RunSetup(o)
  PROVE  IInv'
<1>1. runs' \in [Operators -> 0..MaxRuns]
  BY SetupAssumption DEF IInv, TypeOK, RunSetup
<1> QED BY <1>1, GotoStep DEF RunSetup

LEMMA NextIInv == IInv /\ [Next]_vars => IInv'
<1> SUFFICES ASSUME IInv, [Next]_vars PROVE IInv'
  OBVIOUS
<1>1. runs \in [Operators -> 0..MaxRuns] /\ faults \in 0..MaxFaults
  BY DEF IInv, TypeOK
<1>2. ASSUME NEW o \in Operators, NeedsSetup(o) \/ FastPath(o) PROVE IInv'
  BY <1>1, <1>2, EndedStep, GotoStep DEF NeedsSetup, FastPath
<1>3. ASSUME NEW o \in Operators, Interrupted(o) PROVE IInv'
  BY <1>1, <1>3, EndedStep, SetupAssumption DEF Interrupted, Fault
<1>4. ASSUME NEW o \in Operators, PostSetup(o) PROVE IInv'
  BY <1>2, <1>4, BeginTxStep, InsertsStep, CreateLocalUserStep, CommitStep, IssueAndSaveStep
     DEF PostSetup
<1>5. CASE UNCHANGED vars
  BY <1>5 DEF vars, IInv, TypeOK, AllOrNothing, TransactionInv, SessionInv
<1> QED BY <1>2, <1>3, <1>4, <1>5, RunSetupStep DEF Next

LEMMA Invariance == Spec => []IInv
  BY InitIInv, NextIInv, PTL DEF Spec

(* Operators, their requests, their session files and the committed rows     *)
(* stay what they may be (handlePostSetup, runSetup).                        *)
THEOREM SetupTypeCorrect == Spec => []TypeOK
<1>1. IInv => TypeOK
  BY DEF IInv
<1> QED BY <1>1, Invariance, PTL

(* Setup happens entirely or not at all, whoever races whom and whatever     *)
(* fails (handlePostSetup, its serializable transaction).                    *)
THEOREM SetupSafe == Spec => []AllOrNothing
<1>1. IInv => AllOrNothing
  BY DEF IInv
<1> QED BY <1>1, Invariance, PTL

LEMMA StepRefines == IInv /\ [Next]_vars => [Once!Next]_(Once!vars)
<1> SUFFICES ASSUME IInv, [Next]_vars PROVE [Once!Next]_(Once!vars)
  OBVIOUS
<1>1. ASSUME NEW o \in Operators, Commit(o) PROVE [Once!Next]_(Once!vars)
  <2>1. CASE Serializable(o)
    <3>1. db = NoRows /\ db' = RowsOf(o)
      BY <1>1, <2>1, SerializedCommit DEF Commit
    <3>2. db["tenants"] = {} /\ db'["tenants"] = {o}
      BY <3>1 DEF NoRows, RowsOf, Tables
    <3> QED BY <1>1, <3>2 DEF Commit, Once!Next, Once!Choose
  <2>2. CASE ~Serializable(o)
    BY <1>1, <2>2 DEF Commit, Once!vars
  <2> QED BY <2>1, <2>2
<1>2. ASSUME NEW o \in Operators, IssueAndSave(o) PROVE [Once!Next]_(Once!vars)
  <2>1. o \in db["tenants"]
    BY <1>2 DEF IInv, SessionInv, IssueAndSave
  <2>2. Once!Learn(o)
    BY <1>2, <2>1 DEF IssueAndSave, Once!Learn
  <2> QED BY <2>2 DEF Once!Next
<1>3. ASSUME UNCHANGED <<db, session>> PROVE [Once!Next]_(Once!vars)
  BY <1>3 DEF Once!vars
<1>4. ASSUME NEW o \in Operators, PostSetup(o) PROVE [Once!Next]_(Once!vars)
  BY <1>1, <1>2, <1>3, <1>4
     DEF PostSetup, FastPath, BeginTx, CreateTenant, SetTenantTelemetry, CreateTeam,
         CreateRootActor, CreateLocalUser, AuditSetup
<1>5. ASSUME NEW o \in Operators, RunSetup(o) \/ NeedsSetup(o) \/ Interrupted(o)
      PROVE  [Once!Next]_(Once!vars)
  BY <1>3, <1>5 DEF RunSetup, NeedsSetup, Interrupted
<1> QED BY <1>3, <1>4, <1>5 DEF Next, vars

(* "POST /v1/setup creates exactly one tenant, ever", for any number of      *)
(* operators.                                                                *)
THEOREM SetupOnce == Spec => RefinesChooseOnce
<1>1. Init => Once!Init
  BY DEF Init, NoRows, Tables, Once!Init
<1> QED BY <1>1, StepRefines, Invariance, PTL DEF Spec, RefinesChooseOnce, Once!Spec

-------------------------------------------------------------------------------
(* Sessions.                                                                *)

(* A revoked session has its row, with the expiry of its token, until that   *)
(* time is over.                                                             *)
TombstoneInv ==
  \A j \in Jtis :
    /\ j \in killed => tokens[j] # NULL
    /\ revoked[j] # NULL => tokens[j] # NULL /\ revoked[j] = tokens[j].exp
    /\ j \in killed /\ revoked[j] = NULL => clock > tokens[j].exp

(* What was issued, and what was dead when a request came, stays so. *)
MemoryInv ==
  /\ \A l \in Logins :
       /\ login[l].pc \in {"get", "issue"} => login[l].actor \in Actors
       /\ login[l].pc \in {"audit", "issued"} =>
            login[l].jti \in Jtis /\ tokens[login[l].jti] # NULL
  /\ \A c \in Calls : call[c].pc # "idle" =>
       /\ call[c].jti \in Jtis /\ tokens[call[c].jti] # NULL
       /\ call[c].dead = "session" => call[c].jti \in killed
       /\ call[c].dead = "actor" => status[tokens[call[c].jti].actor] = "revoked"

SessionsIInv == SessionsTypeOK /\ TombstoneInv /\ MemoryInv /\ RevokedIsRejected

LEMMA InitSessionsIInv == SessionsInit => SessionsIInv
  BY TimeAssumption, NoNullAssumption
  DEF SessionsInit, SessionsIInv, SessionsTypeOK, TombstoneInv, MemoryInv, RevokedIsRejected, Times, Login, Call

LEMMA VerifyPasswordStep ==
  ASSUME SessionsIInv, NEW l \in Logins, NEW u \in Usernames, NEW p \in Passwords,
         VerifyPassword(l, u, p)
  PROVE  SessionsIInv'
<1>1. GetLocalUserByUsername(u) \subseteq Actors
  BY UsersAssumption DEF GetLocalUserByUsername
<1>2. SessionsTypeOK'
  BY <1>1 DEF SessionsIInv, SessionsTypeOK, VerifyPassword, Refused, Login
<1>3. (TombstoneInv /\ MemoryInv /\ RevokedIsRejected)'
  BY <1>1 DEF SessionsIInv, SessionsTypeOK, VerifyPassword, Refused, Login, TombstoneInv, MemoryInv, RevokedIsRejected
<1> QED BY <1>2, <1>3 DEF SessionsIInv

LEMMA GetActorStep ==
  ASSUME SessionsIInv, NEW l \in Logins, GetActor(l)
  PROVE  SessionsIInv'
<1>1. SessionsTypeOK'
  BY DEF SessionsIInv, SessionsTypeOK, GetActor, Login
<1>2. (TombstoneInv /\ MemoryInv /\ RevokedIsRejected)'
  BY DEF SessionsIInv, SessionsTypeOK, GetActor, Login, TombstoneInv, MemoryInv, RevokedIsRejected
<1> QED BY <1>1, <1>2 DEF SessionsIInv

LEMMA IssueSessionStep ==
  ASSUME SessionsIInv, NEW l \in Logins, IssueSession(l)
  PROVE  SessionsIInv'
<1>1. PICK j \in Jtis :
        /\ tokens[j] = NULL
        /\ clock + TokenTTL < MaxTime
        /\ tokens' = [tokens EXCEPT ![j] = [actor |-> login[l].actor, exp |-> clock + TokenTTL]]
        /\ login' = [login EXCEPT ![l].pc = "audit", ![l].jti = j]
  BY DEF IssueSession
<1>2. [actor |-> login[l].actor, exp |-> clock + TokenTTL] \in Token
  BY <1>1, TimeAssumption DEF SessionsIInv, SessionsTypeOK, MemoryInv, IssueSession, Token, Times
<1>3. [actor |-> login[l].actor, exp |-> clock + TokenTTL] # NULL
  BY <1>2, NoNullAssumption, TimeAssumption DEF Token, Times
<1>4. SessionsTypeOK'
  <2>1. tokens' \in [Jtis -> Token \cup {NULL}]
    BY <1>1, <1>2 DEF SessionsIInv, SessionsTypeOK
  <2>2. [login[l] EXCEPT !.pc = "audit", !.jti = j] \in Login /\ login \in [Logins -> Login]
    BY DEF SessionsIInv, SessionsTypeOK, Login
  <2>3. login' = [login EXCEPT ![l] = [login[l] EXCEPT !.pc = "audit", !.jti = j]]
    BY <1>1, <2>2 DEF Login
  <2>4. login' \in [Logins -> Login]
    BY <2>2, <2>3
  <2> QED BY <2>1, <2>4 DEF SessionsIInv, SessionsTypeOK, IssueSession
<1>5. TombstoneInv'
  BY <1>1, <1>3 DEF SessionsIInv, SessionsTypeOK, IssueSession, TombstoneInv
<1>6. MemoryInv'
  BY <1>1, <1>3, NoNullAssumption DEF SessionsIInv, SessionsTypeOK, IssueSession, MemoryInv, Login
<1>7. RevokedIsRejected'
  BY <1>1 DEF SessionsIInv, SessionsTypeOK, IssueSession, MemoryInv, RevokedIsRejected
<1> QED BY <1>4, <1>5, <1>6, <1>7 DEF SessionsIInv

LEMMA PostTokenAuditStep ==
  ASSUME SessionsIInv, NEW l \in Logins, PostTokenAudit(l)
  PROVE  SessionsIInv'
<1>1. SessionsTypeOK'
  BY DEF SessionsIInv, SessionsTypeOK, PostTokenAudit, Login
<1>2. (TombstoneInv /\ MemoryInv /\ RevokedIsRejected)'
  BY DEF SessionsIInv, SessionsTypeOK, PostTokenAudit, Login, TombstoneInv, MemoryInv, RevokedIsRejected
<1> QED BY <1>1, <1>2 DEF SessionsIInv

(* The row written expires with the token. *)
LEMMA RevokeStep ==
  ASSUME SessionsIInv, NEW j \in Jtis, Revoke(j)
  PROVE  SessionsIInv'
<1>1. tokens[j] \in Token /\ tokens[j].exp \in Times /\ tokens[j].exp # NULL
  BY NoNullAssumption, TimeAssumption DEF SessionsIInv, SessionsTypeOK, Revoke, Token, Times
<1>2. SessionsTypeOK'
  BY <1>1 DEF SessionsIInv, SessionsTypeOK, Revoke, RevokeSession
<1>3. TombstoneInv'
  BY <1>1 DEF SessionsIInv, SessionsTypeOK, Revoke, RevokeSession, TombstoneInv
<1>4. (MemoryInv /\ RevokedIsRejected)'
  BY DEF SessionsIInv, SessionsTypeOK, Revoke, MemoryInv, RevokedIsRejected
<1> QED BY <1>2, <1>3, <1>4 DEF SessionsIInv

LEMMA RevokeActorStep ==
  ASSUME SessionsIInv, NEW a \in Actors, RevokeActor(a)
  PROVE  SessionsIInv'
<1>1. (SessionsTypeOK /\ TombstoneInv /\ RevokedIsRejected)'
  BY DEF SessionsIInv, SessionsTypeOK, RevokeActor, TombstoneInv, RevokedIsRejected
<1>2. MemoryInv'
  BY NoNullAssumption DEF SessionsIInv, SessionsTypeOK, RevokeActor, MemoryInv, Token
<1> QED BY <1>1, <1>2 DEF SessionsIInv

(* What is pruned is the row of a token that has expired. *)
LEMMA PruneStep ==
  ASSUME SessionsIInv, PruneExpiredSessions
  PROVE  SessionsIInv'
<1>1. (SessionsTypeOK /\ MemoryInv /\ RevokedIsRejected)'
  BY DEF SessionsIInv, SessionsTypeOK, PruneExpiredSessions, DeleteExpiredSessions, MemoryInv, RevokedIsRejected
<1>2. TombstoneInv'
  BY DEF SessionsIInv, SessionsTypeOK, PruneExpiredSessions, DeleteExpiredSessions, TombstoneInv
<1> QED BY <1>1, <1>2 DEF SessionsIInv

LEMMA TickStep ==
  ASSUME SessionsIInv, Tick
  PROVE  SessionsIInv'
<1>1. (SessionsTypeOK /\ MemoryInv /\ RevokedIsRejected)'
  BY TimeAssumption DEF SessionsIInv, SessionsTypeOK, Tick, Times, MemoryInv, RevokedIsRejected
<1>2. TombstoneInv'
  BY TimeAssumption DEF SessionsIInv, SessionsTypeOK, Tick, TombstoneInv, Token, Times
<1> QED BY <1>1, <1>2 DEF SessionsIInv

LEMMA PresentStep ==
  ASSUME SessionsIInv, NEW c \in Calls, NEW j \in Jtis, Present(c, j)
  PROVE  SessionsIInv'
<1>1. tokens[j] # NULL
  BY DEF SessionsIInv, MemoryInv, Present
<1>2. SessionsTypeOK'
  BY DEF SessionsIInv, SessionsTypeOK, Present, Call, Times
<1>3. TombstoneInv'
  BY DEF SessionsIInv, Present, TombstoneInv
<1>4. MemoryInv'
  BY <1>1 DEF SessionsIInv, SessionsTypeOK, Present, MemoryInv
<1>5. RevokedIsRejected'
  BY DEF SessionsIInv, SessionsTypeOK, Present, RevokedIsRejected
<1> QED BY <1>2, <1>3, <1>4, <1>5 DEF SessionsIInv

LEMMA ParseStep ==
  ASSUME SessionsIInv, NEW c \in Calls, Parse(c)
  PROVE  SessionsIInv'
<1>1. SessionsTypeOK'
  BY DEF SessionsIInv, SessionsTypeOK, Parse, Call
<1>2. (TombstoneInv /\ MemoryInv /\ RevokedIsRejected)'
  BY DEF SessionsIInv, SessionsTypeOK, Parse, Call, TombstoneInv, MemoryInv, RevokedIsRejected
<1> QED BY <1>1, <1>2 DEF SessionsIInv

(* Without a row, a revoked session's token has expired. *)
LEMMA CheckRevokedStep ==
  ASSUME SessionsIInv, NEW c \in Calls, CheckRevoked(c)
  PROVE  SessionsIInv'
<1>1. SessionsTypeOK'
  BY DEF SessionsIInv, SessionsTypeOK, CheckRevoked, Call, Times
<1>2. (TombstoneInv /\ MemoryInv)'
  BY DEF SessionsIInv, SessionsTypeOK, CheckRevoked, Call, TombstoneInv, MemoryInv
<1>3. RevokedIsRejected'
  <2>1. CASE /\ ~IsRevoked(tokens[call[c].jti].actor, call[c].jti)
             /\ call' = [call EXCEPT ![c].pc = "accepted", ![c].at = clock]
    <3>1. call[c].dead # "actor"
      BY <2>1 DEF SessionsIInv, MemoryInv, CheckRevoked, IsRevoked
    <3>2. call[c].dead = "session" => clock >= tokens[call[c].jti].exp
      <4>1. tokens[call[c].jti] \in Token
        BY DEF SessionsIInv, SessionsTypeOK, MemoryInv, CheckRevoked
      <4> QED BY <2>1, <4>1, TimeAssumption
              DEF SessionsIInv, SessionsTypeOK, TombstoneInv, MemoryInv, CheckRevoked, IsRevoked, Token, Times
    <3> QED BY <2>1, <3>1, <3>2 DEF SessionsIInv, SessionsTypeOK, Call, CheckRevoked, RevokedIsRejected
  <2>2. CASE call' = [call EXCEPT ![c].pc = "rejected"]
    BY <2>2 DEF SessionsIInv, SessionsTypeOK, Call, CheckRevoked, RevokedIsRejected
  <2> QED BY <2>1, <2>2 DEF CheckRevoked
<1> QED BY <1>1, <1>2, <1>3 DEF SessionsIInv

LEMMA NextSessionsIInv == SessionsIInv /\ [SessionsNext]_sessionVars => SessionsIInv'
<1> SUFFICES ASSUME SessionsIInv, [SessionsNext]_sessionVars PROVE SessionsIInv'
  OBVIOUS
<1>1. CASE SessionsNext
  <2>1. ASSUME NEW l \in Logins, PostToken(l) PROVE SessionsIInv'
    BY <2>1, GetActorStep, IssueSessionStep, PostTokenAuditStep DEF PostToken
  <2>2. ASSUME NEW c \in Calls, RequireAuth(c) PROVE SessionsIInv'
    BY <2>2, ParseStep, CheckRevokedStep DEF RequireAuth
  <2> QED BY <1>1, <2>1, <2>2, VerifyPasswordStep, RevokeStep, PresentStep,
             RevokeActorStep, PruneStep, TickStep DEF SessionsNext
<1>2. CASE UNCHANGED sessionVars
  BY <1>2 DEF sessionVars, SessionsIInv, SessionsTypeOK, TombstoneInv, MemoryInv, RevokedIsRejected
<1> QED BY <1>1, <1>2

(* Tokens, revocations, logins and requests stay what they may be            *)
(* (handlePostToken, requireAuth, session.Store).                            *)
THEOREM SessionsTypeCorrect == SessionsSpec => []SessionsTypeOK
<1>1. SessionsIInv => SessionsTypeOK
  BY DEF SessionsIInv
<1> QED BY <1>1, InitSessionsIInv, NextSessionsIInv, PTL DEF SessionsSpec

(* A request that arrives after its session or its actor was revoked is not  *)
(* accepted as long as the token lives (Verifier.Verify, session.Store).     *)
THEOREM RevocationSafe == SessionsSpec => []RevokedIsRejected
<1>1. SessionsIInv => RevokedIsRejected
  BY DEF SessionsIInv
<1> QED BY <1>1, InitSessionsIInv, NextSessionsIInv, PTL DEF SessionsSpec
===============================================================================
