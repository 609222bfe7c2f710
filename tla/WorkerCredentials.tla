-------------------------- MODULE WorkerCredentials ---------------------------
(***************************************************************************)
(* Worker credentials: the handlers of controlplane/internal/api/workers.go *)
(* and workerauth.go over the tables worker_credentials and                *)
(* worker_credential_environments (package workercred), the start-up of    *)
(* the worker process (worker/internal/service) and the discovery of its   *)
(* callback address by `idpctl ci auth`.                                   *)
(*                                                                         *)
(* A worker either is configured with the token an operator got from an    *)
(* enrolment, or bootstraps: it asks for the credential of its name, which *)
(* is minted on the first request and gets a new token on every later one. *)
(* Every handler is a series of SQL statements.  A handler keeps running   *)
(* when its caller has died, or lives and gave the request up (a dropped   *)
(* connection, an error of a proxy, an answer that cannot be decoded).     *)
(* Requests belong to an incarnation of the worker, and either event       *)
(* starts the next one: what a handler of an earlier incarnation does is   *)
(* done for nobody.                                                        *)
(*                                                                         *)
(* Abstracted: the tenant (there is one), token texts and hashes (a token  *)
(* is the number of its generateToken call), request validation that       *)
(* changes nothing, revoked_at (no statement of the program sets it).      *)
(***************************************************************************)
EXTENDS Integers, FiniteSets

CONSTANTS
  NULL,           \* SQL NULL, and "no answer yet"
  Names,          \* worker names; UNIQUE (tenant_id, name)
  Envs,           \* registered environments
  Repos,          \* repositories
  PipelinesOf,    \* the environments a repository has a pipeline in
  Workers,        \* worker deployments, each running one process at a time
  NameOf,         \* the name a deployment is configured with
  URLOf,          \* its CI callback address, or NULL without a GitHub App
  Bootstrapping,  \* the deployments configured with the bootstrap secret
  Orders,         \* requests of operators
  OrderOf,        \* what an operator's request asks for
  MaxTokens,      \* bound: calls of generateToken
  MaxFailures     \* bound: handlers that stop half-way (error, server restart),
                  \* processes that die while their request goes on, and
                  \* answers that do not reach a living process

Tokens == 1..MaxTokens
Incarnations == 0..MaxFailures
Callers == Workers \X Incarnations

(* An operator's request.  scopes: the environments of the actors that may    *)
(* send it, all of Envs for the root actor.                                   *)
Order == [kind : {"enrol", "grant"}, name : Names, envs : SUBSET Envs,
          scopes : SUBSET SUBSET Envs]

ASSUME BoundsAssumption ==
  MaxTokens \in Nat /\ MaxFailures \in Nat

ASSUME DeploymentAssumption ==
  /\ NameOf \in [Workers -> Names]
  /\ Bootstrapping \subseteq Workers
  /\ PipelinesOf \in [Repos -> SUBSET Envs]
  /\ OrderOf \in [Orders -> Order]
  /\ \A o \in Orders : OrderOf[o].envs # {}

ASSUME NoNullAssumption == NULL \notin Int /\ NULL \notin Names

VARIABLES
  setup,     \* whether POST /v1/setup has committed
  creds,     \* the two tables: one row per name, with its grants
  minted,    \* number of generateToken calls so far
  proc,      \* worker processes
  boots,     \* the bootstrap request of an incarnation
  calls,     \* the authenticated request of an incarnation
  orders,    \* handlers of operators' requests
  jobs,      \* what a CI job of a repository has discovered
  audit,     \* table audit_events, with the name concerned
  failures   \* handlers stopped half-way, processes died, answers lost so far

vars == <<setup, creds, minted, proc, boots, calls, orders, jobs, audit, failures>>

-------------------------------------------------------------------------------
URLs == {URLOf[w] : w \in Workers}

(* late is no column: it records that the bootstrap that wrote the token did  *)
(* so after its caller had died or given up.                                  *)
CredentialRow ==
  [row : BOOLEAN, token : Tokens \cup {NULL}, late : BOOLEAN, created : 0..MaxTokens,
   url : URLs \cup {NULL}, envs : SUBSET Envs]

Process ==
  [pc : {"down", "booting", "registering", "polling"}, inc : Incarnations,
   token : Tokens \cup {NULL}]

Boot ==
  [pc : {"none", "sent", "lookup", "mint", "rotate", "audit", "failed", "done"},
   token : Tokens \cup {NULL}]

(* envs outlives the request: the scope the latest request was served with. *)
Call ==
  [pc : {"none", "sent", "list", "serve", "denied", "done"},
   kind : {"callback", "poll"}, token : Tokens \cup {NULL}, cred : Names \cup {NULL}, envs : SUBSET Envs]

OrderState ==
  [pc : {"none", "grant", "audit", "answered", "failed"}, scope : SUBSET Envs,
   todo : SUBSET Envs, token : Tokens \cup {NULL}]

NoCredential ==
  [row |-> FALSE, token |-> NULL, late |-> FALSE, created |-> 0, url |-> NULL, envs |-> {}]
NoBoot == [pc |-> "none", token |-> NULL]
NoCall == [pc |-> "none", kind |-> "poll", token |-> NULL, cred |-> NULL, envs |-> {}]

(* Type invariant: the tables, processes and handlers keep their types. *)
TypeOK ==
  /\ setup \in BOOLEAN
  /\ creds \in [Names -> CredentialRow]
  /\ minted \in 0..MaxTokens
  /\ proc \in [Workers -> Process]
  /\ boots \in [Callers -> Boot]
  /\ calls \in [Callers -> Call]
  /\ orders \in [Orders -> OrderState]
  /\ jobs \in [Repos -> URLs \cup {NULL}]
  /\ audit \subseteq {"worker.enrolled", "worker.self_registered",
                      "worker.environment_granted"} \X Names
  /\ failures \in 0..MaxFailures

Init ==
  /\ setup = FALSE
  /\ creds = [n \in Names |-> NoCredential]
  /\ minted = 0
  /\ proc = [w \in Workers |-> [pc |-> "down", inc |-> 0, token |-> NULL]]
  /\ boots = [c \in Callers |-> NoBoot]
  /\ calls = [c \in Callers |-> NoCall]
  /\ orders = [o \in Orders |-> [pc |-> "none", scope |-> {}, todo |-> {}, token |-> NULL]]
  /\ jobs = [r \in Repos |-> NULL]
  /\ audit = {}
  /\ failures = 0

Self(w) == <<w, proc[w].inc>>
Failure == failures < MaxFailures /\ failures' = failures + 1

(* Nobody waits for the answers of an earlier incarnation. *)
GivenUp(c) == c[2] < proc[c[1]].inc

(* The request's context ends when the server sees that its caller is gone,   *)
(* which may be late or never (a lost host, a proxy in between).              *)
Abandoned(c) == GivenUp(c) /\ UNCHANGED failures

(* POST /v1/setup; everything else that needs a session comes after it. *)
Setup ==
  /\ ~setup
  /\ setup' = TRUE
  /\ UNCHANGED <<creds, minted, proc, boots, calls, orders, jobs, audit, failures>>

-------------------------------------------------------------------------------
(* The SQL statements of package workercred.                                *)

(* INSERT INTO worker_credentials; created_at grows with the token number. *)
CreateWorkerCredential(n, t, late) ==
  /\ ~creds[n].row
  /\ creds' = [creds EXCEPT
       ![n] = [NoCredential EXCEPT !.row = TRUE, !.token = t, !.late = late, !.created = t]]

(* SELECT * FROM worker_credentials WHERE tenant_id = $1 AND name = $2 *)
GetWorkerCredentialByTenantAndName(n) == creds[n].row

(* Mutant of RotateWorkerCredentialToken: the row is replaced by a new one. *)
ReplaceWorkerCredential(n, t, late) ==
  creds' = [creds EXCEPT
       ![n] = [NoCredential EXCEPT !.row = TRUE, !.token = t, !.late = late, !.created = t]]

(* Mutant of RotateWorkerCredentialToken: the token is stored unhashed, and *)
(* no lookup finds it.                                                       *)
RotateUnhashed(n, t, late) == creds' = [creds EXCEPT ![n].token = NULL, ![n].late = late]

(* UPDATE worker_credentials SET token_hash = $2 WHERE id = $1 *)
RotateWorkerCredentialToken(n, t, late) ==
  creds' = [creds EXCEPT ![n].token = t, ![n].late = late]

(* Mutant of GetWorkerCredentialByTokenHash: any credential will do. *)
GetAnyWorkerCredential(t) == {n \in Names : creds[n].row}

(* SELECT ... WHERE token_hash = $1 AND revoked_at IS NULL *)
GetWorkerCredentialByTokenHash(t) == {n \in Names : creds[n].row /\ creds[n].token = t}

(* SELECT environment_id FROM worker_credential_environments *)
ListWorkerCredentialEnvironments(n) == creds[n].envs

(* INSERT INTO worker_credential_environments ... ON CONFLICT DO NOTHING *)
GrantWorkerCredentialEnvironment(n, e) == creds' = [creds EXCEPT ![n].envs = @ \cup {e}]

(* Mutant of SetWorkerCICallbackURL: the arguments are mixed up. *)
SetWorkerCICallbackName(n, u) == creds' = [creds EXCEPT ![n].url = n]

(* UPDATE worker_credentials SET ci_callback_url = $2 WHERE id = $1 *)
SetWorkerCICallbackURL(n, u) == creds' = [creds EXCEPT ![n].url = u]

(* Mutant of GetCICallbackURLForRepo: the JOIN with pipelines is dropped. *)
GetAnyCICallbackURL(r) == {n \in Names : creds[n].row /\ creds[n].url # NULL}

(* The credentials GetCICallbackURLForRepo selects before ORDER BY and LIMIT. *)
GetCICallbackURLForRepo(r) ==
  {n \in Names :
     /\ creds[n].row
     /\ creds[n].url # NULL
     /\ creds[n].envs \cap PipelinesOf[r] # {}}

-------------------------------------------------------------------------------
(* worker/internal/service.Run.                                             *)

(* The tokens `idpctl worker enrol` has printed for a name. *)
PrintedTokens(n) ==
  {orders[o].token : o \in {o \in Orders : /\ OrderOf[o].kind = "enrol"
                                          /\ OrderOf[o].name = n
                                          /\ orders[o].pc = "answered"}}

(* With a token in hand: a callback address is announced before polling. *)
AfterToken(w) == IF URLOf[w] = NULL THEN "polling" ELSE "registering"

(* config.Load: either the bootstrap secret or a token must be configured. *)
StartProcess(w) ==
  /\ proc[w].pc = "down"
  /\ \/ /\ w \in Bootstrapping
        /\ proc' = [proc EXCEPT ![w].pc = "booting", ![w].token = NULL]
     \/ /\ w \notin Bootstrapping
        /\ \E t \in PrintedTokens(NameOf[w]) :
             proc' = [proc EXCEPT ![w].pc = AfterToken(w), ![w].token = t]
  /\ UNCHANGED <<setup, creds, minted, boots, calls, orders, jobs, audit, failures>>

(* bootstrapRetry: a first attempt, and another after every failed one; after *)
(* a lost answer (AnswerLost) the handler of the attempt before still runs.    *)
SendBootstrap(w) ==
  /\ proc[w].pc = "booting"
  /\ boots[Self(w)].pc \in {"none", "failed"}
  /\ boots' = [boots EXCEPT ![Self(w)] = [NoBoot EXCEPT !.pc = "sent"]]
  /\ UNCHANGED <<setup, creds, minted, proc, calls, orders, jobs, audit, failures>>

Bootstrapped(w) ==
  /\ proc[w].pc = "booting"
  /\ boots[Self(w)].pc = "done"
  /\ proc' = [proc EXCEPT ![w].pc = AfterToken(w), ![w].token = boots[Self(w)].token]
  /\ boots' = [boots EXCEPT ![Self(w)] = NoBoot]
  /\ UNCHANGED <<setup, creds, minted, calls, orders, jobs, audit, failures>>

(* RegisterCICallback, and the requests of the poll loop. *)
SendCall(w) ==
  /\ proc[w].pc \in {"registering", "polling"}
  /\ calls[Self(w)].pc = "none"
  /\ calls' = [calls EXCEPT ![Self(w)] =
       [@ EXCEPT !.pc = "sent", !.token = proc[w].token,
                 !.kind = IF proc[w].pc = "polling" THEN "poll" ELSE "callback"]]
  /\ UNCHANGED <<setup, creds, minted, proc, boots, orders, jobs, audit, failures>>

(* A failed registration ends the process; a failed poll is only logged. *)
CallAnswered(w) ==
  /\ calls[Self(w)].pc \in {"done", "denied"}
  /\ calls' = [calls EXCEPT ![Self(w)].pc = "none"]
  /\ proc' = [proc EXCEPT ![w].pc =
       IF @ = "polling" \/ calls[Self(w)].pc = "done" THEN "polling" ELSE "down"]
  /\ UNCHANGED <<setup, creds, minted, boots, orders, jobs, audit, failures>>

(* The process dies; the handlers of its requests may go on. *)
Crash(w) ==
  /\ proc[w].pc # "down"
  /\ Failure
  /\ proc' = [proc EXCEPT ![w].pc = "down", ![w].inc = @ + 1, ![w].token = NULL]
  /\ UNCHANGED <<setup, creds, minted, boots, calls, orders, jobs, audit>>

(* A living process gets an error for a request whose handler may go on:     *)
(* bootstrapRetry tries again, Run ends when the registration failed, and    *)
(* the poll loop asks again.                                                 *)
AnswerLost(w) ==
  /\ \/ proc[w].pc = "booting" /\ boots[Self(w)].pc \notin {"none", "failed"}
     \/ proc[w].pc \in {"registering", "polling"} /\ calls[Self(w)].pc # "none"
  /\ Failure
  /\ proc' = [proc EXCEPT ![w].pc = IF @ = "registering" THEN "down" ELSE @,
                          ![w].inc = @ + 1]
  /\ UNCHANGED <<setup, creds, minted, boots, calls, orders, jobs, audit>>

-------------------------------------------------------------------------------
(* handlePostWorkerBootstrap and Store.Bootstrap.                           *)

(* GetSole answers 409 before setup; the root actor exists since setup. *)
GetSoleTenant(c) ==
  /\ boots[c].pc = "sent"
  /\ boots' = [boots EXCEPT ![c].pc = IF setup THEN "lookup" ELSE "failed"]
  /\ UNCHANGED <<setup, creds, minted, proc, calls, orders, jobs, audit, failures>>

BootstrapLookup(c) ==
  /\ boots[c].pc = "lookup"
  /\ boots' = [boots EXCEPT ![c].pc =
       IF GetWorkerCredentialByTenantAndName(NameOf[c[1]]) THEN "rotate" ELSE "mint"]
  /\ UNCHANGED <<setup, creds, minted, proc, calls, orders, jobs, audit, failures>>

(* mint with no environments: the INSERT, or a unique violation answered 500. *)
BootstrapMint(c) ==
  LET n == NameOf[c[1]] IN
  /\ boots[c].pc = "mint"
  /\ \/ /\ minted < MaxTokens
        /\ CreateWorkerCredential(n, minted + 1, GivenUp(c))
        /\ minted' = minted + 1
        /\ boots' = [boots EXCEPT ![c].pc = "audit", ![c].token = minted + 1]
     \/ /\ creds[n].row
        /\ boots' = [boots EXCEPT ![c].pc = "failed"]
        /\ UNCHANGED <<creds, minted>>
  /\ UNCHANGED <<setup, proc, calls, orders, jobs, audit, failures>>

(* generateToken, RotateWorkerCredentialToken; the environments are listed  *)
(* for the answer and never written.                                        *)
BootstrapRotate(c) ==
  /\ boots[c].pc = "rotate"
  /\ minted < MaxTokens
  /\ RotateWorkerCredentialToken(NameOf[c[1]], minted + 1, GivenUp(c))
  /\ minted' = minted + 1
  /\ boots' = [boots EXCEPT ![c].pc = "audit", ![c].token = minted + 1]
  /\ UNCHANGED <<setup, proc, calls, orders, jobs, audit, failures>>

BootstrapAudit(c) ==
  /\ boots[c].pc = "audit"
  /\ audit' = audit \cup {<<"worker.self_registered", NameOf[c[1]]>>}
  /\ boots' = [boots EXCEPT ![c].pc = "done"]
  /\ UNCHANGED <<setup, creds, minted, proc, calls, orders, jobs, failures>>

(* A statement fails or the server stops: the caller gets no token. *)
BootstrapStopped(c) ==
  /\ boots[c].pc \in {"sent", "lookup", "mint", "rotate", "audit"}
  /\ Failure \/ Abandoned(c)
  /\ boots' = [boots EXCEPT ![c] = [NoBoot EXCEPT !.pc = "failed"]]
  /\ UNCHANGED <<setup, creds, minted, proc, calls, orders, jobs, audit>>

-------------------------------------------------------------------------------
(* requireWorkerAuth and the handler behind it.                             *)

(* Store.Verify, first statement. *)
VerifyToken(c) ==
  /\ calls[c].pc = "sent"
  /\ \E n \in GetWorkerCredentialByTokenHash(calls[c].token) :
       calls' = [calls EXCEPT ![c].pc = "list", ![c].cred = n]
  /\ UNCHANGED <<setup, creds, minted, proc, boots, orders, jobs, audit, failures>>

(* ErrNotFound: requireWorkerAuth answers 401. *)
Unauthorized(c) ==
  /\ calls[c].pc = "sent"
  /\ GetWorkerCredentialByTokenHash(calls[c].token) = {}
  /\ calls' = [calls EXCEPT ![c].pc = "denied"]
  /\ UNCHANGED <<setup, creds, minted, proc, boots, orders, jobs, audit, failures>>

(* Mutant of VerifyEnvironments: the scope of the first request is kept. *)
VerifyCachedEnvironments(c) ==
  /\ calls[c].pc = "list"
  /\ calls' = [calls EXCEPT
       ![c].pc = "serve",
       ![c].envs = IF calls[c].kind = "poll" THEN @
                   ELSE ListWorkerCredentialEnvironments(calls[c].cred)]
  /\ UNCHANGED <<setup, creds, minted, proc, boots, orders, jobs, audit, failures>>

(* Store.Verify, second statement: the scope the handler will act with. *)
VerifyEnvironments(c) ==
  /\ calls[c].pc = "list"
  /\ calls' = [calls EXCEPT
       ![c].pc = "serve",
       ![c].envs = ListWorkerCredentialEnvironments(calls[c].cred)]
  /\ UNCHANGED <<setup, creds, minted, proc, boots, orders, jobs, audit, failures>>

(* The handlers that claim, resolve and report: see RunEngine, Connectivity. *)
ServePoll(c) ==
  /\ calls[c].pc = "serve"
  /\ calls[c].kind = "poll"
  /\ calls' = [calls EXCEPT ![c].pc = "done"]
  /\ UNCHANGED <<setup, creds, minted, proc, boots, orders, jobs, audit, failures>>

(* handlePutWorkerCICallbackURL acts on the credential it authenticated. *)
SetCICallbackURL(c) ==
  /\ calls[c].pc = "serve"
  /\ calls[c].kind = "callback"
  /\ SetWorkerCICallbackURL(calls[c].cred, URLOf[c[1]])
  /\ calls' = [calls EXCEPT ![c].pc = "done"]
  /\ UNCHANGED <<setup, minted, proc, boots, orders, jobs, audit, failures>>

CallStopped(c) ==
  /\ calls[c].pc \in {"sent", "list", "serve"}
  /\ Failure \/ Abandoned(c)
  /\ calls' = [calls EXCEPT ![c].pc = "denied"]
  /\ UNCHANGED <<setup, creds, minted, proc, boots, orders, jobs, audit>>

-------------------------------------------------------------------------------
(* handlePostWorkers and handlePostWorkerGrantEnvironments, for callers of    *)
(* the autonomous tier.                                                       *)

(* Every name must be within the caller's own scope, else 403. *)
ResolveWorkerEnvironments(o, scope) == OrderOf[o].envs \subseteq scope

Refuse(o) ==
  /\ setup
  /\ orders[o].pc = "none"
  /\ OrderOf[o].kind = "grant" => creds[OrderOf[o].name].row
  /\ \E s \in OrderOf[o].scopes : ~ResolveWorkerEnvironments(o, s)
  /\ orders' = [orders EXCEPT ![o].pc = "failed"]
  /\ UNCHANGED <<setup, creds, minted, proc, boots, calls, jobs, audit, failures>>

(* Store.Create: the INSERT; a taken name is answered 500. *)
EnrolWorker(o) ==
  LET n == OrderOf[o].name IN
  /\ setup
  /\ orders[o].pc = "none"
  /\ OrderOf[o].kind = "enrol"
  /\ \/ \E s \in OrderOf[o].scopes :
          /\ ResolveWorkerEnvironments(o, s)
          /\ minted < MaxTokens
          /\ CreateWorkerCredential(n, minted + 1, FALSE)
          /\ minted' = minted + 1
          /\ orders' = [orders EXCEPT ![o] =
               [pc |-> "grant", scope |-> s, todo |-> OrderOf[o].envs, token |-> minted + 1]]
     \/ /\ creds[n].row
        /\ orders' = [orders EXCEPT ![o].pc = "failed"]
        /\ UNCHANGED <<creds, minted>>
  /\ UNCHANGED <<setup, proc, boots, calls, jobs, audit, failures>>

(* An operator grants by credential id, which only an existing row has. *)
GrantWorker(o) ==
  /\ orders[o].pc = "none"
  /\ OrderOf[o].kind = "grant"
  /\ creds[OrderOf[o].name].row
  /\ \E s \in OrderOf[o].scopes :
       /\ ResolveWorkerEnvironments(o, s)
       /\ orders' = [orders EXCEPT ![o] =
            [@ EXCEPT !.pc = "grant", !.scope = s, !.todo = OrderOf[o].envs]]
  /\ UNCHANGED <<setup, creds, minted, proc, boots, calls, jobs, audit, failures>>

(* Store.Grant: one statement per environment. *)
Grant(o, e) ==
  /\ orders[o].pc = "grant"
  /\ e \in orders[o].todo
  /\ GrantWorkerCredentialEnvironment(OrderOf[o].name, e)
  /\ orders' = [orders EXCEPT
       ![o].todo = @ \ {e},
       ![o].pc = IF orders[o].todo = {e} THEN "audit" ELSE "grant"]
  /\ UNCHANGED <<setup, minted, proc, boots, calls, jobs, audit, failures>>

AuditOrder(o) ==
  /\ orders[o].pc = "audit"
  /\ audit' = audit \cup
       {<<IF OrderOf[o].kind = "enrol" THEN "worker.enrolled"
          ELSE "worker.environment_granted", OrderOf[o].name>>}
  /\ orders' = [orders EXCEPT ![o].pc = "answered"]
  /\ UNCHANGED <<setup, creds, minted, proc, boots, calls, jobs, failures>>

OrderStopped(o) ==
  /\ orders[o].pc \in {"grant", "audit"}
  /\ Failure
  /\ orders' = [orders EXCEPT ![o].pc = "failed"]
  /\ UNCHANGED <<setup, creds, minted, proc, boots, calls, jobs, audit>>

-------------------------------------------------------------------------------
(* handleGetCICallbackURL, asked by runCIAuth.                              *)

(* ORDER BY created_at DESC LIMIT 1. *)
CICallbackURLForRepo(r) ==
  {creds[n].url : n \in {n \in GetCICallbackURLForRepo(r) :
     \A k \in GetCICallbackURLForRepo(r) : creds[k].created <= creds[n].created}}

(* The job posts its token to the address it is told; without a row it fails. *)
DiscoverCallback(r) ==
  /\ jobs[r] = NULL
  /\ \E u \in CICallbackURLForRepo(r) : jobs' = [jobs EXCEPT ![r] = u]
  /\ UNCHANGED <<setup, creds, minted, proc, boots, calls, orders, audit, failures>>

-------------------------------------------------------------------------------
BootstrapStep(c) ==
  \/ GetSoleTenant(c) \/ BootstrapLookup(c)
  \/ BootstrapMint(c) \/ BootstrapRotate(c) \/ BootstrapAudit(c)

CallStep(c) ==
  \/ VerifyToken(c) \/ Unauthorized(c) \/ VerifyEnvironments(c)
  \/ SetCICallbackURL(c) \/ ServePoll(c)

ProcessStep(w) ==
  StartProcess(w) \/ SendBootstrap(w) \/ Bootstrapped(w) \/ SendCall(w) \/ CallAnswered(w)

OrderStep(o) ==
  \/ Refuse(o) \/ EnrolWorker(o) \/ GrantWorker(o) \/ AuditOrder(o)
  \/ \E e \in Envs : Grant(o, e)

Next ==
  \/ Setup
  \/ \E w \in Workers : ProcessStep(w) \/ Crash(w) \/ AnswerLost(w)
  \/ \E c \in Callers : BootstrapStep(c) \/ BootstrapStopped(c) \/ CallStep(c) \/ CallStopped(c)
  \/ \E o \in Orders : OrderStep(o) \/ OrderStopped(o)
  \/ \E r \in Repos : DiscoverCallback(r)

Spec == Init /\ [][Next]_vars

(* Handlers run to their end, processes are restarted and go on, and the     *)
(* operator sets the instance up.                                            *)
FairSpec ==
  /\ Spec
  /\ WF_vars(Setup)
  /\ \A w \in Workers : WF_vars(ProcessStep(w))
  /\ \A c \in Callers : WF_vars(BootstrapStep(c)) /\ WF_vars(CallStep(c))
  /\ \A o \in Orders : WF_vars(OrderStep(o))

-------------------------------------------------------------------------------
AuthenticatedAs(w, n) == proc[w].pc = "polling" /\ proc[w].token = creds[n].token

WorkersNamed(n) == {w \in Workers : NameOf[w] = n}

(* What an operator granted is what a credential has: an order answered with *)
(* success stays in force through every later bootstrap, rotation and        *)
(* concurrent grant, and no environment appears that nobody who has it asked *)
(* for (handlePostWorkerBootstrap: "can only ever produce a zero-environment *)
(* credential"; resolveWorkerEnvironments: "cannot grant more than you       *)
(* have").                                                                   *)
GrantsAreOrders ==
  /\ \A o \in Orders :
       orders[o].pc = "answered" => OrderOf[o].envs \subseteq creds[OrderOf[o].name].envs
  /\ \A n \in Names :
       creds[n].envs \subseteq UNION {OrderOf[o].envs \cap orders[o].scope :
         o \in {o \in Orders : OrderOf[o].name = n}}

(* A request is served as the credential of its sender's own name and with   *)
(* environments that credential still has, although the token may have been  *)
(* replaced since requireWorkerAuth looked it up.                            *)
ServedInScope ==
  \A c \in Callers :
    calls[c].pc \in {"list", "serve"} =>
      /\ calls[c].cred = NameOf[c[1]]
      /\ calls[c].pc = "serve" => calls[c].envs \subseteq creds[calls[c].cred].envs

(* A CI job is sent to a worker that is granted an environment in which the  *)
(* job's repository has a pipeline (handleGetCICallbackURL).                 *)
DiscoveryScoped ==
  \A r \in Repos : jobs[r] # NULL =>
    \E w \in Workers :
      /\ URLOf[w] = jobs[r]
      /\ creds[NameOf[w]].envs \cap PipelinesOf[r] # {}

(* The workers that bootstrap under a name get through start-up, whatever    *)
(* order setup, failed attempts, retries, deaths and restarts come in, and   *)
(* one of them keeps polling with a token the control plane accepts          *)
(* (Store.Bootstrap: "Safe to call on every worker startup").  There is one  *)
(* exception: the last bootstrap that wrote the token did so after its       *)
(* caller had died, or had given it up and sent another.  Such a late write  *)
(* takes away the token in use, and the worker is answered 401 from then on. *)
EventuallyPolling ==
  \A w \in Bootstrapping :
    <>[](\/ creds[NameOf[w]].late
         \/ \E v \in WorkersNamed(NameOf[w]) : AuthenticatedAs(v, NameOf[w]))

(* A grant reaches a worker without an operator's doing: once                *)
(* handlePostWorkerGrantEnvironments has answered, the requests of a worker  *)
(* of that name are in the end served with the environment, and stay so,     *)
(* with the same exception.                                                  *)
GrantReachesWorker ==
  \A o \in Orders, w \in Bootstrapping :
    OrderOf[o].name = NameOf[w] =>
      <>[](orders[o].pc = "answered" =>
             \/ creds[NameOf[w]].late
             \/ \E v \in WorkersNamed(NameOf[w]) :
                  OrderOf[o].envs \subseteq calls[Self(v)].envs)
===============================================================================
