---------------------------- MODULE AgentEnrolment ----------------------------
(***************************************************************************)
(* Enrolment of agents: POST /v1/agents (api/agents.go), the tables actors *)
(* and actor_environments (internal/actor), token issue (pkg/identity) and *)
(* the audit event of each.  The handler runs outside any transaction: the *)
(* lookup of the idempotency key, the INSERT, each grant, the issue and    *)
(* the audit are steps of their own, between which other requests run and  *)
(* after any of which the request may stop.                                *)
(*                                                                         *)
(* ttl_seconds is multiplied in a signed word of 2 * HalfWord values, as   *)
(* time.Duration is; Second and MaxAgentTTL are scaled with it.            *)
(*                                                                         *)
(* Abstracted: tenant and team (one of each), names, token bytes; teams    *)
(* and environments are looked up in constants, for rows of neither change.*)
(***************************************************************************)
EXTENDS Integers, Sequences, FiniteSets, Policy

CONSTANTS
  NULL,
  Sessions,     \* claims of the sessions people hold
  Environments, \* registered environments
  Keys,         \* idempotency keys
  Orders,       \* request bodies that are looked at
  Agents,       \* ids of actors rows that may be inserted
  Requests,     \* POST /v1/agents requests
  HalfWord,     \* half the values of a time.Duration, 2^63
  Second,       \* time.Second
  MaxAgentTTL,  \* maxAgentTTL
  MaxTicks      \* bound: seconds that pass

ASSUME WordAssumption ==
  /\ HalfWord \in Nat \ {0} /\ Second \in Nat \ {0}
  /\ MaxAgentTTL \in 1..(HalfWord - 1) /\ MaxTicks \in Nat
ASSUME OrdersAssumption ==
  \A o \in Orders : /\ o.tier \in Tiers /\ o.environments \in Seq(STRING)
                    /\ o.ttlSeconds \in Int /\ o.key \in Keys \cup {NULL}

VARIABLES
  clock,    \* time.Now()
  actors,   \* table actors
  grants,   \* table actor_environments
  req,      \* the requests
  minted,   \* agent tokens that were answered
  audits    \* audit events: request, action

vars == <<clock, actors, grants, req, minted, audits>>

-------------------------------------------------------------------------------
(* A product of the word size: it wraps around. *)
Wrap(n) == ((n + HalfWord) % (2 * HalfWord)) - HalfWord

Scope == SUBSET Environments

Claims == [actor : {s.actor : s \in Sessions} \cup Agents, type : {"human", "agent"},
           tier : Tiers, delegated : BOOLEAN, environments : Scope]

ActorRow == [tier : Tiers, authorizedBy : {s.actor : s \in Sessions} \cup Agents,
             expiresAt : Int, key : Keys \cup {NULL}]

NoActor == NULL

ASSUME SessionsAssumption == Sessions \subseteq Claims
ASSUME NoNullAssumption == NULL \notin ActorRow

Token == [actor : Agents, tier : Tiers, environments : Scope, exp : Int]

Request ==
  [pc : {"idle", "key", "create", "grant", "issue", "audit", "list", "reissue",
         "reaudit", "created", "ok", "refused", "stopped"},
   by : Claims \cup {NULL}, order : Orders \cup {NULL}, expiresAt : Int,
   actor : Agents \cup {NULL}, granted : Nat, environments : Scope,
   token : Token \cup {NULL}]

Unsent ==
  [pc |-> "idle", by |-> NULL, order |-> NULL, expiresAt |-> 0, actor |-> NULL,
   granted |-> 0, environments |-> {}, token |-> NULL]

(* Type invariant: rows, requests and tokens keep their types, and scopes    *)
(* name registered environments only.                                        *)
TypeOK ==
  /\ clock \in Nat
  /\ actors \in [Agents -> ActorRow \cup {NoActor}]
  /\ grants \in [Agents -> Scope]
  /\ req \in [Requests -> Request]
  /\ minted \subseteq [by : Claims, request : Requests, token : Token, at : Nat]
  /\ audits \subseteq Requests \X {"agent.enrolled", "agent.token.reissued"}

Init ==
  /\ clock = 0
  /\ actors = [a \in Agents |-> NoActor]
  /\ grants = [a \in Agents |-> {}]
  /\ req = [q \in Requests |-> Unsent]
  /\ minted = {}
  /\ audits = {}

Set(q, fields) ==
  req' = [req EXCEPT ![q] = [f \in DOMAIN @ |-> IF f \in DOMAIN fields THEN fields[f] ELSE @[f]]]

To(q, pc) == req' = [req EXCEPT ![q].pc = pc]

-------------------------------------------------------------------------------
(* Statements on actors and actor_environments.                             *)

(* SELECT of the rows with this key of this authoriser. *)
GetActorByIdempotencyKey(by, key) ==
  {a \in Agents : actors[a] # NoActor /\ actors[a].authorizedBy = by /\ actors[a].key = key}

(* Mutant of CreateActorUnique: no unique index. *)
CreateActorAnyway(row) == TRUE

(* The unique index on authorised_by and idempotency_key, for rows with one. *)
CreateActorUnique(row) ==
  row.key = NULL \/ GetActorByIdempotencyKey(row.authorizedBy, row.key) = {}

(* Plain INSERT: a pair that is there already is an error. *)
GrantActorEnvironment(a, e) ==
  /\ e \notin grants[a]
  /\ grants' = [grants EXCEPT ![a] = @ \cup {e}]

ListActorEnvironments(a) == grants[a]

-------------------------------------------------------------------------------
(* Issuer.Issue refuses a tier above the issuer's and a ttl not positive. *)
MayIssue(tier, ttl, issuerTier) == Valid(tier) /\ ttl > 0 /\ tier <= issuerTier

Issue(a, tier, environments, ttl) ==
  [actor |-> a, tier |-> tier, environments |-> environments, exp |-> clock + ttl]

(* Claims.PermitsEnvironment; only delegated sessions are asked. *)
Permits(s, e) == s.delegated => e \in s.environments

(* The tokens handed out so far are sessions of their agents. *)
AgentSessions ==
  {[actor |-> m.token.actor, type |-> "agent", tier |-> m.token.tier,
    delegated |-> TRUE, environments |-> m.token.environments] : m \in minted}

ToSetOf(seq) == {seq[i] : i \in 1..Len(seq)}

TTL(o) == Wrap(o.ttlSeconds * Second)

(* What the handler asks before it reads anything. *)
Acceptable(s, o) ==
  /\ s.type # "agent"
  /\ o.ttlSeconds > 0
  /\ TTL(o) <= MaxAgentTTL
  /\ o.tier <= s.tier

(* idpctl agent create: a request with the session of the caller. *)
CreateAgent(q, s, o) ==
  /\ req[q].pc = "idle"
  /\ req' = [req EXCEPT ![q] = [Unsent EXCEPT
       !.by = s, !.order = o, !.pc = IF Acceptable(s, o) THEN "key" ELSE "refused"]]
  /\ UNCHANGED <<clock, actors, grants, minted, audits>>

(* Mutant of ResolveEnvironments: unknown names are passed on. *)
ResolveAnyEnvironments(s, o) == \A e \in ToSetOf(o.environments) : Permits(s, e)

(* The environments of the body, all registered and within the scope. *)
ResolveEnvironments(s, o) ==
  \A e \in ToSetOf(o.environments) : e \in Environments /\ Permits(s, e)

(* An actor with the key is reissued a token; otherwise the body is resolved *)
(* and expires_at is fixed.                                                  *)
Lookup(q) ==
  LET s == req[q].by
      o == req[q].order
      existing == IF o.key = NULL THEN {} ELSE GetActorByIdempotencyKey(s.actor, o.key) IN
  /\ req[q].pc = "key"
  /\ \/ \E a \in existing :
          IF actors[a].tier > s.tier THEN To(q, "refused")
          ELSE Set(q, [pc |-> "list", actor |-> a])
     \/ /\ existing = {}
        /\ IF ResolveEnvironments(s, o)
           THEN Set(q, [pc |-> "create", expiresAt |-> clock + TTL(o)])
           ELSE To(q, "refused")
  /\ UNCHANGED <<clock, actors, grants, minted, audits>>

(* actors.Create; a violated unique index is an internal error. *)
Create(q) ==
  LET row == [tier |-> req[q].order.tier, authorizedBy |-> req[q].by.actor,
              expiresAt |-> req[q].expiresAt, key |-> req[q].order.key] IN
  /\ req[q].pc = "create"
  /\ \/ /\ CreateActorUnique(row)
        /\ \E a \in Agents :
             /\ actors[a] = NoActor
             /\ \A b \in Agents : actors[b] = NoActor => a <= b
             /\ actors' = [actors EXCEPT ![a] = row]
             /\ Set(q, [pc |-> "grant", actor |-> a])
     \/ /\ ~CreateActorUnique(row)
        /\ To(q, "stopped")
        /\ UNCHANGED actors
  /\ UNCHANGED <<clock, grants, minted, audits>>

(* actors.GrantEnvironment, one environment of the body after the other. *)
GrantEnvironment(q) ==
  LET envs == req[q].order.environments
      n == req[q].granted + 1 IN
  /\ req[q].pc = "grant"
  /\ \/ /\ n > Len(envs)
        /\ To(q, "issue")
        /\ UNCHANGED grants
     \/ /\ n <= Len(envs)
        /\ \/ /\ GrantActorEnvironment(req[q].actor, envs[n])
              /\ Set(q, [granted |-> n, environments |-> req[q].environments \cup {envs[n]}])
           \/ /\ envs[n] \in grants[req[q].actor]
              /\ To(q, "stopped")
              /\ UNCHANGED grants
  /\ UNCHANGED <<clock, actors, minted, audits>>

IssueToken(q) ==
  LET o == req[q].order IN
  /\ req[q].pc = "issue"
  /\ IF MayIssue(o.tier, TTL(o), req[q].by.tier)
     THEN Set(q, [pc |-> "audit",
                  token |-> Issue(req[q].actor, o.tier, req[q].environments, TTL(o))])
     ELSE To(q, "stopped")
  /\ UNCHANGED <<clock, actors, grants, minted, audits>>

(* The event is written before the token is answered. *)
AuditThenAnswer(q, action, pc) ==
  /\ audits' = audits \cup {<<q, action>>}
  /\ minted' = minted \cup {[by |-> req[q].by, request |-> q, token |-> req[q].token, at |-> clock]}
  /\ To(q, pc)
  /\ UNCHANGED <<clock, actors, grants>>

Enrolled(q) == req[q].pc = "audit" /\ AuditThenAnswer(q, "agent.enrolled", "created")

-------------------------------------------------------------------------------
(* The retry.                                                               *)

(* Mutant of ListEnvironments: the scope of the caller is not asked again. *)
ListEnvironmentsUnchecked(q) ==
  /\ req[q].pc = "list"
  /\ Set(q, [pc |-> "reissue", environments |-> ListActorEnvironments(req[q].actor)])
  /\ UNCHANGED <<clock, actors, grants, minted, audits>>

(* Mutant of ListEnvironments: the scope of the retry, not the one on record. *)
ListOrderedEnvironments(q) ==
  /\ req[q].pc = "list"
  /\ Set(q, [pc |-> "reissue", environments |-> ToSetOf(req[q].order.environments)])
  /\ UNCHANGED <<clock, actors, grants, minted, audits>>

(* The scope on record, which the caller must still hold. *)
ListEnvironments(q) ==
  LET envs == ListActorEnvironments(req[q].actor) IN
  /\ req[q].pc = "list"
  /\ IF \A e \in envs : Permits(req[q].by, e)
     THEN Set(q, [pc |-> "reissue", environments |-> envs])
     ELSE To(q, "refused")
  /\ UNCHANGED <<clock, actors, grants, minted, audits>>

(* Mutant of ReissueAgentToken: the retry's ttl instead of what is left. *)
ReissueFreshTTL(q) ==
  LET a == req[q].actor IN
  /\ req[q].pc = "reissue"
  /\ IF MayIssue(actors[a].tier, TTL(req[q].order), req[q].by.tier)
     THEN Set(q, [pc |-> "reaudit",
                  token |-> Issue(a, actors[a].tier, req[q].environments, TTL(req[q].order))])
     ELSE To(q, "stopped")
  /\ UNCHANGED <<clock, actors, grants, minted, audits>>

(* A token for what is left of the agent's time. *)
ReissueAgentToken(q) ==
  LET a == req[q].actor
      ttl == actors[a].expiresAt - clock IN
  /\ req[q].pc = "reissue"
  /\ IF MayIssue(actors[a].tier, ttl, req[q].by.tier)
     THEN Set(q, [pc |-> "reaudit",
                  token |-> Issue(a, actors[a].tier, req[q].environments, ttl)])
     ELSE To(q, "stopped")
  /\ UNCHANGED <<clock, actors, grants, minted, audits>>

Reissued(q) == req[q].pc = "reaudit" /\ AuditThenAnswer(q, "agent.token.reissued", "ok")

-------------------------------------------------------------------------------
Finished == {"created", "ok", "refused", "stopped"}

(* A failed statement, a gone client or a dead replica ends the request. *)
Stopped(q) ==
  /\ req[q].pc \notin Finished \cup {"idle"}
  /\ To(q, "stopped")
  /\ UNCHANGED <<clock, actors, grants, minted, audits>>

Tick ==
  /\ clock < MaxTicks * Second
  /\ clock' = clock + Second
  /\ UNCHANGED <<actors, grants, req, minted, audits>>

PostAgents(q) ==
  \/ Lookup(q) \/ Create(q) \/ GrantEnvironment(q) \/ IssueToken(q) \/ Enrolled(q)
  \/ ListEnvironments(q) \/ ReissueAgentToken(q) \/ Reissued(q)

Next ==
  \/ Tick
  \/ \E q \in Requests :
       \/ \E o \in Orders, s \in Sessions \cup AgentSessions : CreateAgent(q, s, o)
       \/ PostAgents(q)
       \/ Stopped(q)

Spec == Init /\ [][Next]_vars

-------------------------------------------------------------------------------
(* No token carries more than the session that was given it holds: neither   *)
(* a higher tier nor an environment out of its scope, on a retry with a      *)
(* weaker session as on the first call; and no agent was enrolled by one.    *)
NoEscalation ==
  \A m \in minted :
    /\ m.by.type # "agent"
    /\ m.token.tier <= m.by.tier
    /\ \A e \in m.token.environments : Permits(m.by, e)

(* The answers to calls of one caller with one key name one agent: "a        *)
(* retried enrolment with the same key returns the actor a prior call        *)
(* already created rather than minting a duplicate".                         *)
OneAgentPerKey ==
  \A m, n \in minted :
    /\ req[m.request].order.key # NULL
    /\ req[m.request].order.key = req[n.request].order.key
    /\ m.by.actor = n.by.actor
    => m.token.actor = n.token.actor

(* Claims.Environments is a subset of actor_environments, and a call that is *)
(* answered 201 grants exactly what was ordered.                             *)
ScopeOnRecord ==
  \A m \in minted :
    /\ m.token.environments \subseteq grants[m.token.actor]
    /\ m.token.tier = actors[m.token.actor].tier
    /\ req[m.request].pc = "created" =>
         m.token.environments = ToSetOf(req[m.request].order.environments)

(* "maxAgentTTL bounds how long an agent's token can be valid", whatever     *)
(* ttl_seconds wraps around to, and a retry does not extend the agent's      *)
(* time.                                                                     *)
LifeBounded ==
  \A m \in minted :
    /\ m.token.exp - m.at <= MaxAgentTTL
    /\ req[m.request].pc = "ok" => m.token.exp <= actors[m.token.actor].expiresAt

(* "ttl_seconds must not exceed" the limit: no such request gets past the    *)
(* checks.                                                                   *)
TTLSecondsChecked ==
  \A q \in Requests :
    req[q].pc \notin {"idle", "refused"} => req[q].order.ttlSeconds * Second <= MaxAgentTTL
===============================================================================
