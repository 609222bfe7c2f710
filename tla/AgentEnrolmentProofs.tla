------------------------- MODULE AgentEnrolmentProofs -------------------------
(***************************************************************************)
(* Proofs that enrolment hands out no more than the caller has, one agent  *)
(* per key, on record and for a bounded time, for any sessions, bodies,    *)
(* agents, environments and requests.                                      *)
(*                                                                         *)
(* The argument: rows of actors are never updated and grants never taken   *)
(* back (Grows), so what a request has read or written stays true until it *)
(* answers (Entitled, Bound, Scoped, Signed), and what was answered stays  *)
(* true for good (Answered); the unique index makes the actor of a key the *)
(* only one (ActorsInv).                                                   *)
(***************************************************************************)
EXTENDS AgentEnrolment, TLAPS

(* Requests that passed the checks of the body. *)
Entitled(r) ==
  /\ r.pc # "idle" => r.by \in Claims /\ r.order \in Orders
  /\ r.pc \notin {"idle", "refused"} => Acceptable(r.by, r.order)
  /\ r.pc \in {"create", "grant", "issue", "audit", "created"} =>
       ResolveEnvironments(r.by, r.order)
  /\ r.pc = "create" => r.expiresAt <= clock + MaxAgentTTL

(* The row of its actor is the caller's and has the caller's key. *)
Bound(r) ==
  /\ r.pc \in {"grant", "issue", "audit", "created", "list", "reissue", "reaudit", "ok"} =>
       /\ r.actor \in Agents /\ actors[r.actor] # NoActor
       /\ actors[r.actor].authorizedBy = r.by.actor
       /\ actors[r.actor].key = r.order.key
  /\ r.pc \in {"grant", "issue"} => actors[r.actor].tier = r.order.tier

(* The environments it has collected are on record and within its scope. *)
Scoped(r) ==
  /\ r.pc = "create" => r.granted = 0 /\ r.environments = {}
  /\ r.pc = "grant" =>
       /\ r.granted \in 0..Len(r.order.environments)
       /\ r.environments = {r.order.environments[i] : i \in 1..r.granted}
  /\ r.pc \in {"issue", "audit", "created"} => r.environments = ToSetOf(r.order.environments)
  /\ r.pc \in {"grant", "issue", "audit", "reissue", "reaudit"} =>
       /\ r.environments \subseteq grants[r.actor]
       /\ \A e \in r.environments : Permits(r.by, e)
  /\ r.pc \in {"key", "list"} => r.granted = 0 /\ r.environments = {}

(* The token it is about to answer. *)
Signed(r) ==
  r.pc \in {"audit", "reaudit"} =>
    /\ r.token \in Token
    /\ r.token.actor = r.actor /\ r.token.environments = r.environments
    /\ r.token.tier = actors[r.actor].tier /\ r.token.tier <= r.by.tier
    /\ r.token.exp <= clock + MaxAgentTTL
    /\ r.pc = "reaudit" => r.token.exp = actors[r.actor].expiresAt

RequestOK(r) == Entitled(r) /\ Bound(r) /\ Scoped(r) /\ Signed(r)

ActorsInv ==
  /\ \A a \in Agents : actors[a] # NoActor => actors[a].expiresAt <= clock + MaxAgentTTL
  /\ \A a, b \in Agents :
       /\ actors[a] # NoActor /\ actors[b] # NoActor
       /\ actors[a].authorizedBy = actors[b].authorizedBy
       /\ actors[a].key = actors[b].key /\ actors[a].key # NULL
       => a = b

(* What was answered. *)
Answered(m) ==
  LET r == req[m.request]
      row == actors[m.token.actor] IN
  /\ r.pc \in {"created", "ok"}
  /\ m.by.type # "agent" /\ m.token.tier <= m.by.tier
  /\ \A e \in m.token.environments : Permits(m.by, e)
  /\ row # NoActor /\ row.authorizedBy = m.by.actor /\ row.key = r.order.key
  /\ m.token.tier = row.tier /\ m.token.environments \subseteq grants[m.token.actor]
  /\ r.pc = "created" => m.token.environments = ToSetOf(r.order.environments)
  /\ m.token.exp - m.at <= MaxAgentTTL
  /\ r.pc = "ok" => m.token.exp <= row.expiresAt

IInv ==
  /\ TypeOK
  /\ \A q \in Requests : RequestOK(req[q])
  /\ ActorsInv
  /\ \A m \in minted : Answered(m)

-------------------------------------------------------------------------------
(* Rows are never updated, grants never taken back, and time goes on. *)
Grows ==
  /\ clock <= clock'
  /\ \A a \in Agents : actors[a] # NoActor => actors'[a] = actors[a]
  /\ \A a \in Agents : grants[a] \subseteq grants'[a]

LEMMA TTLIsInt ==
  ASSUME NEW o \in Orders
  PROVE  TTL(o) \in Int
<1>1. o.ttlSeconds * Second \in Int /\ HalfWord \in Nat \ {0}
  BY OrdersAssumption, WordAssumption
<1>2. ASSUME NEW n \in Int PROVE Wrap(n) \in Int
  BY <1>1 DEF Wrap
<1> QED BY <1>1, <1>2 DEF TTL

LEMMA InitIInv == Init => IInv
<1> SUFFICES ASSUME Init PROVE IInv
  OBVIOUS
<1>1. TypeOK
  BY DEF Init, TypeOK, Unsent, Request, Scope
<1>2. \A q \in Requests : RequestOK(req[q])
  BY DEF Init, Unsent, RequestOK, Entitled, Bound, Scoped, Signed
<1>3. ActorsInv
  BY DEF Init, ActorsInv
<1> QED BY <1>1, <1>2, <1>3 DEF Init, IInv

(* What a request knows stays true while others work. *)
LEMMA RequestFrame ==
  ASSUME TypeOK, TypeOK', Grows, NEW q \in Requests, RequestOK(req[q]), req'[q] = req[q]
  PROVE  RequestOK(req[q])'
<1> DEFINE r == req[q]
<1>1. clock \in Nat /\ clock' \in Nat /\ MaxAgentTTL \in Nat /\ r \in Request
  BY WordAssumption DEF TypeOK
<1>2. Entitled(req[q])'
  BY <1>1 DEF RequestOK, Entitled, Grows, Request, Acceptable, ResolveEnvironments,
              Permits, TTL, Wrap
<1>3. Bound(req[q])'
  BY DEF RequestOK, Bound, Grows
<1>4. Scoped(req[q])'
  BY DEF RequestOK, Bound, Scoped, Grows, Permits, ToSetOf
<1>5. Signed(req[q])'
  BY <1>1 DEF RequestOK, Bound, Signed, Grows, Token
<1> QED BY <1>2, <1>3, <1>4, <1>5 DEF RequestOK

LEMMA AnswerFrame ==
  ASSUME TypeOK, Grows, NEW m \in minted, Answered(m), req'[m.request] = req[m.request]
  PROVE  Answered(m)'
<1>1. m.token.actor \in Agents
  BY DEF TypeOK, Token
<1> QED BY <1>1 DEF Answered, Grows, Permits, ToSetOf

(* A step of one request. *)
LEMMA RequestStep ==
  ASSUME IInv, NEW p \in Requests, TypeOK', Grows, ActorsInv',
         \A q \in Requests : q # p => req'[q] = req[q],
         req[p].pc \notin {"created", "ok"}, RequestOK(req[p])',
         \A m \in minted' : m \in minted \/ Answered(m)'
  PROVE  IInv'
<1>1. \A q \in Requests : RequestOK(req[q])'
  BY RequestFrame DEF IInv
<1>2. ASSUME NEW m \in minted PROVE Answered(m)'
  <2>1. m.request \in Requests /\ m.request # p
    BY DEF IInv, TypeOK, Answered
  <2> QED BY <2>1, AnswerFrame DEF IInv
<1> QED BY <1>1, <1>2 DEF IInv

-------------------------------------------------------------------------------
(* Assignments to a request.                                                *)

Fields == {"pc", "by", "order", "expiresAt", "actor", "granted", "environments", "token"}

LEMMA FieldsMakeRequest ==
  ASSUME NEW r, r = [f \in Fields |-> r[f]],
         r.pc \in {"idle", "key", "create", "grant", "issue", "audit", "list", "reissue",
                   "reaudit", "created", "ok", "refused", "stopped"},
         r.by \in Claims \cup {NULL}, r.order \in Orders \cup {NULL}, r.expiresAt \in Int,
         r.actor \in Agents \cup {NULL}, r.granted \in Nat, r.environments \in Scope,
         r.token \in Token \cup {NULL}
  PROVE  r \in Request
  BY DEF Request, Fields

Field(p, fields, f) == IF f \in DOMAIN fields THEN fields[f] ELSE req[p][f]

LEMMA SetFields ==
  ASSUME TypeOK, NEW p \in Requests, NEW fields, Set(p, fields)
  PROVE  /\ req' = [q \in Requests |-> req'[q]]
         /\ \A q \in Requests : q # p => req'[q] = req[q]
         /\ req'[p] = [f \in Fields |-> req'[p][f]]
         /\ \A f \in Fields : req'[p][f] = Field(p, fields, f)
<1>1. req[p] \in Request /\ DOMAIN req[p] = Fields
  BY DEF TypeOK, Request, Fields
<1> QED BY <1>1 DEF TypeOK, Set, Field

LEMMA RequestTyped ==
  ASSUME TypeOK, NEW p \in Requests, req' = [q \in Requests |-> req'[q]],
         \A q \in Requests : q # p => req'[q] = req[q], req'[p] \in Request,
         actors' \in [Agents -> ActorRow \cup {NoActor}], grants' \in [Agents -> Scope],
         UNCHANGED <<clock, minted, audits>>
  PROVE  TypeOK'
  BY DEF TypeOK

LEMMA ToPlace ==
  ASSUME TypeOK, NEW p \in Requests, NEW pc, To(p, pc)
  PROVE  /\ req' = [q \in Requests |-> req'[q]]
         /\ \A q \in Requests : q # p => req'[q] = req[q]
         /\ req'[p] = [req[p] EXCEPT !.pc = pc]
  BY DEF TypeOK, To

(* A request that ends with nothing answered. *)
LEMMA EndStep ==
  ASSUME IInv, NEW p \in Requests, NEW pc \in {"refused", "stopped"}, To(p, pc),
         req[p].pc \notin Finished \cup {"idle"},
         UNCHANGED <<clock, actors, grants, minted, audits>>
  PROVE  IInv'
<1>1. req[p] \in Request /\ req'[p] \in Request /\ req'[p] = [req[p] EXCEPT !.pc = pc]
  BY ToPlace DEF IInv, TypeOK, Request
<1>2. TypeOK'
  BY <1>1, ToPlace DEF IInv, TypeOK
<1>3. Grows /\ ActorsInv'
  BY DEF IInv, TypeOK, ActorsInv, Grows
<1>4. RequestOK(req[p])'
  BY <1>1 DEF IInv, RequestOK, Entitled, Bound, Scoped, Signed, Finished, Request,
              Acceptable, TTL, Wrap, Permits
<1> QED BY <1>2, <1>3, <1>4, ToPlace, RequestStep DEF IInv, Finished

LEMMA CreateAgentStep ==
  ASSUME IInv, NEW p \in Requests, NEW o \in Orders, NEW s \in Sessions \cup AgentSessions,
         CreateAgent(p, s, o)
  PROVE  IInv'
<1>1. s \in Claims
  <2>1. CASE s \in AgentSessions
    <3>1. PICK m \in minted :
            s = [actor |-> m.token.actor, type |-> "agent", tier |-> m.token.tier,
                 delegated |-> TRUE, environments |-> m.token.environments]
      BY <2>1 DEF AgentSessions
    <3>2. m.token \in Token
      BY DEF IInv, TypeOK
    <3>3. /\ m.token.actor \in Agents /\ m.token.tier \in Tiers
          /\ m.token.environments \in Scope
      BY <3>2 DEF Token
    <3> QED BY <3>1, <3>3 DEF Claims
  <2> QED BY <2>1, SessionsAssumption
<1>2. /\ \A q \in Requests : q # p => req'[q] = req[q]
      /\ req' = [q \in Requests |-> req'[q]]
      /\ req'[p] = [f \in Fields |-> req'[p][f]]
      /\ req'[p].pc = IF Acceptable(s, o) THEN "key" ELSE "refused"
      /\ req'[p].by = s /\ req'[p].order = o /\ req'[p].expiresAt = 0 /\ req'[p].actor = NULL
      /\ req'[p].granted = 0 /\ req'[p].environments = {} /\ req'[p].token = NULL
  BY DEF CreateAgent, IInv, TypeOK, Unsent, Fields
<1>3. req'[p] \in Request
  BY <1>1, <1>2, FieldsMakeRequest DEF Scope
<1>4. TypeOK' /\ Grows /\ ActorsInv'
  BY <1>2, <1>3 DEF IInv, TypeOK, ActorsInv, Grows, CreateAgent
<1>5. RequestOK(req[p])'
  BY <1>1, <1>2 DEF RequestOK, Entitled, Bound, Scoped, Signed, Acceptable, TTL, Wrap
<1> QED BY <1>2, <1>4, <1>5, RequestStep DEF CreateAgent

LEMMA LookupStep ==
  ASSUME IInv, NEW p \in Requests, Lookup(p)
  PROVE  IInv'
<1> DEFINE s == req[p].by
           o == req[p].order
           existing == IF o.key = NULL THEN {} ELSE GetActorByIdempotencyKey(s.actor, o.key)
<1>0. TypeOK
  BY DEF IInv
<1>1. /\ req[p].pc = "key" /\ s \in Claims /\ o \in Orders /\ Acceptable(s, o)
      /\ UNCHANGED <<clock, actors, grants, minted, audits>> /\ req[p] \in Request
      /\ req[p].granted = 0 /\ req[p].environments = {}
  BY DEF Lookup, IInv, TypeOK, RequestOK, Entitled, Scoped
<1>2. ActorsInv' /\ Grows
  BY <1>1 DEF IInv, TypeOK, ActorsInv, Grows
<1>3. ASSUME NEW a \in existing, Set(p, [pc |-> "list", actor |-> a]) PROVE IInv'
  <2>1. /\ a \in Agents /\ actors[a] # NoActor /\ actors[a].authorizedBy = s.actor
        /\ actors[a].key = o.key
    BY <1>3 DEF GetActorByIdempotencyKey
  <2>2. /\ req'[p].pc = "list" /\ req'[p].actor = a /\ req'[p] \in Request
        /\ req'[p].by = s /\ req'[p].order = o
        /\ req'[p].granted = 0 /\ req'[p].environments = {}
    <3>1. \A f \in Fields : req'[p][f] =
            IF f = "pc" THEN "list" ELSE IF f = "actor" THEN a ELSE req[p][f]
      <4> DEFINE fields == [pc |-> "list", actor |-> a]
      <4>1. \A f \in Fields : req'[p][f] = Field(p, fields, f)
        BY ZenonT(30), <1>0, <1>3, SetFields
      <4>2. \A f \in Fields : Field(p, fields, f) =
              IF f = "pc" THEN "list" ELSE IF f = "actor" THEN a ELSE req[p][f]
        BY DEF Field
      <4> HIDE DEF fields
      <4> QED BY <4>1, <4>2
    <3>2. req'[p] = [f \in Fields |-> req'[p][f]]
      BY <1>0, <1>3, SetFields
    <3> QED BY <1>1, <2>1, <3>1, <3>2, FieldsMakeRequest DEF Fields, Request
  <2>3. TypeOK'
    <3>1. actors' \in [Agents -> ActorRow \cup {NoActor}] /\ grants' \in [Agents -> Scope]
      BY <1>1 DEF IInv, TypeOK
    <3> QED BY <1>0, <1>1, <1>3, <2>2, <3>1, SetFields, RequestTyped
  <2>4. RequestOK(req[p])'
    BY <1>1, <2>1, <2>2 DEF RequestOK, Entitled, Bound, Scoped, Signed, Acceptable, TTL, Wrap
  <2> QED BY <1>1, <1>2, <1>3, <2>3, <2>4, SetFields, RequestStep DEF IInv
<1>4. ASSUME ResolveEnvironments(s, o), Set(p, [pc |-> "create", expiresAt |-> clock + TTL(o)])
      PROVE  IInv'
  <2>1. /\ clock \in Nat /\ TTL(o) \in Int /\ TTL(o) <= MaxAgentTTL
        /\ MaxAgentTTL \in Nat
    BY <1>1, TTLIsInt, WordAssumption DEF IInv, TypeOK, Acceptable
  <2>2. /\ req'[p].pc = "create" /\ req'[p].expiresAt = clock + TTL(o) /\ req'[p] \in Request
        /\ req'[p].by = s /\ req'[p].order = o
        /\ req'[p].granted = 0 /\ req'[p].environments = {}
    <3>1. \A f \in Fields : req'[p][f] = IF f = "pc" THEN "create"
                                       ELSE IF f = "expiresAt" THEN clock + TTL(o) ELSE req[p][f]
      <4> DEFINE fields == [pc |-> "create", expiresAt |-> clock + TTL(o)]
      <4>1. \A f \in Fields : req'[p][f] = Field(p, fields, f)
        BY <1>0, <1>4, SetFields
      <4>2. \A f \in Fields : Field(p, fields, f) =
              IF f = "pc" THEN "create"
              ELSE IF f = "expiresAt" THEN clock + TTL(o) ELSE req[p][f]
        BY DEF Field
      <4> HIDE DEF fields
      <4> QED BY <4>1, <4>2
    <3>2. req'[p] = [f \in Fields |-> req'[p][f]]
      BY <1>0, <1>4, SetFields
    <3> QED BY <1>1, <2>1, <3>1, <3>2, FieldsMakeRequest DEF Fields, Request
  <2>3. TypeOK'
    <3>1. actors' \in [Agents -> ActorRow \cup {NoActor}] /\ grants' \in [Agents -> Scope]
      BY <1>1 DEF IInv, TypeOK
    <3> QED BY <1>0, <1>1, <1>4, <2>2, <3>1, SetFields, RequestTyped
  <2>4. RequestOK(req[p])'
    BY <1>1, <1>4, <2>1, <2>2 DEF RequestOK, Entitled, Bound, Scoped, Signed, Acceptable,
                            ResolveEnvironments, Permits, TTL, Wrap
  <2> QED BY <1>1, <1>2, <1>4, <2>3, <2>4, SetFields, RequestStep DEF IInv
<1> QED BY <1>1, <1>3, <1>4, EndStep DEF Lookup, Finished

(* A new actor, and the caller goes on to grant. *)
LEMMA CreateStep ==
  ASSUME IInv, NEW p \in Requests, Create(p)
  PROVE  IInv'
<1> DEFINE s == req[p].by
           o == req[p].order
           row == [tier |-> o.tier, authorizedBy |-> s.actor,
                   expiresAt |-> req[p].expiresAt, key |-> o.key]
<1>0. TypeOK
  BY DEF IInv
<1>1. /\ req[p].pc = "create" /\ s \in Claims /\ o \in Orders /\ req[p] \in Request
      /\ Acceptable(s, o) /\ ResolveEnvironments(s, o) /\ req[p].expiresAt <= clock + MaxAgentTTL
      /\ req[p].granted = 0 /\ req[p].environments = {}
      /\ UNCHANGED <<clock, grants, minted, audits>>
  BY DEF Create, IInv, TypeOK, RequestOK, Entitled, Scoped
<1>2. row \in ActorRow /\ row # NULL
  <2>1. s.actor \in {c.actor : c \in Sessions} \cup Agents
    BY <1>1 DEF Claims
  <2>2. o.tier \in Tiers /\ o.key \in Keys \cup {NULL} /\ req[p].expiresAt \in Int
    BY <1>1, OrdersAssumption DEF Request
  <2>3. row \in ActorRow
    BY <2>1, <2>2 DEF ActorRow
  <2> QED BY <2>3, NoNullAssumption
<1>3. ASSUME NEW a \in Agents, CreateActorUnique(row), actors[a] = NoActor,
             actors' = [actors EXCEPT ![a] = row], Set(p, [pc |-> "grant", actor |-> a])
      PROVE  IInv'
  <2>1. actors' \in [Agents -> ActorRow \cup {NoActor}] /\ actors'[a] = row
        /\ \A b \in Agents : b # a => actors'[b] = actors[b]
    BY <1>2, <1>3 DEF IInv, TypeOK
  <2>2. \A f \in Fields : req'[p][f] =
          IF f = "pc" THEN "grant" ELSE IF f = "actor" THEN a ELSE req[p][f]
    <3> DEFINE fields == [pc |-> "grant", actor |-> a]
    <3>1. \A f \in Fields : req'[p][f] = Field(p, fields, f)
      BY <1>3, SetFields, <1>0
    <3>2. \A f \in Fields : Field(p, fields, f) =
            IF f = "pc" THEN "grant" ELSE IF f = "actor" THEN a ELSE req[p][f]
      BY DEF Field
    <3> HIDE DEF fields
    <3> QED BY <3>1, <3>2
  <2>3. /\ req'[p].pc = "grant" /\ req'[p].actor = a /\ req'[p] \in Request
        /\ req'[p].by = s /\ req'[p].order = o
        /\ req'[p].granted = 0 /\ req'[p].environments = {}
    <3>1. req'[p] = [f \in Fields |-> req'[p][f]]
      BY <1>3, SetFields, <1>0
    <3> QED BY <1>1, <2>2, <3>1, FieldsMakeRequest DEF Fields, Request
  <2>4. TypeOK'
    <3>1. grants' \in [Agents -> Scope]
      BY <1>1 DEF IInv, TypeOK
    <3> HIDE DEF row
    <3> QED BY <1>1, <1>3, <2>1, <2>3, <3>1, SetFields, RequestTyped, <1>0
  <2>5. Grows
    BY <1>1, <1>3, <2>1 DEF IInv, TypeOK, Grows
  <2>6. ActorsInv'
    <3>1. \A b \in Agents : actors'[b] # NoActor => actors'[b].expiresAt <= clock' + MaxAgentTTL
      BY <1>1, <2>1 DEF IInv, ActorsInv
    <3>2. row.key # NULL => \A b \in Agents : actors[b] # NoActor =>
            actors[b].authorizedBy # row.authorizedBy \/ actors[b].key # row.key
      BY <1>3 DEF CreateActorUnique, GetActorByIdempotencyKey
    <3> HIDE DEF row
    <3> QED BY <1>3, <2>1, <3>1, <3>2 DEF IInv, ActorsInv
  <2>7. RequestOK(req[p])'
    <3>1. Len(o.environments) \in Nat
      BY <1>1, OrdersAssumption
    <3>2. actors'[a] # NoActor /\ actors'[a].authorizedBy = s.actor /\ actors'[a].key = o.key
          /\ actors'[a].tier = o.tier
      BY <1>2, <2>1 DEF NoActor
    <3> HIDE DEF row
    <3> QED BY <1>1, <2>3, <3>1, <3>2 DEF RequestOK, Entitled, Bound, Scoped, Signed, Acceptable,
               ResolveEnvironments, Permits, TTL, Wrap
  <2> QED BY <1>1, <1>3, <2>4, <2>5, <2>6, <2>7, SetFields, RequestStep DEF IInv
<1>4. CASE ~CreateActorUnique(row) /\ To(p, "stopped") /\ UNCHANGED actors
  BY <1>1, <1>4, EndStep DEF Finished
<1> QED BY <1>3, <1>4 DEF Create

(* One environment of the body after the other. *)
LEMMA GrantEnvironmentStep ==
  ASSUME IInv, NEW p \in Requests, GrantEnvironment(p)
  PROVE  IInv'
<1> DEFINE s == req[p].by
           o == req[p].order
           envs == o.environments
           n == req[p].granted + 1
           a == req[p].actor
<1>0. TypeOK
  BY DEF IInv
<1>1. /\ req[p].pc = "grant" /\ s \in Claims /\ o \in Orders /\ req[p] \in Request
      /\ Acceptable(s, o) /\ ResolveEnvironments(s, o)
      /\ UNCHANGED <<clock, actors, minted, audits>>
  BY DEF GrantEnvironment, IInv, TypeOK, RequestOK, Entitled
<1>2. Bound(req[p]) /\ Scoped(req[p]) /\ a \in Agents /\ clock \in Nat
      /\ Len(envs) \in Nat /\ req[p].granted \in 0..Len(envs)
      /\ req[p].environments = {envs[i] : i \in 1..req[p].granted}
  BY <1>1, OrdersAssumption DEF IInv, TypeOK, RequestOK, Bound, Scoped
<1>3. CASE n > Len(envs) /\ To(p, "issue") /\ UNCHANGED grants
  <2>1. req'[p] = [req[p] EXCEPT !.pc = "issue"] /\ req'[p] \in Request
    BY <1>1, <1>3, ToPlace DEF IInv, Request
  <2>2. TypeOK' /\ Grows /\ ActorsInv'
    BY <1>1, <1>3, <2>1, ToPlace DEF IInv, TypeOK, Grows, ActorsInv
  <2>3. req[p].environments = ToSetOf(envs)
    BY <1>2, <1>3 DEF ToSetOf
  <2>4. RequestOK(req[p])'
    <3>1. /\ req'[p].pc = "issue" /\ req'[p].by = s /\ req'[p].order = o /\ req'[p].actor = a
          /\ req'[p].environments = req[p].environments
      BY <1>1, <2>1 DEF Request
    <3>2. Entitled(req[p])'
      BY <1>1, <3>1 DEF Entitled, Acceptable, ResolveEnvironments, Permits, TTL, Wrap
    <3>3. Bound(req[p])'
      BY <1>1, <1>2, <3>1 DEF Bound
    <3>4. Scoped(req[p])'
      BY <1>1, <1>2, <1>3, <2>3, <3>1 DEF Scoped, Permits, ToSetOf
    <3> QED BY <3>1, <3>2, <3>3, <3>4 DEF RequestOK, Signed
  <2> QED BY <1>1, <1>3, <2>2, <2>4, ToPlace, RequestStep DEF IInv
<1>4. CASE /\ n <= Len(envs) /\ GrantActorEnvironment(a, envs[n])
           /\ Set(p, [granted |-> n, environments |-> req[p].environments \cup {envs[n]}])
  <2>1. envs[n] \in ToSetOf(envs) /\ envs[n] \in Environments /\ Permits(s, envs[n])
    BY <1>1, <1>2, <1>4 DEF ToSetOf, ResolveEnvironments
  <2>2. /\ grants' \in [Agents -> Scope] /\ grants'[a] = grants[a] \cup {envs[n]}
        /\ \A b \in Agents : grants[b] \subseteq grants'[b]
    BY SMTT(20), <1>2, <1>4, <2>1 DEF IInv, TypeOK, GrantActorEnvironment, Scope
  <2>3. \A f \in Fields : req'[p][f] =
          IF f = "granted" THEN n
          ELSE IF f = "environments" THEN req[p].environments \cup {envs[n]} ELSE req[p][f]
    <3> DEFINE fields == [granted |-> n, environments |-> req[p].environments \cup {envs[n]}]
    <3>1. \A f \in Fields : req'[p][f] = Field(p, fields, f)
      BY <1>4, SetFields, <1>0
    <3>2. \A f \in Fields : Field(p, fields, f) =
            IF f = "granted" THEN n
          ELSE IF f = "environments" THEN req[p].environments \cup {envs[n]} ELSE req[p][f]
      BY DEF Field
    <3> HIDE DEF fields
    <3> QED BY <3>1, <3>2
  <2>4. /\ req'[p].pc = "grant" /\ req'[p].actor = a /\ req'[p] \in Request
        /\ req'[p].by = s /\ req'[p].order = o /\ req'[p].granted = n
        /\ req'[p].environments = req[p].environments \cup {envs[n]}
    <3>1. req'[p] = [f \in Fields |-> req'[p][f]]
      BY <1>4, SetFields, <1>0
    <3>2. n \in Nat /\ req[p].environments \cup {envs[n]} \in Scope
      BY <1>1, <1>2, <2>1 DEF Request, Scope
    <3> QED BY ZenonT(30), <1>1, <2>3, <3>1, <3>2, FieldsMakeRequest DEF Fields, Request
  <2>5. TypeOK' /\ Grows /\ ActorsInv'
    <3>1. actors' \in [Agents -> ActorRow \cup {NoActor}]
      BY <1>1 DEF IInv, TypeOK
    <3>2. TypeOK'
      BY <1>1, <1>4, <2>2, <2>4, <3>1, SetFields, RequestTyped, <1>0
    <3> QED BY <1>1, <1>2, <2>2, <3>2 DEF IInv, Grows, ActorsInv
  <2>6. RequestOK(req[p])'
    <3>1. n \in 0..Len(envs) /\ req'[p].environments = {envs[i] : i \in 1..n}
      BY <1>2, <1>4, <2>4
    <3>2. req'[p].environments \subseteq grants'[a] /\ \A e \in req'[p].environments : Permits(s, e)
      BY SMTT(20), <1>1, <1>2, <2>1, <2>2, <2>4 DEF Scoped
    <3>3. Entitled(req[p])'
      BY <1>1, <2>4 DEF Entitled, Acceptable, ResolveEnvironments, Permits, TTL, Wrap
    <3>4. Bound(req[p])'
      BY <1>1, <1>2, <2>4 DEF Bound
    <3>5. Scoped(req[p])'
      BY <2>4, <3>1, <3>2 DEF Scoped, Permits
    <3> QED BY <2>4, <3>3, <3>4, <3>5 DEF RequestOK, Signed
  <2> QED BY <1>1, <1>4, <2>5, <2>6, SetFields, RequestStep DEF IInv
<1>5. CASE To(p, "stopped") /\ UNCHANGED grants
  BY <1>1, <1>5, EndStep DEF Finished
<1> QED BY <1>3, <1>4, <1>5 DEF GrantEnvironment

(* A request signs a token for its actor, with the environments it holds. *)
LEMMA SignStep ==
  ASSUME IInv, NEW p \in Requests, NEW place \in {"audit", "reaudit"}, NEW tier, NEW ttl \in Int,
         req[p].pc = IF place = "audit" THEN "issue" ELSE "reissue",
         tier = actors[req[p].actor].tier, tier <= req[p].by.tier,
         clock + ttl <= clock + MaxAgentTTL,
         place = "reaudit" => clock + ttl = actors[req[p].actor].expiresAt,
         Set(p, [pc |-> place,
                 token |-> Issue(req[p].actor, tier, req[p].environments, ttl)]),
         UNCHANGED <<clock, actors, grants, minted, audits>>
  PROVE  IInv'
<1> DEFINE s == req[p].by
           o == req[p].order
           a == req[p].actor
           token == Issue(a, tier, req[p].environments, ttl)
<1>0. TypeOK
  BY DEF IInv
<1>1. /\ s \in Claims /\ o \in Orders /\ req[p] \in Request /\ Acceptable(s, o)
      /\ place = "audit" => ResolveEnvironments(s, o)
      /\ clock \in Nat /\ actors \in [Agents -> ActorRow \cup {NoActor}]
      /\ grants \in [Agents -> Scope]
  BY DEF IInv, TypeOK, RequestOK, Entitled
<1>2. /\ a \in Agents /\ actors[a] # NoActor
      /\ actors[a].authorizedBy = s.actor /\ actors[a].key = o.key
      /\ req[p].environments \subseteq grants[a]
      /\ \A e \in req[p].environments : Permits(s, e)
      /\ place = "audit" => req[p].environments = ToSetOf(o.environments)
  BY DEF IInv, RequestOK, Bound, Scoped
<1>3. /\ token \in Token /\ token.actor = a /\ token.tier = tier
      /\ token.environments = req[p].environments /\ token.exp = clock + ttl
  <2>1. actors[a] \in ActorRow
    BY <1>1, <1>2
  <2>2. tier \in Tiers /\ req[p].environments \in Scope
    BY <1>1, <2>1 DEF ActorRow, Request
  <2> QED BY <1>1, <1>2, <2>2 DEF Issue, Token
<1> HIDE DEF token
<1>4. \A f \in Fields : req'[p][f] =
        IF f = "pc" THEN place ELSE IF f = "token" THEN token ELSE req[p][f]
  <2>0. Set(p, [pc |-> place, token |-> token])
    BY DEF token
  <2> DEFINE fields == [pc |-> place, token |-> token]
  <2>1. \A f \in Fields : req'[p][f] = Field(p, fields, f)
    BY ZenonT(30), <2>0, SetFields, <1>0
  <2>2. \A f \in Fields : Field(p, fields, f) =
          IF f = "pc" THEN place ELSE IF f = "token" THEN token ELSE req[p][f]
    BY DEF Field
  <2> HIDE DEF fields
  <2> QED BY <2>1, <2>2
<1>5. /\ req'[p].pc = place /\ req'[p].token = token /\ req'[p] \in Request
      /\ req'[p].by = s /\ req'[p].order = o /\ req'[p].actor = a
      /\ req'[p].environments = req[p].environments
  <2>1. req'[p] = [f \in Fields |-> req'[p][f]]
    BY SetFields, <1>0
  <2> QED BY <1>1, <1>3, <1>4, <2>1, FieldsMakeRequest DEF Fields, Request
<1>6. TypeOK'
  BY <1>1, <1>5, SetFields, RequestTyped, <1>0
<1>7. Grows /\ ActorsInv'
  BY <1>1 DEF IInv, Grows, ActorsInv
<1>8. RequestOK(req[p])'
  <2>1. Entitled(req[p])' /\ Bound(req[p])'
    BY <1>1, <1>2, <1>5 DEF Entitled, Bound, Acceptable, ResolveEnvironments, Permits, TTL, Wrap
  <2>2. Scoped(req[p])'
    BY <1>2, <1>5 DEF Scoped, Permits, ToSetOf
  <2>3. Signed(req[p])'
    BY <1>1, <1>3, <1>5 DEF Signed
  <2> QED BY <2>1, <2>2, <2>3 DEF RequestOK
<1> QED BY <1>6, <1>7, <1>8, SetFields, RequestStep DEF IInv

LEMMA IssueTokenStep ==
  ASSUME IInv, NEW p \in Requests, IssueToken(p)
  PROVE  IInv'
<1> DEFINE o == req[p].order
<1>1. /\ req[p].pc = "issue" /\ UNCHANGED <<clock, actors, grants, minted, audits>>
      /\ o \in Orders /\ Acceptable(req[p].by, o) /\ o.tier = actors[req[p].actor].tier
  BY DEF IssueToken, IInv, RequestOK, Entitled, Bound
<1>2. TTL(o) \in Int /\ clock + TTL(o) <= clock + MaxAgentTTL
  BY <1>1, TTLIsInt, WordAssumption DEF IInv, TypeOK, Acceptable
<1>3. CASE MayIssue(o.tier, TTL(o), req[p].by.tier)
  BY <1>1, <1>2, <1>3, SignStep DEF IssueToken, MayIssue
<1>4. CASE ~MayIssue(o.tier, TTL(o), req[p].by.tier)
  BY <1>1, <1>4, EndStep DEF IssueToken, Finished
<1> QED BY <1>3, <1>4

(* The retry reads the scope on record. *)
LEMMA ListEnvironmentsStep ==
  ASSUME IInv, NEW p \in Requests, ListEnvironments(p)
  PROVE  IInv'
<1> DEFINE s == req[p].by
           o == req[p].order
           a == req[p].actor
<1>0. TypeOK
  BY DEF IInv
<1>1. /\ req[p].pc = "list" /\ s \in Claims /\ o \in Orders /\ req[p] \in Request
      /\ Acceptable(s, o) /\ UNCHANGED <<clock, actors, grants, minted, audits>>
      /\ clock \in Nat /\ actors \in [Agents -> ActorRow \cup {NoActor}]
      /\ grants \in [Agents -> Scope] /\ Bound(req[p]) /\ a \in Agents
  BY DEF ListEnvironments, IInv, TypeOK, RequestOK, Entitled, Bound
<1>2. ASSUME \A e \in grants[a] : Permits(s, e),
             Set(p, [pc |-> "reissue", environments |-> grants[a]])
      PROVE  IInv'
  <2>1. \A f \in Fields : req'[p][f] =
          IF f = "pc" THEN "reissue" ELSE IF f = "environments" THEN grants[a] ELSE req[p][f]
    <3> DEFINE fields == [pc |-> "reissue", environments |-> grants[a]]
    <3>1. \A f \in Fields : req'[p][f] = Field(p, fields, f)
      BY <1>2, SetFields, <1>0
    <3>2. \A f \in Fields : Field(p, fields, f) =
            IF f = "pc" THEN "reissue" ELSE IF f = "environments" THEN grants[a] ELSE req[p][f]
      BY DEF Field
    <3> HIDE DEF fields
    <3> QED BY <3>1, <3>2
  <2>2. /\ req'[p].pc = "reissue" /\ req'[p].environments = grants[a] /\ req'[p] \in Request
        /\ req'[p].by = s /\ req'[p].order = o /\ req'[p].actor = a
    <3>1. req'[p] = [f \in Fields |-> req'[p][f]]
      BY <1>2, SetFields, <1>0
    <3> QED BY <1>1, <2>1, <3>1, FieldsMakeRequest DEF Fields, Request
  <2>3. TypeOK'
    BY <1>1, <1>2, <2>2, SetFields, RequestTyped, <1>0
  <2>4. Grows /\ ActorsInv'
    BY <1>1 DEF IInv, Grows, ActorsInv
  <2>5. RequestOK(req[p])'
    BY <1>1, <1>2, <2>2 DEF RequestOK, Entitled, Bound, Scoped, Signed, Acceptable, Permits,
       TTL, Wrap
  <2> QED BY <1>1, <1>2, <2>3, <2>4, <2>5, SetFields, RequestStep DEF IInv
<1>3. CASE To(p, "refused")
  BY <1>1, <1>3, EndStep DEF Finished
<1> QED BY <1>2, <1>3 DEF ListEnvironments, ListActorEnvironments

LEMMA ReissueAgentTokenStep ==
  ASSUME IInv, NEW p \in Requests, ReissueAgentToken(p)
  PROVE  IInv'
<1> DEFINE a == req[p].actor
           ttl == actors[a].expiresAt - clock
<1>1. /\ req[p].pc = "reissue" /\ UNCHANGED <<clock, actors, grants, minted, audits>>
      /\ a \in Agents /\ actors[a] # NoActor /\ clock \in Nat
      /\ actors[a] \in ActorRow /\ actors[a].expiresAt <= clock + MaxAgentTTL
  BY DEF ReissueAgentToken, IInv, TypeOK, RequestOK, Bound, ActorsInv
<1>2. /\ ttl \in Int /\ clock + ttl = actors[a].expiresAt
      /\ clock + ttl <= clock + MaxAgentTTL
  BY <1>1 DEF ActorRow
<1> HIDE DEF ttl
<1>3. CASE MayIssue(actors[a].tier, ttl, req[p].by.tier)
  BY <1>1, <1>2, <1>3, SignStep DEF ReissueAgentToken, MayIssue, ttl
<1>4. CASE ~MayIssue(actors[a].tier, ttl, req[p].by.tier)
  BY <1>1, <1>4, EndStep DEF ReissueAgentToken, Finished, ttl
<1> QED BY <1>3, <1>4

(* The event, and the answer. *)
LEMMA AnswerStep ==
  ASSUME IInv, NEW p \in Requests, Enrolled(p) \/ Reissued(p)
  PROVE  IInv'
<1> DEFINE s == req[p].by
           o == req[p].order
           token == req[p].token
<1>1. PICK pc \in {"created", "ok"},
           m \in {[by |-> s, request |-> p, token |-> token, at |-> clock]} :
        /\ req[p].pc = IF pc = "created" THEN "audit" ELSE "reaudit"
        /\ To(p, pc) /\ minted' = minted \cup {m}
        /\ audits' \subseteq Requests \X {"agent.enrolled", "agent.token.reissued"}
        /\ UNCHANGED <<clock, actors, grants>>
  <2> DEFINE answer == [by |-> s, request |-> p, token |-> token, at |-> clock]
             Answers(pc) ==
               /\ req[p].pc = IF pc = "created" THEN "audit" ELSE "reaudit"
               /\ To(p, pc) /\ minted' = minted \cup {answer}
               /\ audits' \subseteq Requests \X {"agent.enrolled", "agent.token.reissued"}
               /\ UNCHANGED <<clock, actors, grants>>
  <2>1. ASSUME Enrolled(p) PROVE Answers("created")
    BY <2>1 DEF Enrolled, AuditThenAnswer, IInv, TypeOK
  <2>2. ASSUME Reissued(p) PROVE Answers("ok")
    BY <2>2 DEF Reissued, AuditThenAnswer, IInv, TypeOK
  <2>3. PICK pc \in {"created", "ok"} : Answers(pc)
    BY <2>1, <2>2
  <2> QED BY <2>3
<1>2. /\ s \in Claims /\ o \in Orders /\ req[p] \in Request /\ Acceptable(s, o)
      /\ pc = "created" => ResolveEnvironments(s, o)
      /\ clock \in Nat
  BY <1>1 DEF IInv, TypeOK, RequestOK, Entitled
<1>3. Bound(req[p]) /\ Scoped(req[p]) /\ Signed(req[p]) /\ token \in Token
  BY <1>1 DEF IInv, RequestOK, Signed
<1>4. req'[p] = [req[p] EXCEPT !.pc = pc] /\ req'[p] \in Request
  BY <1>1, <1>2, ToPlace DEF IInv, Request
<1>5. m \in [by : Claims, request : Requests, token : Token, at : Nat]
  BY <1>1, <1>2, <1>3
<1>6. TypeOK'
  BY <1>1, <1>4, <1>5, ToPlace DEF IInv, TypeOK
<1>7. Grows /\ ActorsInv'
  BY <1>1, <1>2 DEF IInv, Grows, ActorsInv
<1>8. RequestOK(req[p])'
  BY SMTT(20), <1>1, <1>2, <1>3, <1>4 DEF RequestOK, Entitled, Bound, Scoped, Signed, Request,
     Acceptable, ResolveEnvironments, Permits, TTL, Wrap, ToSetOf
<1>9. Answered(m)'
  <2>1. /\ req'[p].pc = pc /\ req'[p].order = o /\ actors' = actors /\ grants' = grants
        /\ m.request = p /\ m.by = s /\ m.token = token /\ m.at = clock
    BY <1>1, <1>2, <1>4 DEF Request
  <2>2. s.type # "agent"
    BY <1>2 DEF Acceptable
  <2>3. token.exp \in Int /\ MaxAgentTTL \in Int
    BY <1>3, WordAssumption DEF Token
  <2>4. /\ token.actor = req[p].actor /\ token.environments = req[p].environments
        /\ token.tier = actors[token.actor].tier /\ token.tier <= s.tier
        /\ token.exp <= clock + MaxAgentTTL
        /\ pc = "ok" => token.exp = actors[token.actor].expiresAt
    BY <1>1, <1>3 DEF Signed
  <2>5. /\ actors[token.actor] # NoActor /\ actors[token.actor].authorizedBy = s.actor
        /\ actors[token.actor].key = o.key
    BY <1>1, <1>3, <2>4 DEF Bound
  <2>6. /\ token.environments \subseteq grants[token.actor]
        /\ \A e \in token.environments : Permits(s, e)
        /\ pc = "created" => token.environments = ToSetOf(o.environments)
    BY <1>1, <1>3, <2>4 DEF Scoped
  <2>7. /\ token.exp - clock <= MaxAgentTTL
        /\ pc = "ok" => token.exp <= actors[token.actor].expiresAt
    BY <1>2, <2>3, <2>4
  <2> QED BY <2>1, <2>2, <2>4, <2>5, <2>6, <2>7 DEF Answered, Permits, ToSetOf
<1> QED BY <1>1, <1>6, <1>7, <1>8, <1>9, ToPlace, RequestStep DEF IInv

LEMMA TickStep ==
  ASSUME IInv, Tick
  PROVE  IInv'
<1>1. clock' \in Nat /\ clock <= clock' /\ UNCHANGED <<actors, grants, req, minted, audits>>
  BY WordAssumption DEF IInv, TypeOK, Tick
<1>2. TypeOK' /\ Grows
  BY <1>1 DEF IInv, TypeOK, Grows
<1>3. ActorsInv'
  <2>1. ASSUME NEW a \in Agents, actors[a] # NoActor PROVE actors[a].expiresAt \in Int
    BY <2>1 DEF IInv, TypeOK, ActorRow
  <2> QED BY <1>1, <2>1, WordAssumption DEF IInv, TypeOK, ActorsInv
<1>4. \A q \in Requests : RequestOK(req[q])'
  BY <1>1, <1>2, RequestFrame DEF IInv
<1>5. \A m \in minted : Answered(m)'
  BY <1>1, <1>2, AnswerFrame DEF IInv
<1> QED BY <1>1, <1>2, <1>3, <1>4, <1>5 DEF IInv

LEMMA NextIInv == IInv /\ [Next]_vars => IInv'
<1> SUFFICES ASSUME IInv, [Next]_vars PROVE IInv'
  OBVIOUS
<1>1. ASSUME NEW p \in Requests, PostAgents(p) PROVE IInv'
  BY <1>1, LookupStep, CreateStep, GrantEnvironmentStep, IssueTokenStep, AnswerStep,
     ListEnvironmentsStep, ReissueAgentTokenStep DEF PostAgents
<1>2. ASSUME NEW p \in Requests, Stopped(p) PROVE IInv'
  BY <1>2, EndStep DEF Stopped
<1>3. CASE UNCHANGED vars
  <2>1. TypeOK' /\ Grows /\ ActorsInv'
    BY <1>3 DEF vars, IInv, TypeOK, Grows, ActorsInv
  <2> QED BY <1>3, <2>1, RequestFrame, AnswerFrame DEF vars, IInv
<1> QED BY <1>1, <1>2, <1>3, TickStep, CreateAgentStep DEF Next

LEMMA Invariance == Spec => []IInv
  BY InitIInv, NextIInv, PTL DEF Spec

-------------------------------------------------------------------------------
(* Rows, requests and tokens keep their types, and scopes name registered    *)
(* environments only (api/agents.go).                                        *)
THEOREM TypeCorrect == Spec => []TypeOK
<1>1. IInv => TypeOK
  BY DEF IInv
<1> QED BY <1>1, Invariance, PTL

(* No token carries more than the session it was given to holds, on a first  *)
(* call or a retry (handlePostAgents, Issuer.Issue).                         *)
THEOREM AuthorityKept == Spec => []NoEscalation
<1>1. IInv => NoEscalation
  BY DEF IInv, Answered, NoEscalation
<1> QED BY <1>1, Invariance, PTL

(* The answers to one caller's calls with one key name one agent             *)
(* (GetActorByIdempotencyKey and the unique index).                          *)
THEOREM KeyNamesOneAgent == Spec => []OneAgentPerKey
<1>1. IInv => OneAgentPerKey
  <2> SUFFICES ASSUME IInv, NEW m \in minted, NEW n \in minted,
                      req[m.request].order.key # NULL,
                      req[m.request].order.key = req[n.request].order.key,
                      m.by.actor = n.by.actor
               PROVE  m.token.actor = n.token.actor
    BY DEF OneAgentPerKey
  <2>1. m.token.actor \in Agents /\ n.token.actor \in Agents
    BY DEF IInv, TypeOK, Token
  <2> QED BY <2>1 DEF IInv, Answered, ActorsInv
<1> QED BY <1>1, Invariance, PTL

(* A token's scope and tier are those on record, and a 201 grants what was   *)
(* ordered (GrantEnvironment, Issue).                                        *)
THEOREM ScopeKept == Spec => []ScopeOnRecord
<1>1. IInv => ScopeOnRecord
  BY DEF IInv, Answered, ScopeOnRecord
<1> QED BY <1>1, Invariance, PTL

(* No token outlives maxAgentTTL or the agent, whatever ttl_seconds wraps    *)
(* around to (handlePostAgents, reissueAgentToken).                          *)
THEOREM LifeKept == Spec => []LifeBounded
<1>1. IInv => LifeBounded
  BY DEF IInv, Answered, LifeBounded
<1> QED BY <1>1, Invariance, PTL
===============================================================================
