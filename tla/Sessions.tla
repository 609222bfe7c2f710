------------------------------- MODULE Sessions -------------------------------
(***************************************************************************)
(* Sessions: login (POST /v1/token, api/token.go and internal/credential), *)
(* requireAuth with Verifier.Verify (api/auth.go, pkg/identity), and the   *)
(* revocation store (internal/session) with the pruning loop of the server.*)
(*                                                                         *)
(* Verify checks the expiry in memory and asks the database afterwards;    *)
(* between the two a session may be revoked, expire and be pruned.         *)
(* Nothing in the repository calls Revoke or sets an actor's status yet;   *)
(* both are modelled as what their callers will do.                        *)
(*                                                                         *)
(* Abstracted: signatures (Singletons says that all replicas hold one      *)
(* key), clock skew between server and database (one clock), the claims    *)
(* other than subject, jti and exp.                                        *)
(***************************************************************************)
EXTENDS Naturals

CONSTANTS
  NULL,
  Actors,       \* actors
  LocalUsers,   \* table local_users: actor_id by username
  Usernames,    \* what is typed in, known or not
  Passwords,    \* what is typed in: "right" or "wrong"
  Jtis,         \* session ids
  Logins,       \* POST /v1/token requests
  Calls,        \* requests that requireAuth wraps
  TokenTTL,     \* tokenTTL
  MaxTime       \* bound of the clock

ASSUME TimeAssumption == TokenTTL \in Nat \ {0} /\ MaxTime \in Nat
ASSUME UsersAssumption == LocalUsers \in [DOMAIN LocalUsers -> Actors]
ASSUME NoNullAssumption ==
  /\ NULL \notin Actors /\ NULL \notin Jtis /\ NULL \notin Nat
  /\ NULL \notin [actor : Actors, exp : Nat]

VARIABLES
  clock,    \* now() and time.Now()
  status,   \* actors.status
  tokens,   \* issued session tokens, by jti
  revoked,  \* table revoked_sessions: expires_at by jti
  killed,   \* history: the sessions that were revoked
  login,    \* handlePostToken
  call      \* requireAuth

sessionVars == <<clock, status, tokens, revoked, killed, login, call>>

-------------------------------------------------------------------------------
Times == 0..MaxTime

Token == [actor : Actors, exp : Times]

Login == [pc : {"idle", "get", "issue", "audit", "issued", "refused"},
          actor : Actors \cup {NULL}, jti : Jtis \cup {NULL}]

Call == [pc : {"idle", "parse", "check", "accepted", "rejected"},
         jti : Jtis \cup {NULL}, dead : {"no", "session", "actor"}, at : Times]

(* Type invariant: tables and requests keep their types. *)
SessionsTypeOK ==
  /\ clock \in 0..MaxTime
  /\ status \in [Actors -> {"active", "revoked"}]
  /\ tokens \in [Jtis -> Token \cup {NULL}]
  /\ revoked \in [Jtis -> Times \cup {NULL}]
  /\ killed \subseteq Jtis
  /\ login \in [Logins -> Login]
  /\ call \in [Calls -> Call]

SessionsInit ==
  /\ clock = 0
  /\ status = [a \in Actors |-> "active"]
  /\ tokens = [j \in Jtis |-> NULL]
  /\ revoked = [j \in Jtis |-> NULL]
  /\ killed = {}
  /\ login = [l \in Logins |-> [pc |-> "idle", actor |-> NULL, jti |-> NULL]]
  /\ call = [c \in Calls |-> [pc |-> "idle", jti |-> NULL, dead |-> "no", at |-> 0]]

-------------------------------------------------------------------------------
(* Statements on revoked_sessions.                                          *)

RevokeSession(j, expiresAt) ==
  /\ revoked[j] = NULL
  /\ revoked' = [revoked EXCEPT ![j] = expiresAt]

(* The actor as a whole, or this session. *)
IsRevoked(a, j) == status[a] = "revoked" \/ revoked[j] # NULL

(* Mutant of DeleteExpiredSessions: the rows that are still needed go. *)
DeleteUnexpiredSessions ==
  revoked' = [j \in Jtis |->
    IF revoked[j] # NULL /\ revoked[j] > clock THEN NULL ELSE revoked[j]]

DeleteExpiredSessions ==
  revoked' = [j \in Jtis |->
    IF revoked[j] # NULL /\ revoked[j] < clock THEN NULL ELSE revoked[j]]

-------------------------------------------------------------------------------
(* handlePostToken.                                                         *)

GetLocalUserByUsername(u) == {LocalUsers[v] : v \in DOMAIN LocalUsers \cap {u}}

Refused == [pc |-> "refused", actor |-> NULL, jti |-> NULL]

(* credentials.Verify: an unknown user and a wrong password look alike. *)
VerifyPassword(l, u, password) ==
  LET users == GetLocalUserByUsername(u) IN
  /\ login[l].pc = "idle"
  /\ \/ /\ users = {} \/ password # "right"
        /\ login' = [login EXCEPT ![l] = Refused]
     \/ \E a \in users :
          /\ password = "right"
          /\ login' = [login EXCEPT ![l] = [pc |-> "get", actor |-> a, jti |-> NULL]]
  /\ UNCHANGED <<clock, status, tokens, revoked, killed, call>>

(* actors.Get: only active actors get on. *)
GetActor(l) ==
  /\ login[l].pc = "get"
  /\ login' = [login EXCEPT ![l].pc =
       IF status[login[l].actor] = "active" THEN "issue" ELSE "refused"]
  /\ UNCHANGED <<clock, status, tokens, revoked, killed, call>>

(* issuer.Issue under a fresh jti; the clock's bound leaves room for expiry. *)
IssueSession(l) ==
  /\ login[l].pc = "issue"
  /\ \E j \in Jtis :
       /\ tokens[j] = NULL
       /\ clock + TokenTTL < MaxTime
       /\ tokens' = [tokens EXCEPT ![j] = [actor |-> login[l].actor, exp |-> clock + TokenTTL]]
       /\ login' = [login EXCEPT ![l].pc = "audit", ![l].jti = j]
  /\ UNCHANGED <<clock, status, revoked, killed, call>>

(* session.issued is on record before the token is answered; without it the  *)
(* token is not.                                                             *)
PostTokenAudit(l) ==
  /\ login[l].pc = "audit"
  /\ \E pc \in {"issued", "refused"} : login' = [login EXCEPT ![l].pc = pc]
  /\ UNCHANGED <<clock, status, tokens, revoked, killed, call>>

-------------------------------------------------------------------------------
(* Revocation.                                                              *)

(* Store.Revoke with the token's own expiry; a second one is an error. *)
Revoke(j) ==
  /\ tokens[j] # NULL
  /\ RevokeSession(j, tokens[j].exp)
  /\ killed' = killed \cup {j}
  /\ UNCHANGED <<clock, status, tokens, login, call>>

RevokeActor(a) ==
  /\ status[a] = "active"
  /\ status' = [status EXCEPT ![a] = "revoked"]
  /\ UNCHANGED <<clock, tokens, revoked, killed, login, call>>

(* pruneExpiredSessions, at each tick of its interval. *)
PruneExpiredSessions ==
  /\ DeleteExpiredSessions
  /\ UNCHANGED <<clock, status, tokens, killed, login, call>>

Tick ==
  /\ clock < MaxTime
  /\ clock' = clock + 1
  /\ UNCHANGED <<status, tokens, revoked, killed, login, call>>

-------------------------------------------------------------------------------
(* requireAuth.                                                             *)

(* A request arrives with a token a login was answered with; dead records    *)
(* what was revoked by then.                                                 *)
Present(c, j) ==
  /\ call[c].pc = "idle"
  /\ \E l \in Logins : login[l].pc = "issued" /\ login[l].jti = j
  /\ call' = [call EXCEPT ![c] =
       [pc |-> "parse", jti |-> j, at |-> clock,
        dead |-> CASE status[tokens[j].actor] = "revoked" -> "actor"
                   [] j \in killed -> "session"
                   [] OTHER -> "no"]]
  /\ UNCHANGED <<clock, status, tokens, revoked, killed, login>>

(* ParseWithClaims: a token counts as expired from its exp on. *)
Parse(c) ==
  /\ call[c].pc = "parse"
  /\ call' = [call EXCEPT ![c].pc =
       IF clock < tokens[call[c].jti].exp THEN "check" ELSE "rejected"]
  /\ UNCHANGED <<clock, status, tokens, revoked, killed, login>>

(* checker.IsRevoked; when it cannot be asked the token is rejected. *)
CheckRevoked(c) ==
  LET j == call[c].jti IN
  /\ call[c].pc = "check"
  /\ \/ /\ ~IsRevoked(tokens[j].actor, j)
        /\ call' = [call EXCEPT ![c].pc = "accepted", ![c].at = clock]
     \/ call' = [call EXCEPT ![c].pc = "rejected"]
  /\ UNCHANGED <<clock, status, tokens, revoked, killed, login>>

-------------------------------------------------------------------------------
PostToken(l) == GetActor(l) \/ IssueSession(l) \/ PostTokenAudit(l)

RequireAuth(c) == Parse(c) \/ CheckRevoked(c)

SessionsNext ==
  \/ \E l \in Logins :
       PostToken(l) \/ \E u \in Usernames, p \in Passwords : VerifyPassword(l, u, p)
  \/ \E j \in Jtis : Revoke(j) \/ \E c \in Calls : Present(c, j)
  \/ \E a \in Actors : RevokeActor(a)
  \/ \E c \in Calls : RequireAuth(c)
  \/ PruneExpiredSessions
  \/ Tick

SessionsSpec == SessionsInit /\ [][SessionsNext]_sessionVars

-------------------------------------------------------------------------------
(* A request that arrives after its session, or the actor as a whole, was    *)
(* revoked is not accepted as long as the token lives: neither a login under *)
(* way at the time, nor pruning, nor a slow request brings it back.          *)
RevokedIsRejected ==
  \A c \in Calls : call[c].pc = "accepted" =>
    /\ call[c].dead # "actor"
    /\ call[c].dead = "session" => call[c].at >= tokens[call[c].jti].exp
===============================================================================
