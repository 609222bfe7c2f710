------------------------ MODULE WorkerCredentialsProofs -------------------------
(***************************************************************************)
(* Proof that credentials have the environments operators granted, that    *)
(* requests are served as their sender and within its grants, and that     *)
(* jobs are sent to workers of their pipelines' environments, for any      *)
(* workers, names, environments, orders and bounds.                        *)
(*                                                                         *)
(* The argument: grants are only added to (OrdersInv says how far an order *)
(* has come), so what a request was authenticated with is still granted    *)
(* when it is served; and a token somebody holds is, if it is anybody's    *)
(* token at all, that of the holder's own name (Owned), although tokens    *)
(* are replaced while requests and bootstraps are under way.               *)
(***************************************************************************)
EXTENDS WorkerCredentials, TLAPS

(* A token in the hands of a process, request or operator that works under a *)
(* name opens that name's credential in the table or none; last is the last  *)
(* token minted.                                                             *)
Owned(t, n, table, last) ==
  t # NULL =>
    /\ t \in 1..last
    /\ \A k \in Names : table[k].row /\ table[k].token = t => k = n

(* A credential has a token that was minted; without a row nothing is granted. *)
RowsInv ==
  \A n \in Names :
    /\ creds[n].row => creds[n].token \in 1..minted
    /\ ~creds[n].row => creds[n].envs = {}

(* The callback address of a credential is that of a worker of its name. *)
URLInv ==
  \A n \in Names : creds[n].url # NULL =>
    \E w \in Workers : NameOf[w] = n /\ URLOf[w] = creds[n].url

ProcessInv ==
  \A w \in Workers : proc[w].inc <= failures /\ Owned(proc[w].token, NameOf[w], creds, minted)

BootInv ==
  \A c \in Callers : Owned(boots[c].token, NameOf[c[1]], creds, minted)

CallInv ==
  \A c \in Callers :
    /\ Owned(calls[c].token, NameOf[c[1]], creds, minted)
    /\ calls[c].pc \in {"list", "serve"} => calls[c].cred = NameOf[c[1]]
    /\ calls[c].pc = "serve" => calls[c].envs \subseteq creds[calls[c].cred].envs

(* How far an order has come tells what is granted already. *)
OrdersInv ==
  \A o \in Orders :
    LET row == creds[OrderOf[o].name] IN
    /\ Owned(orders[o].token, OrderOf[o].name, creds, minted)
    /\ orders[o].pc = "none" => orders[o].scope = {}
    /\ orders[o].pc \in {"grant", "audit", "answered"} => row.row
    /\ orders[o].pc = "grant" =>
         /\ OrderOf[o].envs \subseteq orders[o].scope
         /\ OrderOf[o].envs \subseteq row.envs \cup orders[o].todo
         /\ orders[o].todo \subseteq OrderOf[o].envs
    /\ orders[o].pc \in {"audit", "answered"} => OrderOf[o].envs \subseteq row.envs

(* Every grant was asked for by an actor that has the environment. *)
GrantedInv ==
  \A n \in Names : \A e \in creds[n].envs :
    \E o \in Orders : OrderOf[o].name = n /\ e \in OrderOf[o].envs /\ e \in orders[o].scope

IInv ==
  /\ TypeOK /\ RowsInv /\ URLInv /\ ProcessInv /\ BootInv /\ CallInv
  /\ OrdersInv /\ GrantedInv /\ DiscoveryScoped

-------------------------------------------------------------------------------
LEMMA InitIInv ==
  ASSUME Init
  PROVE  IInv
<1>1. TypeOK
  <2>1. 0 \in 0..MaxTokens /\ 0 \in 0..MaxFailures
    BY BoundsAssumption
  <2>2. NoCredential \in CredentialRow
    BY <2>1 DEF NoCredential, CredentialRow
  <2>3. NoBoot \in Boot /\ NoCall \in Call
    BY DEF NoBoot, NoCall, Boot, Call
  <2> QED BY <2>1, <2>2, <2>3 DEF Init, TypeOK, Process, OrderState, Incarnations
<1>2. RowsInv /\ URLInv /\ GrantedInv
  BY DEF Init, RowsInv, URLInv, GrantedInv, NoCredential
<1>3. ProcessInv /\ BootInv /\ CallInv
  BY BoundsAssumption DEF Init, ProcessInv, BootInv, CallInv, NoBoot, NoCall, Owned
<1>4. OrdersInv /\ DiscoveryScoped
  BY DEF Init, OrdersInv, DiscoveryScoped, Owned
<1> QED BY <1>1, <1>2, <1>3, <1>4 DEF IInv

-------------------------------------------------------------------------------
(* Who works under which name. *)
LEMMA NamesWorked ==
  /\ \A w \in Workers : NameOf[w] \in Names
  /\ \A c \in Callers : c[1] \in Workers /\ NameOf[c[1]] \in Names
  /\ \A o \in Orders : OrderOf[o].name \in Names /\ OrderOf[o].envs \subseteq Envs
BY DeploymentAssumption DEF Callers, Order

(* A process is the caller of its own incarnation. *)
LEMMA SelfIsCaller ==
  ASSUME TypeOK, NEW w \in Workers
  PROVE  Self(w) \in Callers /\ Self(w)[1] = w
BY DEF TypeOK, Self, Callers, Process

(* The steps that leave the two tables alone. *)
LEMMA Quiet ==
  ASSUME IInv, UNCHANGED <<creds, minted, jobs>>, TypeOK',
         ProcessInv', BootInv', CallInv', OrdersInv', GrantedInv'
  PROVE  IInv'
<1>1. RowsInv' /\ URLInv'
  BY DEF IInv, RowsInv, URLInv
<1>2. DiscoveryScoped'
  BY DEF IInv, DiscoveryScoped
<1> QED BY <1>1, <1>2 DEF IInv

(* Whether anybody still waits for an answer is a matter of yes or no. *)
LEMMA GivenUpType ==
  ASSUME TypeOK, NEW c \in Callers
  PROVE  GivenUp(c) \in BOOLEAN
BY DEF GivenUp

(* A failure or the server's noticing that a caller is gone. *)
LEMMA FailureBound ==
  ASSUME TypeOK, NEW c, Failure \/ Abandoned(c) \/ UNCHANGED failures
  PROVE  failures' \in 0..MaxFailures /\ failures <= failures'
BY BoundsAssumption DEF TypeOK, Failure, Abandoned

(* The step of a bootstrap request that reads and writes no table. *)
LEMMA BootChange ==
  ASSUME IInv, NEW c \in Callers, NEW new \in Boot,
         boots' = [boots EXCEPT ![c] = new],
         UNCHANGED <<setup, creds, minted, proc, calls, orders, jobs>>,
         audit' \subseteq audit \cup {"worker.enrolled", "worker.self_registered"} \X Names,
         failures' \in 0..MaxFailures, failures <= failures',
         Owned(new.token, NameOf[c[1]], creds, minted)
  PROVE  IInv'
<1>1. TypeOK'
  BY DEF IInv, TypeOK
<1>2. ProcessInv'
  BY DEF IInv, TypeOK, ProcessInv, Process, Incarnations
<1>3. BootInv'
  BY DEF IInv, TypeOK, BootInv
<1>4. CallInv'
  BY DEF IInv, CallInv
<1>5. OrdersInv'
  BY DEF IInv, OrdersInv
<1>6. GrantedInv'
  BY DEF IInv, GrantedInv
<1> QED BY <1>1, <1>2, <1>3, <1>4, <1>5, <1>6, Quiet

(* The step of an authenticated request that writes no table. *)
LEMMA CallChange ==
  ASSUME IInv, NEW c \in Callers, NEW new \in Call,
         calls' = [calls EXCEPT ![c] = new],
         UNCHANGED <<setup, creds, minted, proc, boots, orders, jobs, audit>>,
         failures' \in 0..MaxFailures, failures <= failures',
         Owned(new.token, NameOf[c[1]], creds, minted),
         new.pc \in {"list", "serve"} => new.cred = NameOf[c[1]],
         new.pc = "serve" => new.envs \subseteq creds[new.cred].envs
  PROVE  IInv'
<1>1. TypeOK'
  BY DEF IInv, TypeOK
<1>2. ProcessInv'
  BY DEF IInv, TypeOK, ProcessInv, Process, Incarnations
<1>3. BootInv'
  BY DEF IInv, BootInv
<1>4. CallInv'
  BY DEF IInv, TypeOK, CallInv
<1>5. OrdersInv'
  BY DEF IInv, OrdersInv
<1>6. GrantedInv'
  BY DEF IInv, GrantedInv
<1> QED BY <1>1, <1>2, <1>3, <1>4, <1>5, <1>6, Quiet

(* The step of an operator's request that reads the tables only. *)
LEMMA OrderChange ==
  ASSUME IInv, NEW o \in Orders, NEW new \in OrderState,
         orders' = [orders EXCEPT ![o] = new],
         UNCHANGED <<setup, creds, minted, proc, boots, calls, jobs>>,
         audit' \subseteq audit \cup {"worker.enrolled", "worker.environment_granted"} \X Names,
         failures' \in 0..MaxFailures, failures <= failures',
         Owned(new.token, OrderOf[o].name, creds, minted),
         orders[o].scope \subseteq new.scope,
         new.pc # "none",
         new.pc \in {"grant", "audit", "answered"} => creds[OrderOf[o].name].row,
         new.pc = "grant" =>
           OrderOf[o].envs \subseteq new.scope /\ new.todo = OrderOf[o].envs,
         new.pc \in {"audit", "answered"} =>
           OrderOf[o].envs \subseteq creds[OrderOf[o].name].envs
  PROVE  IInv'
<1>1. TypeOK'
  BY DEF IInv, TypeOK
<1>2. ProcessInv'
  BY DEF IInv, TypeOK, ProcessInv, Process, Incarnations
<1>3. BootInv' /\ CallInv'
  BY DEF IInv, BootInv, CallInv
<1>4. /\ orders'[o] = new
      /\ \A q \in Orders : q # o => orders'[q] = orders[q]
  BY DEF IInv, TypeOK
<1>5. OrdersInv'
  BY <1>4 DEF IInv, OrdersInv
<1>6. GrantedInv'
  BY <1>4 DEF IInv, GrantedInv
<1> QED BY <1>1, <1>2, <1>3, <1>5, <1>6, Quiet

(* The step of a process; it may send a request, or take an answer. *)
LEMMA ProcessChange ==
  ASSUME IInv, NEW w \in Workers, NEW c \in Callers, c[1] = w,
         NEW p \in Process, NEW b \in Boot, NEW call \in Call,
         proc' = [proc EXCEPT ![w] = p],
         boots' = [boots EXCEPT ![c] = b],
         calls' = [calls EXCEPT ![c] = call],
         UNCHANGED <<setup, creds, minted, orders, jobs, audit>>,
         failures' \in 0..MaxFailures, failures <= failures', p.inc <= failures',
         Owned(p.token, NameOf[w], creds, minted),
         Owned(b.token, NameOf[w], creds, minted),
         Owned(call.token, NameOf[w], creds, minted),
         call.pc \in {"list", "serve"} => call = calls[c]
  PROVE  IInv'
<1>1. TypeOK'
  <2>1. boots' \in [Callers -> Boot] /\ calls' \in [Callers -> Call]
    BY DEF IInv, TypeOK
  <2>2. proc' \in [Workers -> Process]
    BY DEF IInv, TypeOK
  <2> QED BY <2>1, <2>2 DEF IInv, TypeOK
<1>2. ProcessInv'
  BY DEF IInv, TypeOK, ProcessInv, Process, Incarnations
<1>3. BootInv'
  BY DEF IInv, TypeOK, BootInv
<1>4. CallInv'
  BY DEF IInv, TypeOK, CallInv
<1>5. OrdersInv'
  BY DEF IInv, OrdersInv
<1>6. GrantedInv'
  BY DEF IInv, GrantedInv
<1> QED BY <1>1, <1>2, <1>3, <1>4, <1>5, <1>6, Quiet

(* A write of the tables: a credential keeps its grants and its token, or gets *)
(* a token nobody has seen.                                                    *)
LEMMA Written ==
  ASSUME IInv, NEW n \in Names, NEW new \in CredentialRow,
         creds' = [creds EXCEPT ![n] = new],
         minted' \in 0..MaxTokens, minted <= minted', UNCHANGED jobs,
         creds[n].row => new.row,
         creds[n].envs \subseteq new.envs,
         ~new.row => new.envs = {},
         \/ new.row = creds[n].row /\ new.token = creds[n].token
         \/ new.token = minted' /\ minted < minted',
         new.url # NULL => \E w \in Workers : NameOf[w] = n /\ URLOf[w] = new.url
  PROVE  /\ RowsInv' /\ URLInv' /\ DiscoveryScoped'
         /\ creds' \in [Names -> CredentialRow]
         /\ \A k \in Names : /\ creds[k].row => creds'[k].row
                             /\ creds[k].envs \subseteq creds'[k].envs
         /\ \A t : \A k \in Names : Owned(t, k, creds, minted) => Owned(t, k, creds', minted')
         /\ minted < minted' /\ new.token = minted' => Owned(minted', n, creds', minted')
<1>1. /\ creds'[n] = new
      /\ \A k \in Names : k # n => creds'[k] = creds[k]
      /\ creds' \in [Names -> CredentialRow]
  BY DEF IInv, TypeOK
<1>2. minted \in Nat /\ minted' \in Nat
  BY BoundsAssumption DEF IInv, TypeOK
<1>3. \A k \in Names : /\ creds[k].row => creds'[k].row
                       /\ creds[k].envs \subseteq creds'[k].envs
  BY <1>1
<1>4. RowsInv'
  BY <1>1, <1>2 DEF IInv, RowsInv
<1>5. URLInv'
  BY <1>1 DEF IInv, URLInv
<1>6. DiscoveryScoped'
  BY <1>3, NamesWorked DEF IInv, DiscoveryScoped
<1>7. \A t : \A k \in Names : Owned(t, k, creds, minted) => Owned(t, k, creds', minted')
  BY <1>1, <1>2 DEF Owned
<1>8. minted < minted' /\ new.token = minted' => Owned(minted', n, creds', minted')
  BY <1>1, <1>2 DEF Owned, IInv, RowsInv
<1> QED BY <1>1, <1>3, <1>4, <1>5, <1>6, <1>7, <1>8

-------------------------------------------------------------------------------
LEMMA SetupStep ==
  ASSUME IInv, Setup
  PROVE  IInv'
<1>1. TypeOK'
  BY DEF IInv, TypeOK, Setup
<1>2. ProcessInv' /\ BootInv' /\ CallInv'
  BY DEF IInv, Setup, ProcessInv, BootInv, CallInv
<1>3. OrdersInv' /\ GrantedInv'
  BY DEF IInv, Setup, OrdersInv, GrantedInv
<1> QED BY <1>1, <1>2, <1>3, Quiet DEF Setup

(* The worker takes the token that was printed for its name. *)
LEMMA StartProcessStep ==
  ASSUME IInv, NEW w \in Workers, StartProcess(w)
  PROVE  IInv'
<1> DEFINE self == Self(w)
<1>1. self \in Callers /\ self[1] = w
  BY SelfIsCaller DEF IInv
<1> HIDE DEF self
<1>2. PICK p \in Process :
        /\ proc' = [proc EXCEPT ![w] = p] /\ p.inc = proc[w].inc
        /\ Owned(p.token, NameOf[w], creds, minted)
  <2>1. CASE w \in Bootstrapping
    <3> DEFINE p == [proc[w] EXCEPT !.pc = "booting", !.token = NULL]
    <3>1. /\ p \in Process /\ p.inc = proc[w].inc /\ p.token = NULL
          /\ proc' = [proc EXCEPT ![w] = p]
      BY <2>1 DEF IInv, TypeOK, Process, StartProcess
    <3> HIDE DEF p
    <3> QED BY <3>1 DEF Owned
  <2>2. CASE w \notin Bootstrapping
    <3>1. PICK o \in Orders :
            /\ OrderOf[o].name = NameOf[w]
            /\ proc' = [proc EXCEPT ![w].pc = AfterToken(w), ![w].token = orders[o].token]
      BY <2>2 DEF StartProcess, PrintedTokens
    <3> DEFINE p == [proc[w] EXCEPT !.pc = AfterToken(w), !.token = orders[o].token]
    <3>2. orders[o].token \in Tokens \cup {NULL}
      BY DEF IInv, TypeOK, OrderState
    <3>3. /\ p \in Process /\ p.inc = proc[w].inc /\ p.token = orders[o].token
          /\ proc' = [proc EXCEPT ![w] = p]
      BY <3>1, <3>2 DEF IInv, TypeOK, Process, AfterToken
    <3> HIDE DEF p
    <3>4. Owned(orders[o].token, NameOf[w], creds, minted)
      BY <3>1 DEF IInv, OrdersInv
    <3> QED BY <3>3, <3>4
  <2> QED BY <2>1, <2>2
<1>3. p.inc <= failures
  BY <1>2 DEF IInv, ProcessInv
<1>4. /\ boots' = [boots EXCEPT ![self] = boots[self]] /\ boots[self] \in Boot
      /\ calls' = [calls EXCEPT ![self] = calls[self]] /\ calls[self] \in Call
      /\ UNCHANGED <<setup, creds, minted, orders, jobs, audit>>
      /\ failures' \in 0..MaxFailures /\ failures' = failures /\ failures <= failures'
  BY <1>1, BoundsAssumption DEF IInv, TypeOK, StartProcess
<1>5. /\ Owned(boots[self].token, NameOf[w], creds, minted)
      /\ Owned(calls[self].token, NameOf[w], creds, minted)
  BY <1>1 DEF IInv, BootInv, CallInv
<1> QED BY <1>1, <1>2, <1>3, <1>4, <1>5, ProcessChange

LEMMA SendBootstrapStep ==
  ASSUME IInv, NEW w \in Workers, SendBootstrap(w)
  PROVE  IInv'
<1> DEFINE new == [NoBoot EXCEPT !.pc = "sent"]
<1>1. new \in Boot /\ new.token = NULL
  BY DEF NoBoot, Boot
<1>2. boots' = [boots EXCEPT ![Self(w)] = new]
  BY DEF SendBootstrap
<1> HIDE DEF new
<1>3. Self(w) \in Callers
  BY SelfIsCaller DEF IInv
<1>4. Owned(new.token, NameOf[Self(w)[1]], creds, minted)
  BY <1>1 DEF Owned
<1>5. failures' \in 0..MaxFailures /\ failures <= failures'
  BY FailureBound DEF IInv, SendBootstrap
<1> QED BY <1>1, <1>2, <1>3, <1>4, <1>5, BootChange DEF SendBootstrap

(* The worker goes on with the token of the answer. *)
LEMMA BootstrappedStep ==
  ASSUME IInv, NEW w \in Workers, Bootstrapped(w)
  PROVE  IInv'
<1> DEFINE self == Self(w)
           p == [proc[w] EXCEPT !.pc = AfterToken(w), !.token = boots[self].token]
<1>1. self \in Callers /\ self[1] = w
  BY SelfIsCaller DEF IInv
<1>2. /\ proc' = [proc EXCEPT ![w] = p]
      /\ boots' = [boots EXCEPT ![self] = NoBoot]
      /\ calls' = [calls EXCEPT ![self] = calls[self]]
      /\ UNCHANGED <<setup, creds, minted, orders, jobs, audit, failures>>
  BY <1>1 DEF Bootstrapped, IInv, TypeOK
<1> HIDE DEF self
<1>3. boots[self] \in Boot /\ calls[self] \in Call /\ NoBoot \in Boot /\ NoBoot.token = NULL
  BY <1>1 DEF IInv, TypeOK, NoBoot, Boot
<1>4. p \in Process /\ p.inc = proc[w].inc /\ p.token = boots[self].token
  BY <1>3 DEF IInv, TypeOK, Process, AfterToken, Boot
<1> HIDE DEF p
<1>5. /\ Owned(boots[self].token, NameOf[w], creds, minted)
      /\ Owned(calls[self].token, NameOf[w], creds, minted)
      /\ Owned(NoBoot.token, NameOf[w], creds, minted)
      /\ p.inc <= failures
  BY <1>1, <1>3, <1>4 DEF IInv, BootInv, CallInv, ProcessInv, Owned
<1>6. failures' \in 0..MaxFailures /\ failures <= failures' /\ p.inc <= failures'
  BY <1>2, <1>5, BoundsAssumption DEF IInv, TypeOK
<1> QED BY <1>1, <1>2, <1>3, <1>4, <1>5, <1>6, ProcessChange

LEMMA SendCallStep ==
  ASSUME IInv, NEW w \in Workers, SendCall(w)
  PROVE  IInv'
<1> DEFINE self == Self(w)
           kind == IF proc[w].pc = "polling" THEN "poll" ELSE "callback"
           new == [calls[self] EXCEPT !.pc = "sent", !.token = proc[w].token, !.kind = kind]
<1>1. self \in Callers /\ self[1] = w
  BY SelfIsCaller DEF IInv
<1>2. calls' = [calls EXCEPT ![self] = new]
  BY <1>1 DEF SendCall, IInv, TypeOK
<1> HIDE DEF self
<1>3. proc[w].token \in Tokens \cup {NULL} /\ kind \in {"callback", "poll"}
  BY DEF IInv, TypeOK, Process
<1> HIDE DEF kind
<1>4. new \in Call /\ new.pc = "sent" /\ new.token = proc[w].token
  BY <1>1, <1>3 DEF IInv, TypeOK, Call
<1> HIDE DEF new
<1>5. Owned(new.token, NameOf[self[1]], creds, minted)
  BY <1>1, <1>4 DEF IInv, ProcessInv
<1>6. failures' \in 0..MaxFailures /\ failures <= failures'
  BY FailureBound DEF IInv, SendCall
<1> QED BY <1>1, <1>2, <1>4, <1>5, <1>6, CallChange DEF SendCall

LEMMA CallAnsweredStep ==
  ASSUME IInv, NEW w \in Workers, CallAnswered(w)
  PROVE  IInv'
<1> DEFINE self == Self(w)
           pc == IF proc[w].pc = "polling" \/ calls[self].pc = "done" THEN "polling" ELSE "down"
           p == [proc[w] EXCEPT !.pc = pc]
           new == [calls[self] EXCEPT !.pc = "none"]
<1>1. self \in Callers /\ self[1] = w
  BY SelfIsCaller DEF IInv
<1>2. /\ proc' = [proc EXCEPT ![w] = p]
      /\ boots' = [boots EXCEPT ![self] = boots[self]]
      /\ calls' = [calls EXCEPT ![self] = new]
      /\ UNCHANGED <<setup, creds, minted, orders, jobs, audit, failures>>
  <2>1. /\ calls' = [calls EXCEPT ![self] = new]
        /\ boots' = [boots EXCEPT ![self] = boots[self]]
        /\ UNCHANGED <<setup, creds, minted, orders, jobs, audit, failures>>
    BY <1>1 DEF CallAnswered, IInv, TypeOK
  <2>2. proc' = [proc EXCEPT ![w] = p]
    BY DEF CallAnswered, IInv, TypeOK
  <2> QED BY <2>1, <2>2
<1> HIDE DEF self
<1>3. pc \in {"polling", "down"}
  OBVIOUS
<1> HIDE DEF pc
<1>4. /\ p \in Process /\ p.inc = proc[w].inc /\ p.token = proc[w].token
      /\ new \in Call /\ new.pc = "none" /\ new.token = calls[self].token
      /\ boots[self] \in Boot
  BY <1>1, <1>3 DEF IInv, TypeOK, Process, Call
<1> HIDE DEF p, new
<1>5. /\ Owned(boots[self].token, NameOf[w], creds, minted)
      /\ Owned(new.token, NameOf[w], creds, minted)
      /\ Owned(p.token, NameOf[w], creds, minted)
      /\ p.inc <= failures
  BY <1>1, <1>4 DEF IInv, BootInv, CallInv, ProcessInv
<1>6. failures' \in 0..MaxFailures /\ failures <= failures' /\ p.inc <= failures'
  BY <1>2, <1>5, BoundsAssumption DEF IInv, TypeOK
<1> QED BY <1>1, <1>2, <1>4, <1>5, <1>6, ProcessChange

(* The process is gone; its next one has another incarnation. *)
LEMMA CrashStep ==
  ASSUME IInv, NEW w \in Workers, Crash(w)
  PROVE  IInv'
<1> DEFINE self == Self(w)
           p == [proc[w] EXCEPT !.pc = "down", !.inc = proc[w].inc + 1, !.token = NULL]
<1>1. self \in Callers /\ self[1] = w
  BY SelfIsCaller DEF IInv
<1> HIDE DEF self
<1>2. /\ proc' = [proc EXCEPT ![w] = p]
      /\ boots' = [boots EXCEPT ![self] = boots[self]] /\ boots[self] \in Boot
      /\ calls' = [calls EXCEPT ![self] = calls[self]] /\ calls[self] \in Call
      /\ UNCHANGED <<setup, creds, minted, orders, jobs, audit>>
  BY <1>1 DEF Crash, IInv, TypeOK
<1>3. /\ proc[w].inc \in 0..MaxFailures /\ proc[w].inc <= failures
      /\ failures \in 0..MaxFailures /\ failures < MaxFailures /\ failures' = failures + 1
  BY DEF IInv, TypeOK, ProcessInv, Process, Incarnations, Crash, Failure
<1>4. proc[w].inc + 1 \in 0..MaxFailures /\ proc[w].inc + 1 <= failures'
      /\ failures' \in 0..MaxFailures /\ failures <= failures'
  BY <1>3, BoundsAssumption
<1>5. p \in Process /\ p.inc = proc[w].inc + 1 /\ p.token = NULL
  BY <1>4 DEF IInv, TypeOK, Process, Incarnations
<1> HIDE DEF p
<1>6. /\ Owned(boots[self].token, NameOf[w], creds, minted)
      /\ Owned(calls[self].token, NameOf[w], creds, minted)
      /\ Owned(p.token, NameOf[w], creds, minted)
  BY <1>1, <1>5 DEF IInv, BootInv, CallInv, Owned
<1> QED BY <1>1, <1>2, <1>4, <1>5, <1>6, ProcessChange

(* The process goes on with the token it has, under its next incarnation. *)
LEMMA AnswerLostStep ==
  ASSUME IInv, NEW w \in Workers, AnswerLost(w)
  PROVE  IInv'
<1> DEFINE self == Self(w)
           pc == IF proc[w].pc = "registering" THEN "down" ELSE proc[w].pc
           p == [proc[w] EXCEPT !.pc = pc, !.inc = proc[w].inc + 1]
<1>1. self \in Callers /\ self[1] = w
  BY SelfIsCaller DEF IInv
<1> HIDE DEF self
<1>2. /\ proc' = [proc EXCEPT ![w] = p]
      /\ boots' = [boots EXCEPT ![self] = boots[self]] /\ boots[self] \in Boot
      /\ calls' = [calls EXCEPT ![self] = calls[self]] /\ calls[self] \in Call
      /\ UNCHANGED <<setup, creds, minted, orders, jobs, audit>>
  BY <1>1 DEF AnswerLost, IInv, TypeOK
<1>3. /\ proc[w].inc \in 0..MaxFailures /\ proc[w].inc <= failures
      /\ failures \in 0..MaxFailures /\ failures < MaxFailures /\ failures' = failures + 1
  BY DEF IInv, TypeOK, ProcessInv, Process, Incarnations, AnswerLost, Failure
<1>4. proc[w].inc + 1 \in 0..MaxFailures /\ proc[w].inc + 1 <= failures'
      /\ failures' \in 0..MaxFailures /\ failures <= failures'
  BY <1>3, BoundsAssumption
<1>5. pc \in {"down", "booting", "registering", "polling"}
  BY DEF IInv, TypeOK, Process
<1> HIDE DEF pc
<1>6. p \in Process /\ p.inc = proc[w].inc + 1 /\ p.token = proc[w].token
  BY <1>4, <1>5 DEF IInv, TypeOK, Process, Incarnations
<1> HIDE DEF p
<1>7. /\ Owned(boots[self].token, NameOf[w], creds, minted)
      /\ Owned(calls[self].token, NameOf[w], creds, minted)
      /\ Owned(p.token, NameOf[w], creds, minted)
  BY <1>1, <1>6 DEF IInv, BootInv, CallInv, ProcessInv
<1> QED BY <1>1, <1>2, <1>4, <1>6, <1>7, ProcessChange

-------------------------------------------------------------------------------
LEMMA GetSoleTenantStep ==
  ASSUME IInv, NEW c \in Callers, GetSoleTenant(c)
  PROVE  IInv'
<1> DEFINE pc == IF setup THEN "lookup" ELSE "failed"
           new == [boots[c] EXCEPT !.pc = pc]
<1>1. boots' = [boots EXCEPT ![c] = new]
  BY DEF GetSoleTenant, IInv, TypeOK
<1>2. pc \in {"lookup", "failed"}
  OBVIOUS
<1> HIDE DEF pc
<1>3. new \in Boot /\ new.token = boots[c].token
  BY <1>2 DEF IInv, TypeOK, Boot
<1> HIDE DEF new
<1>4. Owned(new.token, NameOf[c[1]], creds, minted)
  BY <1>3 DEF IInv, BootInv
<1>5. failures' \in 0..MaxFailures /\ failures <= failures'
  BY FailureBound DEF IInv, GetSoleTenant
<1> QED BY <1>1, <1>3, <1>4, <1>5, BootChange DEF GetSoleTenant

LEMMA BootstrapLookupStep ==
  ASSUME IInv, NEW c \in Callers, BootstrapLookup(c)
  PROVE  IInv'
<1> DEFINE pc == IF creds[NameOf[c[1]]].row THEN "rotate" ELSE "mint"
           new == [boots[c] EXCEPT !.pc = pc]
<1>1. boots' = [boots EXCEPT ![c] = new]
  BY DEF BootstrapLookup, GetWorkerCredentialByTenantAndName, IInv, TypeOK
<1>2. pc \in {"rotate", "mint"}
  OBVIOUS
<1> HIDE DEF pc
<1>3. new \in Boot /\ new.token = boots[c].token
  BY <1>2 DEF IInv, TypeOK, Boot
<1> HIDE DEF new
<1>4. Owned(new.token, NameOf[c[1]], creds, minted)
  BY <1>3 DEF IInv, BootInv
<1>5. failures' \in 0..MaxFailures /\ failures <= failures'
  BY FailureBound DEF IInv, BootstrapLookup
<1> QED BY <1>1, <1>3, <1>4, <1>5, BootChange DEF BootstrapLookup

LEMMA BootstrapAuditStep ==
  ASSUME IInv, NEW c \in Callers, BootstrapAudit(c)
  PROVE  IInv'
<1> DEFINE new == [boots[c] EXCEPT !.pc = "done"]
<1>1. boots' = [boots EXCEPT ![c] = new]
  BY DEF BootstrapAudit, IInv, TypeOK
<1>2. new \in Boot /\ new.token = boots[c].token
  BY DEF IInv, TypeOK, Boot
<1> HIDE DEF new
<1>3. Owned(new.token, NameOf[c[1]], creds, minted)
  BY <1>2 DEF IInv, BootInv
<1>4. failures' \in 0..MaxFailures /\ failures <= failures'
  BY FailureBound DEF IInv, BootstrapAudit
<1>5. audit' \subseteq audit \cup {"worker.enrolled", "worker.self_registered"} \X Names
  BY NamesWorked DEF BootstrapAudit
<1> QED BY <1>1, <1>2, <1>3, <1>4, <1>5, BootChange DEF BootstrapAudit

LEMMA BootstrapStoppedStep ==
  ASSUME IInv, NEW c \in Callers, BootstrapStopped(c)
  PROVE  IInv'
<1> DEFINE new == [NoBoot EXCEPT !.pc = "failed"]
<1>1. boots' = [boots EXCEPT ![c] = new]
  BY DEF BootstrapStopped
<1>2. new \in Boot /\ new.token = NULL
  BY DEF NoBoot, Boot
<1> HIDE DEF new
<1>3. Owned(new.token, NameOf[c[1]], creds, minted)
  BY <1>2 DEF Owned
<1>4. failures' \in 0..MaxFailures /\ failures <= failures'
  BY FailureBound DEF IInv, BootstrapStopped
<1> QED BY <1>1, <1>2, <1>3, <1>4, BootChange DEF BootstrapStopped

(* A bootstrap request has written the token it will answer with. *)
LEMMA BootstrapWrite ==
  ASSUME IInv, NEW c \in Callers, NEW n \in Names, n = NameOf[c[1]],
         NEW new \in CredentialRow, new.token = minted + 1,
         creds[n].row => new.row, creds[n].envs = new.envs, ~new.row => new.envs = {},
         new.url # NULL => new.url = creds[n].url,
         creds' = [creds EXCEPT ![n] = new],
         minted < MaxTokens, minted' = minted + 1,
         NEW b \in Boot, b.token = minted + 1, boots' = [boots EXCEPT ![c] = b],
         UNCHANGED <<setup, proc, calls, orders, jobs, audit, failures>>
  PROVE  IInv'
<1>1. minted \in 0..MaxTokens /\ minted' \in Tokens /\ minted' \in 0..MaxTokens /\ minted < minted'
      /\ minted <= minted'
  BY BoundsAssumption DEF IInv, TypeOK, Tokens
<1>2. new.url # NULL => \E w \in Workers : NameOf[w] = n /\ URLOf[w] = new.url
  BY DEF IInv, URLInv
<1>3. creds[n].envs \subseteq new.envs /\ new.token = minted'
  OBVIOUS
<1>4. /\ RowsInv' /\ URLInv' /\ DiscoveryScoped'
      /\ creds' \in [Names -> CredentialRow]
      /\ \A k \in Names : /\ creds[k].row => creds'[k].row
                          /\ creds[k].envs \subseteq creds'[k].envs
      /\ \A t : \A k \in Names : Owned(t, k, creds, minted) => Owned(t, k, creds', minted')
      /\ Owned(minted', n, creds', minted')
  BY <1>1, <1>2, <1>3, Written
<1>5. b.token = minted'
  OBVIOUS
<1>6. TypeOK'
  BY <1>1, <1>4, <1>5 DEF IInv, TypeOK
<1>7. ProcessInv'
  BY <1>4, NamesWorked DEF IInv, ProcessInv
<1>8. BootInv'
  BY <1>4, <1>5, NamesWorked DEF IInv, TypeOK, BootInv
<1>9. CallInv'
  BY <1>4, NamesWorked DEF IInv, CallInv
<1>10. OrdersInv'
  BY <1>4, NamesWorked DEF IInv, OrdersInv
<1>11. GrantedInv'
  <2>1. \A k \in Names : creds'[k].envs = creds[k].envs
    BY DEF IInv, TypeOK
  <2> QED BY <2>1 DEF IInv, GrantedInv
<1> QED BY <1>4, <1>6, <1>7, <1>8, <1>9, <1>10, <1>11 DEF IInv

(* The first bootstrap of a name, or the loser of two. *)
LEMMA BootstrapMintStep ==
  ASSUME IInv, NEW c \in Callers, BootstrapMint(c)
  PROVE  IInv'
<1> DEFINE n == NameOf[c[1]]
<1>1. n \in Names
  BY NamesWorked
<1>2. CASE minted < MaxTokens /\ CreateWorkerCredential(n, minted + 1, GivenUp(c))
           /\ minted' = minted + 1
           /\ boots' = [boots EXCEPT ![c].pc = "audit", ![c].token = minted + 1]
  <2> DEFINE late == GivenUp(c)
             new == [NoCredential EXCEPT !.row = TRUE, !.token = minted + 1, !.late = late,
                                         !.created = minted + 1]
  <2>1. creds' = [creds EXCEPT ![n] = new] /\ ~creds[n].row
    BY <1>2 DEF CreateWorkerCredential
  <2>2. minted + 1 \in Tokens /\ minted + 1 \in 0..MaxTokens
    BY <1>2, BoundsAssumption DEF IInv, TypeOK, Tokens
  <2>3. /\ new \in CredentialRow /\ new.row = TRUE /\ new.token = minted + 1
        /\ new.envs = {} /\ new.url = NULL
    <3>1. late \in BOOLEAN
      BY GivenUpType DEF IInv
    <3> HIDE DEF late
    <3> QED BY <2>2, <3>1 DEF NoCredential, CredentialRow
  <2> HIDE DEF new
  <2>4. creds[n].envs = new.envs
    BY <1>1, <2>1, <2>3 DEF IInv, RowsInv
  <2> HIDE DEF n
  <2>5. n = NameOf[c[1]]
    BY DEF n
  <2> DEFINE b == [boots[c] EXCEPT !.pc = "audit", !.token = minted + 1]
  <2>6. b \in Boot /\ b.token = minted + 1 /\ boots' = [boots EXCEPT ![c] = b]
    BY <1>2, <2>2 DEF IInv, TypeOK, Boot
  <2> HIDE DEF b
  <2> QED BY <1>1, <1>2, <2>1, <2>3, <2>4, <2>5, <2>6, BootstrapWrite DEF BootstrapMint
<1>3. CASE boots' = [boots EXCEPT ![c].pc = "failed"] /\ UNCHANGED <<creds, minted>>
  <2> DEFINE new == [boots[c] EXCEPT !.pc = "failed"]
  <2>1. boots' = [boots EXCEPT ![c] = new]
    BY <1>3 DEF IInv, TypeOK
  <2>2. new \in Boot /\ new.token = boots[c].token
    BY DEF IInv, TypeOK, Boot
  <2> HIDE DEF new
  <2>3. Owned(new.token, NameOf[c[1]], creds, minted)
    BY <2>2 DEF IInv, BootInv
  <2>4. failures' \in 0..MaxFailures /\ failures <= failures'
    BY FailureBound DEF IInv, BootstrapMint
  <2> QED BY <1>3, <2>1, <2>2, <2>3, <2>4, BootChange DEF BootstrapMint
<1> QED BY <1>2, <1>3 DEF BootstrapMint

(* A later bootstrap replaces the token. *)
LEMMA BootstrapRotateStep ==
  ASSUME IInv, NEW c \in Callers, BootstrapRotate(c)
  PROVE  IInv'
<1> DEFINE n == NameOf[c[1]]
           late == GivenUp(c)
           new == [creds[n] EXCEPT !.token = minted + 1, !.late = late]
<1>1. n \in Names
  BY NamesWorked
<1>2. minted + 1 \in Tokens
  BY BoundsAssumption DEF BootstrapRotate, IInv, TypeOK, Tokens
<1>3. /\ new \in CredentialRow /\ new.row = creds[n].row /\ new.token = minted + 1
      /\ new.envs = creds[n].envs /\ new.url = creds[n].url
  <2>1. late \in BOOLEAN
    BY GivenUpType DEF IInv
  <2> HIDE DEF late
  <2> QED BY <1>1, <1>2, <2>1 DEF IInv, TypeOK, CredentialRow
<1>4. creds' = [creds EXCEPT ![n] = new]
  BY <1>1 DEF BootstrapRotate, RotateWorkerCredentialToken, IInv, TypeOK
<1> HIDE DEF new
<1>5. ~new.row => new.envs = {}
  BY <1>1, <1>3 DEF IInv, RowsInv
<1> HIDE DEF n
<1>6. n = NameOf[c[1]]
  BY DEF n
<1> DEFINE b == [boots[c] EXCEPT !.pc = "audit", !.token = minted + 1]
<1>7. b \in Boot /\ b.token = minted + 1 /\ boots' = [boots EXCEPT ![c] = b]
  BY <1>2 DEF BootstrapRotate, IInv, TypeOK, Boot
<1> HIDE DEF b
<1> QED BY <1>1, <1>3, <1>4, <1>5, <1>6, <1>7, BootstrapWrite DEF BootstrapRotate

-------------------------------------------------------------------------------
(* Store.Verify: the token is the caller's name's, for nobody else has it. *)
LEMMA VerifyTokenStep ==
  ASSUME IInv, NEW c \in Callers, VerifyToken(c)
  PROVE  IInv'
<1>1. PICK n \in Names :
        /\ creds[n].row /\ creds[n].token = calls[c].token
        /\ calls' = [calls EXCEPT ![c].pc = "list", ![c].cred = n]
  BY DEF VerifyToken, GetWorkerCredentialByTokenHash
<1> DEFINE new == [calls[c] EXCEPT !.pc = "list", !.cred = n]
<1>2. calls' = [calls EXCEPT ![c] = new]
  BY <1>1 DEF IInv, TypeOK
<1>3. new \in Call /\ new.token = calls[c].token /\ new.cred = n /\ new.pc = "list"
  BY DEF IInv, TypeOK, Call
<1> HIDE DEF new
<1>4. calls[c].token # NULL
  BY <1>1, NoNullAssumption DEF IInv, RowsInv
<1>5. Owned(calls[c].token, NameOf[c[1]], creds, minted)
  BY DEF IInv, CallInv
<1>6. n = NameOf[c[1]]
  BY <1>1, <1>4, <1>5 DEF Owned
<1>7. failures' \in 0..MaxFailures /\ failures <= failures'
  BY FailureBound DEF IInv, VerifyToken
<1> QED BY <1>2, <1>3, <1>5, <1>6, <1>7, CallChange DEF VerifyToken

LEMMA UnauthorizedStep ==
  ASSUME IInv, NEW c \in Callers, Unauthorized(c)
  PROVE  IInv'
<1> DEFINE new == [calls[c] EXCEPT !.pc = "denied"]
<1>1. calls' = [calls EXCEPT ![c] = new]
  BY DEF Unauthorized, IInv, TypeOK
<1>2. new \in Call /\ new.token = calls[c].token /\ new.pc = "denied"
  BY DEF IInv, TypeOK, Call
<1> HIDE DEF new
<1>3. Owned(new.token, NameOf[c[1]], creds, minted)
  BY <1>2 DEF IInv, CallInv
<1>4. failures' \in 0..MaxFailures /\ failures <= failures'
  BY FailureBound DEF IInv, Unauthorized
<1> QED BY <1>1, <1>2, <1>3, <1>4, CallChange DEF Unauthorized

LEMMA VerifyEnvironmentsStep ==
  ASSUME IInv, NEW c \in Callers, VerifyEnvironments(c)
  PROVE  IInv'
<1> DEFINE envs == creds[calls[c].cred].envs
           new == [calls[c] EXCEPT !.pc = "serve", !.envs = envs]
<1>1. calls' = [calls EXCEPT ![c] = new]
  BY DEF VerifyEnvironments, ListWorkerCredentialEnvironments, IInv, TypeOK
<1>2. calls[c].cred = NameOf[c[1]] /\ calls[c].cred \in Names
  BY NamesWorked DEF VerifyEnvironments, IInv, CallInv
<1>3. envs \subseteq Envs
  BY <1>2 DEF IInv, TypeOK, CredentialRow
<1>4. envs = creds[calls[c].cred].envs
  OBVIOUS
<1> HIDE DEF envs
<1>5. /\ new \in Call /\ new.token = calls[c].token /\ new.pc = "serve"
      /\ new.cred = calls[c].cred /\ new.envs = envs
  BY <1>3 DEF IInv, TypeOK, Call
<1> HIDE DEF new
<1>6. Owned(new.token, NameOf[c[1]], creds, minted)
  BY <1>5 DEF IInv, CallInv
<1>7. failures' \in 0..MaxFailures /\ failures <= failures'
  BY FailureBound DEF IInv, VerifyEnvironments
<1> QED BY <1>1, <1>2, <1>4, <1>5, <1>6, <1>7, CallChange DEF VerifyEnvironments

LEMMA ServePollStep ==
  ASSUME IInv, NEW c \in Callers, ServePoll(c)
  PROVE  IInv'
<1> DEFINE new == [calls[c] EXCEPT !.pc = "done"]
<1>1. calls' = [calls EXCEPT ![c] = new]
  BY DEF ServePoll, IInv, TypeOK
<1>2. new \in Call /\ new.token = calls[c].token /\ new.pc = "done"
  BY DEF IInv, TypeOK, Call
<1> HIDE DEF new
<1>3. Owned(new.token, NameOf[c[1]], creds, minted)
  BY <1>2 DEF IInv, CallInv
<1>4. failures' \in 0..MaxFailures /\ failures <= failures'
  BY FailureBound DEF IInv, ServePoll
<1> QED BY <1>1, <1>2, <1>3, <1>4, CallChange DEF ServePoll

LEMMA CallStoppedStep ==
  ASSUME IInv, NEW c \in Callers, CallStopped(c)
  PROVE  IInv'
<1> DEFINE new == [calls[c] EXCEPT !.pc = "denied"]
<1>1. calls' = [calls EXCEPT ![c] = new]
  BY DEF CallStopped, IInv, TypeOK
<1>2. new \in Call /\ new.token = calls[c].token /\ new.pc = "denied"
  BY DEF IInv, TypeOK, Call
<1> HIDE DEF new
<1>3. Owned(new.token, NameOf[c[1]], creds, minted)
  BY <1>2 DEF IInv, CallInv
<1>4. failures' \in 0..MaxFailures /\ failures <= failures'
  BY FailureBound DEF IInv, CallStopped
<1> QED BY <1>1, <1>2, <1>3, <1>4, CallChange DEF CallStopped

(* A worker sets the address of its own name's credential. *)
LEMMA SetCICallbackURLStep ==
  ASSUME IInv, NEW c \in Callers, SetCICallbackURL(c)
  PROVE  IInv'
<1> DEFINE n == NameOf[c[1]]
           url == URLOf[c[1]]
           new == [creds[n] EXCEPT !.url = url]
           call == [calls[c] EXCEPT !.pc = "done"]
<1>1. n \in Names /\ c[1] \in Workers /\ calls[c].cred = n
  BY NamesWorked DEF SetCICallbackURL, IInv, CallInv
<1>2. url \in URLs
  BY <1>1 DEF URLs
<1>3. creds' = [creds EXCEPT ![n] = new]
  BY <1>1 DEF SetCICallbackURL, SetWorkerCICallbackURL, IInv, TypeOK
<1>4. url # NULL => \E w \in Workers : NameOf[w] = n /\ URLOf[w] = url
  BY <1>1
<1> HIDE DEF n, url
<1>5. /\ new \in CredentialRow /\ new.row = creds[n].row /\ new.token = creds[n].token
      /\ new.envs = creds[n].envs /\ new.url = url
  BY <1>1, <1>2 DEF IInv, TypeOK, CredentialRow
<1> HIDE DEF new
<1>6. calls' = [calls EXCEPT ![c] = call]
  BY DEF SetCICallbackURL, IInv, TypeOK
<1>7. call \in Call /\ call.token = calls[c].token /\ call.pc = "done"
  BY DEF IInv, TypeOK, Call
<1> HIDE DEF call
<1>8. /\ minted' = minted /\ minted' \in 0..MaxTokens /\ minted <= minted'
      /\ UNCHANGED <<setup, proc, boots, orders, jobs, audit, failures>>
      /\ ~new.row => new.envs = {}
  BY <1>1, <1>5, BoundsAssumption DEF SetCICallbackURL, IInv, TypeOK, RowsInv
<1>9. /\ RowsInv' /\ URLInv' /\ DiscoveryScoped'
      /\ creds' \in [Names -> CredentialRow]
      /\ \A k \in Names : /\ creds[k].row => creds'[k].row
                          /\ creds[k].envs \subseteq creds'[k].envs
      /\ \A t : \A k \in Names : Owned(t, k, creds, minted) => Owned(t, k, creds', minted')
  BY <1>1, <1>3, <1>4, <1>5, <1>8, Written
<1>10. TypeOK'
  BY <1>6, <1>7, <1>8, <1>9 DEF IInv, TypeOK
<1>11. ProcessInv' /\ BootInv'
  BY <1>8, <1>9, NamesWorked DEF IInv, ProcessInv, BootInv
<1>12. CallInv'
  BY <1>6, <1>7, <1>9, NamesWorked DEF IInv, TypeOK, CallInv
<1>13. OrdersInv'
  BY <1>8, <1>9, NamesWorked DEF IInv, OrdersInv
<1>14. GrantedInv'
  <2>1. \A k \in Names : creds'[k].envs = creds[k].envs
    BY <1>1, <1>3, <1>5 DEF IInv, TypeOK
  <2> QED BY <1>8, <2>1 DEF IInv, GrantedInv
<1> QED BY <1>9, <1>10, <1>11, <1>12, <1>13, <1>14 DEF IInv

-------------------------------------------------------------------------------
LEMMA RefuseStep ==
  ASSUME IInv, NEW o \in Orders, Refuse(o)
  PROVE  IInv'
<1> DEFINE new == [orders[o] EXCEPT !.pc = "failed"]
<1>1. orders' = [orders EXCEPT ![o] = new]
  BY DEF Refuse, IInv, TypeOK
<1>2. /\ new \in OrderState /\ new.token = orders[o].token /\ new.pc = "failed"
      /\ new.scope = orders[o].scope
  BY DEF IInv, TypeOK, OrderState
<1> HIDE DEF new
<1>3. Owned(new.token, OrderOf[o].name, creds, minted)
  BY <1>2 DEF IInv, OrdersInv
<1>4. failures' \in 0..MaxFailures /\ failures <= failures'
  BY FailureBound DEF IInv, Refuse
<1> QED BY <1>1, <1>2, <1>3, <1>4, OrderChange DEF Refuse

LEMMA OrderStoppedStep ==
  ASSUME IInv, NEW o \in Orders, OrderStopped(o)
  PROVE  IInv'
<1> DEFINE new == [orders[o] EXCEPT !.pc = "failed"]
<1>1. orders' = [orders EXCEPT ![o] = new]
  BY DEF OrderStopped, IInv, TypeOK
<1>2. /\ new \in OrderState /\ new.token = orders[o].token /\ new.pc = "failed"
      /\ new.scope = orders[o].scope
  BY DEF IInv, TypeOK, OrderState
<1> HIDE DEF new
<1>3. Owned(new.token, OrderOf[o].name, creds, minted)
  BY <1>2 DEF IInv, OrdersInv
<1>4. failures' \in 0..MaxFailures /\ failures <= failures'
  BY FailureBound DEF IInv, OrderStopped
<1> QED BY <1>1, <1>2, <1>3, <1>4, OrderChange DEF OrderStopped

LEMMA GrantWorkerStep ==
  ASSUME IInv, NEW o \in Orders, GrantWorker(o)
  PROVE  IInv'
<1>1. PICK s \in OrderOf[o].scopes :
        /\ OrderOf[o].envs \subseteq s
        /\ orders' = [orders EXCEPT ![o] =
             [@ EXCEPT !.pc = "grant", !.scope = s, !.todo = OrderOf[o].envs]]
  BY DEF GrantWorker, ResolveWorkerEnvironments
<1> DEFINE new == [orders[o] EXCEPT !.pc = "grant", !.scope = s, !.todo = OrderOf[o].envs]
<1>2. s \subseteq Envs /\ OrderOf[o].envs \subseteq Envs
  BY DeploymentAssumption DEF Order
<1>3. orders' = [orders EXCEPT ![o] = new]
  BY <1>1 DEF IInv, TypeOK
<1>4. /\ new \in OrderState /\ new.token = orders[o].token /\ new.pc = "grant"
      /\ new.scope = s /\ new.todo = OrderOf[o].envs
  BY <1>2 DEF IInv, TypeOK, OrderState
<1> HIDE DEF new
<1>5. Owned(new.token, OrderOf[o].name, creds, minted) /\ orders[o].scope \subseteq new.scope
  BY <1>4 DEF GrantWorker, IInv, OrdersInv
<1>6. failures' \in 0..MaxFailures /\ failures <= failures'
  BY FailureBound DEF IInv, GrantWorker
<1> QED BY <1>1, <1>3, <1>4, <1>5, <1>6, OrderChange DEF GrantWorker

LEMMA AuditOrderStep ==
  ASSUME IInv, NEW o \in Orders, AuditOrder(o)
  PROVE  IInv'
<1> DEFINE new == [orders[o] EXCEPT !.pc = "answered"]
<1>1. orders' = [orders EXCEPT ![o] = new]
  BY DEF AuditOrder, IInv, TypeOK
<1>2. /\ new \in OrderState /\ new.token = orders[o].token /\ new.pc = "answered"
      /\ new.scope = orders[o].scope
  BY DEF IInv, TypeOK, OrderState
<1> HIDE DEF new
<1>3. /\ Owned(new.token, OrderOf[o].name, creds, minted)
      /\ creds[OrderOf[o].name].row
      /\ OrderOf[o].envs \subseteq creds[OrderOf[o].name].envs
  BY <1>2 DEF AuditOrder, IInv, OrdersInv
<1>4. failures' \in 0..MaxFailures /\ failures <= failures'
  BY FailureBound DEF IInv, AuditOrder
<1>5. audit' \subseteq audit \cup {"worker.enrolled", "worker.environment_granted"} \X Names
  BY NamesWorked DEF AuditOrder
<1> QED BY <1>1, <1>2, <1>3, <1>4, <1>5, OrderChange DEF AuditOrder

(* Store.Create: the new credential, of which nothing is granted yet. *)
LEMMA EnrolWorkerStep ==
  ASSUME IInv, NEW o \in Orders, EnrolWorker(o)
  PROVE  IInv'
<1> DEFINE n == OrderOf[o].name
<1>1. CASE creds[n].row /\ orders' = [orders EXCEPT ![o].pc = "failed"]
           /\ UNCHANGED <<creds, minted>>
  <2> DEFINE new == [orders[o] EXCEPT !.pc = "failed"]
  <2>1. orders' = [orders EXCEPT ![o] = new]
    BY <1>1 DEF IInv, TypeOK
  <2>2. /\ new \in OrderState /\ new.token = orders[o].token /\ new.pc = "failed"
        /\ new.scope = orders[o].scope
    BY DEF IInv, TypeOK, OrderState
  <2> HIDE DEF new
  <2>3. Owned(new.token, OrderOf[o].name, creds, minted)
    BY <2>2 DEF IInv, OrdersInv
  <2>4. failures' \in 0..MaxFailures /\ failures <= failures'
    BY FailureBound DEF IInv, EnrolWorker
  <2> QED BY <1>1, <2>1, <2>2, <2>3, <2>4, OrderChange DEF EnrolWorker
<1>2. ASSUME NEW s \in OrderOf[o].scopes, OrderOf[o].envs \subseteq s,
             minted < MaxTokens, CreateWorkerCredential(n, minted + 1, FALSE), minted' = minted + 1,
             orders' = [orders EXCEPT ![o] =
               [pc |-> "grant", scope |-> s, todo |-> OrderOf[o].envs, token |-> minted + 1]]
      PROVE  IInv'
  <2> DEFINE new == [NoCredential EXCEPT !.row = TRUE, !.token = minted + 1, !.late = FALSE,
                                         !.created = minted + 1]
             order == [pc |-> "grant", scope |-> s, todo |-> OrderOf[o].envs, token |-> minted + 1]
  <2>1. creds' = [creds EXCEPT ![n] = new] /\ ~creds[n].row
    BY <1>2 DEF CreateWorkerCredential
  <2>2. /\ minted' \in Tokens /\ minted' \in 0..MaxTokens /\ minted <= minted' /\ minted < minted'
        /\ n \in Names
    BY <1>2, BoundsAssumption, NamesWorked DEF IInv, TypeOK, Tokens
  <2>3. /\ new \in CredentialRow /\ new.row = TRUE /\ new.token = minted'
        /\ new.envs = {} /\ new.url = NULL
    BY <1>2, <2>2 DEF NoCredential, CredentialRow
  <2>4. creds[n].envs = {} /\ orders[o].scope = {} /\ orders[o].pc = "none"
    BY <2>1, <2>2 DEF EnrolWorker, IInv, RowsInv, OrdersInv
  <2>5. /\ order \in OrderState /\ order.pc = "grant" /\ order.scope = s
        /\ order.todo = OrderOf[o].envs /\ order.token = minted'
    BY <1>2, <2>2, DeploymentAssumption DEF OrderState, Order
  <2>6. /\ orders'[o] = order /\ orders' \in [Orders -> OrderState]
        /\ \A q \in Orders : q # o => orders'[q] = orders[q]
    BY <1>2, <2>5 DEF IInv, TypeOK
  <2> HIDE DEF new, order
  <2>7. UNCHANGED <<setup, proc, boots, calls, jobs, audit, failures>>
    BY DEF EnrolWorker
  <2>8. /\ RowsInv' /\ URLInv' /\ DiscoveryScoped'
        /\ creds' \in [Names -> CredentialRow]
        /\ \A k \in Names : /\ creds[k].row => creds'[k].row
                            /\ creds[k].envs \subseteq creds'[k].envs
        /\ \A t : \A k \in Names : Owned(t, k, creds, minted) => Owned(t, k, creds', minted')
        /\ Owned(minted', n, creds', minted')
    BY <2>1, <2>2, <2>3, <2>4, <2>7, Written
  <2>9. TypeOK'
    BY <2>2, <2>6, <2>7, <2>8 DEF IInv, TypeOK
  <2>10. ProcessInv' /\ BootInv'
    BY <2>7, <2>8, NamesWorked DEF IInv, ProcessInv, BootInv
  <2>11. CallInv'
    BY <2>7, <2>8, NamesWorked DEF IInv, CallInv
  <2>12. OrdersInv'
    <3>1. creds'[n].row
      BY <2>1, <2>2, <2>3 DEF IInv, TypeOK
    <3> QED BY <1>2, <2>5, <2>6, <2>8, <3>1, NamesWorked DEF IInv, OrdersInv
  <2>13. GrantedInv'
    <3>1. /\ \A k \in Names : creds'[k].envs = creds[k].envs
          /\ \A q \in Orders : orders[q].scope \subseteq orders'[q].scope
      BY <2>1, <2>2, <2>3, <2>4, <2>6 DEF IInv, TypeOK
    <3> QED BY <3>1 DEF IInv, GrantedInv
  <2> QED BY <2>8, <2>9, <2>10, <2>11, <2>12, <2>13 DEF IInv
<1> QED BY <1>1, <1>2 DEF EnrolWorker, ResolveWorkerEnvironments

(* Store.Grant: an environment more, to whoever the credential is for now. *)
LEMMA GrantStep ==
  ASSUME IInv, NEW o \in Orders, NEW e \in Envs, Grant(o, e)
  PROVE  IInv'
<1> DEFINE n == OrderOf[o].name
           new == [creds[n] EXCEPT !.envs = creds[n].envs \cup {e}]
           pc == IF orders[o].todo = {e} THEN "audit" ELSE "grant"
           order == [orders[o] EXCEPT !.todo = orders[o].todo \ {e}, !.pc = pc]
<1>1. n \in Names
  BY NamesWorked
<1>2. /\ orders[o].pc = "grant" /\ e \in orders[o].todo /\ creds[n].row
      /\ OrderOf[o].envs \subseteq orders[o].scope
      /\ OrderOf[o].envs \subseteq creds[n].envs \cup orders[o].todo
      /\ orders[o].todo \subseteq OrderOf[o].envs
  BY DEF Grant, IInv, OrdersInv
<1>3. creds' = [creds EXCEPT ![n] = new]
  BY <1>1 DEF Grant, GrantWorkerCredentialEnvironment, IInv, TypeOK
<1>4. /\ new \in CredentialRow /\ new.row = creds[n].row /\ new.token = creds[n].token
      /\ new.envs = creds[n].envs \cup {e} /\ new.url = creds[n].url
  BY <1>1 DEF IInv, TypeOK, CredentialRow
<1>5. /\ pc \in {"audit", "grant"}
      /\ pc = "audit" => orders[o].todo = {e}
  OBVIOUS
<1>6. orders' = [orders EXCEPT ![o] = order]
  BY DEF Grant, IInv, TypeOK
<1> HIDE DEF pc, new
<1>7. /\ order \in OrderState /\ order.pc = pc /\ order.scope = orders[o].scope
      /\ order.todo = orders[o].todo \ {e} /\ order.token = orders[o].token
  BY <1>5 DEF IInv, TypeOK, OrderState
<1> HIDE DEF order
<1>8. /\ orders'[o] = order /\ orders' \in [Orders -> OrderState]
      /\ \A q \in Orders : q # o => orders'[q] = orders[q]
  BY <1>6, <1>7 DEF IInv, TypeOK
<1>9. UNCHANGED <<setup, minted, proc, boots, calls, jobs, audit, failures>>
  BY DEF Grant
<1>10. new.url # NULL => \E w \in Workers : NameOf[w] = n /\ URLOf[w] = new.url
  BY <1>1, <1>4 DEF IInv, URLInv
<1>11. minted' = minted /\ minted' \in 0..MaxTokens /\ minted <= minted'
  BY <1>9, BoundsAssumption DEF IInv, TypeOK
<1>12. /\ RowsInv' /\ URLInv' /\ DiscoveryScoped'
       /\ creds' \in [Names -> CredentialRow]
       /\ \A k \in Names : /\ creds[k].row => creds'[k].row
                           /\ creds[k].envs \subseteq creds'[k].envs
       /\ \A t : \A k \in Names : Owned(t, k, creds, minted) => Owned(t, k, creds', minted')
  BY <1>1, <1>2, <1>3, <1>4, <1>9, <1>10, <1>11, Written
<1>13. /\ creds'[n].envs = creds[n].envs \cup {e}
       /\ \A k \in Names : k # n => creds'[k].envs = creds[k].envs
  BY <1>1, <1>3, <1>4 DEF IInv, TypeOK
<1>14. TypeOK'
  BY <1>8, <1>9, <1>12 DEF IInv, TypeOK
<1>15. ProcessInv' /\ BootInv'
  BY <1>9, <1>12, NamesWorked DEF IInv, ProcessInv, BootInv
<1>16. CallInv'
  BY <1>9, <1>12, NamesWorked DEF IInv, CallInv
<1>17. OrdersInv'
  <2> SUFFICES ASSUME NEW q \in Orders
               PROVE  LET row == creds'[OrderOf[q].name] IN
                      /\ Owned(orders'[q].token, OrderOf[q].name, creds', minted')
                      /\ orders'[q].pc = "none" => orders'[q].scope = {}
                      /\ orders'[q].pc \in {"grant", "audit", "answered"} => row.row
                      /\ orders'[q].pc = "grant" =>
                           /\ OrderOf[q].envs \subseteq orders'[q].scope
                           /\ OrderOf[q].envs \subseteq row.envs \cup orders'[q].todo
                           /\ orders'[q].todo \subseteq OrderOf[q].envs
                      /\ orders'[q].pc \in {"audit", "answered"} => OrderOf[q].envs \subseteq row.envs
    BY DEF OrdersInv
  <2>1. CASE q = o
    BY <1>1, <1>2, <1>5, <1>7, <1>8, <1>12, <1>13, <2>1 DEF IInv, OrdersInv
  <2>2. CASE q # o
    BY <1>8, <1>12, <2>2, NamesWorked DEF IInv, OrdersInv
  <2> QED BY <2>1, <2>2
<1>18. GrantedInv'
  <2>1. \A q \in Orders : orders'[q].scope = orders[q].scope
    BY <1>7, <1>8
  <2>2. n = OrderOf[o].name /\ e \in OrderOf[o].envs /\ e \in orders'[o].scope
    BY <1>2, <2>1
  <2> HIDE DEF n
  <2> QED BY <1>13, <2>1, <2>2 DEF IInv, GrantedInv
<1> QED BY <1>12, <1>14, <1>15, <1>16, <1>17, <1>18 DEF IInv

(* The job is told the address of a worker granted one of its environments. *)
LEMMA DiscoverCallbackStep ==
  ASSUME IInv, NEW r \in Repos, DiscoverCallback(r)
  PROVE  IInv'
<1>1. PICK n \in Names :
        /\ creds[n].url # NULL /\ creds[n].envs \cap PipelinesOf[r] # {}
        /\ jobs' = [jobs EXCEPT ![r] = creds[n].url]
  BY DEF DiscoverCallback, CICallbackURLForRepo, GetCICallbackURLForRepo
<1>2. PICK w \in Workers : NameOf[w] = n /\ URLOf[w] = creds[n].url
  BY <1>1 DEF IInv, URLInv
<1>3. UNCHANGED <<setup, creds, minted, proc, boots, calls, orders, audit, failures>>
  BY DEF DiscoverCallback
<1>4. TypeOK'
  <2>1. creds[n].url \in URLs \cup {NULL}
    BY DEF IInv, TypeOK, CredentialRow
  <2> QED BY <1>1, <1>3, <2>1 DEF IInv, TypeOK
<1>5. RowsInv' /\ URLInv'
  BY <1>3 DEF IInv, RowsInv, URLInv
<1>6. ProcessInv' /\ BootInv' /\ CallInv'
  BY <1>3 DEF IInv, ProcessInv, BootInv, CallInv
<1>7. OrdersInv' /\ GrantedInv'
  BY <1>3 DEF IInv, OrdersInv, GrantedInv
<1>8. DiscoveryScoped'
  <2>1. /\ jobs'[r] = creds[n].url
        /\ \A q \in Repos : q # r => jobs'[q] = jobs[q]
    BY <1>1 DEF IInv, TypeOK
  <2>2. URLOf[w] = jobs'[r] /\ creds[NameOf[w]].envs \cap PipelinesOf[r] # {}
    BY <1>1, <1>2, <2>1
  <2> QED BY <1>3, <2>1, <2>2 DEF IInv, DiscoveryScoped
<1> QED BY <1>4, <1>5, <1>6, <1>7, <1>8 DEF IInv

LEMMA StutterStep ==
  ASSUME IInv, UNCHANGED vars
  PROVE  IInv'
<1>1. TypeOK'
  BY DEF IInv, TypeOK, vars
<1>2. ProcessInv' /\ BootInv' /\ CallInv'
  BY DEF IInv, ProcessInv, BootInv, CallInv, vars
<1>3. OrdersInv' /\ GrantedInv'
  BY DEF IInv, OrdersInv, GrantedInv, vars
<1> QED BY <1>1, <1>2, <1>3, Quiet DEF vars

-------------------------------------------------------------------------------
LEMMA NextIInv ==
  ASSUME IInv, [Next]_vars
  PROVE  IInv'
<1>1. CASE Setup
  BY <1>1, SetupStep
<1>2. ASSUME NEW w \in Workers, ProcessStep(w) \/ Crash(w) \/ AnswerLost(w)
      PROVE  IInv'
  BY <1>2, StartProcessStep, SendBootstrapStep, BootstrappedStep, SendCallStep,
     CallAnsweredStep, CrashStep, AnswerLostStep DEF ProcessStep
<1>3. ASSUME NEW c \in Callers, BootstrapStep(c) \/ BootstrapStopped(c)
      PROVE  IInv'
  BY <1>3, GetSoleTenantStep, BootstrapLookupStep, BootstrapMintStep, BootstrapRotateStep,
     BootstrapAuditStep, BootstrapStoppedStep DEF BootstrapStep
<1>4. ASSUME NEW c \in Callers, CallStep(c) \/ CallStopped(c)
      PROVE  IInv'
  BY <1>4, VerifyTokenStep, UnauthorizedStep, VerifyEnvironmentsStep, ServePollStep,
     SetCICallbackURLStep, CallStoppedStep DEF CallStep
<1>5. ASSUME NEW o \in Orders, OrderStep(o) \/ OrderStopped(o)
      PROVE  IInv'
  BY <1>5, RefuseStep, EnrolWorkerStep, GrantWorkerStep, AuditOrderStep, GrantStep,
     OrderStoppedStep DEF OrderStep
<1>6. ASSUME NEW r \in Repos, DiscoverCallback(r)
      PROVE  IInv'
  BY <1>6, DiscoverCallbackStep
<1>7. CASE UNCHANGED vars
  BY <1>7, StutterStep
<1> QED BY <1>1, <1>2, <1>3, <1>4, <1>5, <1>6, <1>7 DEF Next

(* In every reachable state IInv holds. *)
LEMMA Invariance == Spec => []IInv
<1>1. Init => IInv
  BY InitIInv
<1>2. IInv /\ [Next]_vars => IInv'
  BY NextIInv
<1> QED BY <1>1, <1>2, PTL DEF Spec

(* Tables, processes, requests and orders keep their types; the generations  *)
(* of a process stay within the failures counted.                            *)
THEOREM TypeCorrect == Spec => []TypeOK
<1>1. IInv => TypeOK
  BY DEF IInv
<1> QED BY <1>1, Invariance, PTL

(* An order answered with success stays granted, whatever bootstraps,        *)
(* rotations, refusals and half-done orders come between, and a credential   *)
(* has no environment but those asked for by actors that have them.          *)
THEOREM GrantsOrdered == Spec => []GrantsAreOrders
<1>1. IInv => GrantsAreOrders
  <2> SUFFICES ASSUME IInv PROVE GrantsAreOrders
    OBVIOUS
  <2>1. \A o \in Orders :
          orders[o].pc = "answered" => OrderOf[o].envs \subseteq creds[OrderOf[o].name].envs
    BY DEF IInv, OrdersInv
  <2>2. ASSUME NEW n \in Names, NEW e \in creds[n].envs
        PROVE  e \in UNION {OrderOf[o].envs \cap orders[o].scope :
                 o \in {o \in Orders : OrderOf[o].name = n}}
    <3>1. PICK o \in Orders :
            OrderOf[o].name = n /\ e \in OrderOf[o].envs /\ e \in orders[o].scope
      BY DEF IInv, GrantedInv
    <3> QED BY <3>1
  <2> QED BY <2>1, <2>2 DEF GrantsAreOrders
<1> QED BY <1>1, Invariance, PTL

(* requireWorkerAuth: a request is served as its sender's name and within    *)
(* what that name is granted, even when the token has been rotated away      *)
(* between the look-up and the handler.                                      *)
THEOREM ScopeServed == Spec => []ServedInScope
<1>1. IInv => ServedInScope
  BY DEF IInv, CallInv, ServedInScope
<1> QED BY <1>1, Invariance, PTL

(* A CI job posts to the address of a worker granted an environment in which *)
(* its repository has a pipeline.                                            *)
THEOREM DiscoveryInScope == Spec => []DiscoveryScoped
<1>1. IInv => DiscoveryScoped
  BY DEF IInv
<1> QED BY <1>1, Invariance, PTL
===============================================================================
