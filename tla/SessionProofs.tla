---------------------------- MODULE SessionProofs ---------------------------
(***************************************************************************)
(* Proofs about ConsoleSession, for any pages, names, tokens, lifetimes    *)
(* and faults: the console is one of the clients AuthProofs is about, and  *)
(* shows its shell only after somebody signed in.                          *)
(***************************************************************************)
EXTENDS ConsoleSession, QueryCacheProofs, AuthProofs

-----------------------------------------------------------------------------
(* The console is a client of Auth.                                        *)

\* The operations the console uses can be requested.
LEMMA ConsoleOps ==
    /\ AuthQueries \subseteq Queries /\ Queries \subseteq Ops
    /\ SignIns \subseteq Ops /\ "logout" \in Ops /\ SignInOperation \in Ops
    /\ Browser \in Clients
<1>1. {"getAuthBootstrap", "createAuthBootstrap", "login", "logout", "getAuthSession"} \subseteq Ops
  <2>1. DOMAIN AuthOperations =
            {"getAuthBootstrap", "createAuthBootstrap", "login", "logout", "getAuthSession",
             "changePassword", "listAuthMethods"}
    BY DEF AuthOperations
  <2> QED BY <2>1, OpsAssumption
<1>2. AuthQueries \subseteq Queries /\ Queries \subseteq Ops /\ Browser \in Clients
  BY ConsoleAssumption DEF Queries
<1> QED BY <1>1, <1>2 DEF SignIns, SignInOperation

\* A step of the console does nothing to the sessions, or sends, or receives; the
\* server and the environment do what they do to any client.
LEMMA ConsoleSends ==
    ASSUME [Next]_vars
    PROVE  [AuthStep]_authVars
<1>1. \A op : ClientSendsHeader(op) \in BOOLEAN
  BY DEF ClientSendsHeader
<1>2. ASSUME Effects PROVE [AuthStep]_authVars
  <2>1. ASSUME NEW k \in Queries, Mount(k) PROVE [AuthStep]_authVars
    BY <2>1 DEF Mount
  <2>2. ASSUME NEW k \in Queries, Transmit(k) PROVE [AuthStep]_authVars
    BY <1>1, <2>2, ConsoleOps DEF Transmit, AuthStep
  <2> QED BY <1>2, <2>1, <2>2 DEF Effects
<1>3. ASSUME Events PROVE [AuthStep]_authVars
  <2>1. ASSUME NEW k \in Queries, Poll(k) \/ Transmit(k) \/ QueryAnswered(k)
        PROVE  [AuthStep]_authVars
    BY <1>1, <2>1, ConsoleOps DEF Poll, Transmit, QueryAnswered, AuthStep
  <2>2. ASSUME NEW name \in Names, Submit(name) PROVE [AuthStep]_authVars
    BY <1>1, <2>2, ConsoleOps DEF Submit, AuthStep
  <2>3. ASSUME NEW op \in SignIns, SignInAnswered(op) PROVE [AuthStep]_authVars
    BY <2>3, ConsoleOps DEF SignInAnswered, AuthStep
  <2>4. CASE SignOut \/ SignOutAnswered
    BY <1>1, <2>4, ConsoleOps DEF SignOut, SignOutAnswered, AuthStep
  <2>5. ASSUME NEW p \in Visited, Navigate(p) PROVE [AuthStep]_authVars
    BY <2>5 DEF Navigate
  <2>6. CASE RetryPage \/ RetryBoot
    BY <2>6 DEF RetryPage, RetryBoot
  <2>7. CASE Reload \/ Reconnect
    BY <2>7, ConsoleOps DEF Reload, Reconnect, AuthStep
  <2>8. CASE ServerStep \/ Environment
    BY <2>8, ConsoleOps DEF ServerStep, Environment, AuthStep
  <2> QED BY <1>3, <2>1, <2>2, <2>3, <2>4, <2>5, <2>6, <2>7, <2>8 DEF Events
<1>4. CASE UNCHANGED vars
  BY <1>4 DEF vars, authVars
<1> QED BY <1>2, <1>3, <1>4 DEF Next

\* The console implements a client of Auth.
THEOREM ConsoleIsClient == Spec => ClientSpec
<1>1. Init => AuthInit
  BY DEF Init
<1>2. [Next]_vars => [AuthStep]_authVars
  BY ConsoleSends
<1> QED BY <1>1, <1>2, PTL DEF Spec, ClientSpec

\* With the console as a client, too, a sign-in has one token, a revoked one stays
\* revoked, renewal ends at the absolute limit, and of the
\* bootstraps that create one account one is signed in.
THEOREM ConsoleKeepsAuth ==
    Spec => /\ []AuthTypeOK /\ []OneTokenPerLogin /\ []OneBootstrapWins
            /\ RevokedStaysRevoked /\ AbsoluteLimitHolds
<1>1. AuthInv => AuthTypeOK /\ OneTokenPerLogin
  BY DEF AuthInv
<1> QED
  BY <1>1, ConsoleIsClient, ClientInvariance, ClientsFound, ClientsRevoke, ClientsLimit, PTL

-----------------------------------------------------------------------------
(* The inductive invariant.  Before the first sign-in no request has found *)
(* a session or been answered as if it had, and the session query has not  *)
(* succeeded.                                                              *)

Earned(op, r) ==
    \/ op \notin Anonymous /\ r.pc \in {"rotate", "touch", "handle", "revoke"}
    \/ op \notin Anonymous \ SignIns /\ r.pc = "replied" /\ Ok(r.status)

NoneEarned == issued = 0 => \A c \in Clients, op \in Ops : ~Earned(op, req[c][op])

NotSignedIn == issued = 0 => query["getAuthSession"].status # "success"

ConsoleInv == AuthInv /\ ConsoleTypeOK /\ NoneEarned /\ NotSignedIn

\* The shell is shown when the session query has succeeded, and only then.
LEMMA ShellHasSession ==
    ASSUME ConsoleTypeOK, Screen = "shell"
    PROVE  query["getAuthSession"].status = "success"
<1> DEFINE bootstrap == query["getAuthBootstrap"]
           session == query["getAuthSession"]
<1>1. /\ bootstrap.status \in {"pending", "success", "error"}
      /\ session.status \in {"pending", "success", "error"}
  BY ConsoleOps, EntryData DEF ConsoleTypeOK, AuthQueries
<1>2. Screen = CASE bootstrap.status = "pending" -> "boot"
                 [] bootstrap.status = "error" -> "offline"
                 [] bootstrap.status = "success" /\ bootstrap.data = "required" -> "claim"
                 [] bootstrap.status = "success" /\ bootstrap.data # "required" ->
                        CASE session.status = "pending" -> "restoring"
                          [] session.status = "error" -> "login"
                          [] session.status = "success" -> "shell"
  BY DEF Screen, ScreenOf
<1> HIDE DEF bootstrap, session
<1>3. session.status = "success"
  BY <1>1, <1>2
<1> QED BY <1>3 DEF session

\* So ConsoleInv keeps the shell from those who did not sign in.
LEMMA ShellInv ==
    ASSUME ConsoleInv
    PROVE  ShellNeedsSession
<1>1. issued \in Nat
  BY DEF ConsoleInv, AuthInv, AuthTypeOK
<1>2. Screen = "shell" => issued # 0
  BY ShellHasSession DEF ConsoleInv, NotSignedIn
<1> QED BY <1>1, <1>2 DEF ShellNeedsSession

-----------------------------------------------------------------------------
(* What the server answers before the first sign-in.                       *)

\* Without a sign-in there is no row, and only a sign-in changes that.
LEMMA NoRows ==
    ASSUME AuthInv, issued = 0
    PROVE  \A t \in Tokens : sessions[t] = NoRow
  BY DEF AuthInv, Rows

\* An answer that is no success earns nothing.
LEMMA RefusedEarnsNothing ==
    ASSUME NEW op \in Ops, NEW r \in Request, NEW status \in {400, 401, 403, 409, 429}
    PROVE  ~Earned(op, Reply(r, status)) /\ ~Earned(op, ClearingReply(r, status))
<1>1. status \in Nat /\ ~Ok(status)
  BY DEF Ok
<1>2. /\ Reply(r, status).pc = "replied" /\ Reply(r, status).status = status
      /\ ClearingReply(r, status).pc = "replied" /\ ClearingReply(r, status).status = status
  BY <1>1, ReplyOK
<1> QED BY <1>1, <1>2 DEF Earned

\* The middleware admits only what needs no session.
LEMMA SecureEarnsNothing ==
    ASSUME AuthInv, issued = 0, NEW c \in Clients, NEW op \in Ops, SecureOperation(c, op)
    PROVE  \E r : Goto(c, op, r) /\ ~Earned(op, r)
<1> DEFINE r == req[c][op]
<1>1. r \in Request /\ r.token \in Tokens \cup {NoToken}
  BY ReqHere
<1>2. \/ Goto(c, op, Reply(r, 403))
      \/ op \in Anonymous /\ Goto(c, op, Admit(op, r))
      \/ Goto(c, op, Reply(r, 401))
      \/ Goto(c, op, ClearingReply(r, 401))
  <2>1. r.token # NoToken => sessions[r.token] = NoRow
    BY <1>1, NoRows
  <2> QED BY <2>1 DEF SecureOperation, Authenticate
<1>3. ASSUME op \in Anonymous PROVE ~Earned(op, Admit(op, r))
  <2>1. CASE op \in SignIns
    <3>1. op \in DOMAIN AuthOperations \ {"getAuthSession"}
      BY <2>1 DEF SignIns, AuthOperations
    <3>2. Admit(op, r).pc = "handle"
      BY <1>1, <3>1 DEF Admit, Request
    <3> QED BY <1>3, <3>2 DEF Earned
  <2>2. CASE op \notin SignIns
    BY <1>3, <2>2 DEF Earned
  <2> QED BY <2>1, <2>2
<1> HIDE DEF r
<1>4. /\ ~Earned(op, Reply(r, 403))
      /\ ~Earned(op, Reply(r, 401)) /\ ~Earned(op, ClearingReply(r, 401))
  BY <1>1, RefusedEarnsNothing
<1> QED BY <1>2, <1>3, <1>4

\* No step of a request earns anything while nobody is signed in.
LEMMA ServeEarnsNothing ==
    ASSUME AuthInv, NoneEarned, issued = 0, issued' = 0,
           NEW c \in Clients, NEW op \in Ops, Serve(c, op)
    PROVE  \E r : Goto(c, op, r) /\ ~Earned(op, r)
<1> DEFINE r == req[c][op]
           moved(pc) == [r EXCEPT !.pc = pc]
<1>1. r \in Request /\ ReqOK(op, r) /\ ~Earned(op, r)
  BY ReqHere DEF NoneEarned
<1>2. \A pc \in {"create", "issue"} : ~Earned(op, moved(pc))
  <2>1. \A pc \in {"create", "issue"} : moved(pc).pc = pc
    BY <1>1 DEF Request
  <2> HIDE DEF moved
  <2> QED BY <2>1 DEF Earned
<1>3. CASE SecureOperation(c, op)
  BY <1>3, SecureEarnsNothing
<1>4. ~Rotate(c, op) /\ ~Touch(c, op)
  BY <1>1 DEF Rotate, Touch, ReqOK, Earned
<1>5. ASSUME op = "getAuthBootstrap", GetAuthBootstrap(c)
      PROVE  \E r2 : Goto(c, op, r2) /\ ~Earned(op, r2)
  <2>1. op \in Anonymous \ SignIns
    BY <1>5 DEF Anonymous, SignIns
  <2>2. \A r2 : ~Earned(op, r2)
    BY <2>1 DEF Earned
  <2> QED BY <1>5, <2>2 DEF GetAuthBootstrap
<1>6. CASE op = "createAuthBootstrap" /\ (CreateAuthBootstrap(c) \/ CreateUser(c))
  <2>1. \/ \E status \in {400, 401, 403, 409, 429} : Goto(c, op, Reply(r, status))
        \/ \E pc \in {"create", "issue"} : Goto(c, op, moved(pc))
    BY <1>6 DEF CreateAuthBootstrap, CreateUser
  <2> HIDE DEF r, moved
  <2>2. CASE \E status \in {400, 401, 403, 409, 429} : Goto(c, op, Reply(r, status))
    BY <1>1, <2>2, RefusedEarnsNothing
  <2>3. CASE \E pc \in {"create", "issue"} : Goto(c, op, moved(pc))
    BY <1>2, <2>3
  <2> QED BY <2>1, <2>2, <2>3
<1>7. CASE op = "login" /\ Login(c)
  <2>1. \/ \E status \in {400, 401, 403, 409, 429} : Goto(c, op, Reply(r, status))
        \/ \E pc \in {"create", "issue"} : Goto(c, op, moved(pc))
    BY <1>7 DEF Login
  <2> HIDE DEF r, moved
  <2>2. CASE \E status \in {400, 401, 403, 409, 429} : Goto(c, op, Reply(r, status))
    BY <1>1, <2>2, RefusedEarnsNothing
  <2>3. CASE \E pc \in {"create", "issue"} : Goto(c, op, moved(pc))
    BY <1>2, <2>3
  <2> QED BY <2>1, <2>2, <2>3
<1>8. /\ ~(op = "logout" /\ Logout(c))
      /\ ~(op = "changePassword" /\ (ChangePassword(c) \/ UpdatePassword(c)))
  BY <1>1, WhoNeedsASession DEF Logout, ChangePassword, UpdatePassword, Handling, Earned
<1>9. ~IssueSession(c, op)
  BY DEF IssueSession
<1> QED BY <1>3, <1>4, <1>5, <1>6, <1>7, <1>8, <1>9 DEF Serve

\* Nobody signs out of a sign-in: their number never falls.
LEMMA IssuedGrows ==
    ASSUME AuthInv, [AuthStep]_authVars, issued' = 0
    PROVE  issued = 0
<1>1. TableEffect /\ issued \in Nat
  BY StepOK DEF AuthInv, AuthTypeOK
<1> QED BY <1>1 DEF TableEffect, Shrinks, Renews, Issues

\* A request that is dropped or broken has earned nothing.
LEMMA DroppedEarnsNothing ==
    ASSUME NEW op
    PROVE  ~Earned(op, Idle) /\ ~Earned(op, BrokenReply)
<1>1. Idle.pc = "idle" /\ BrokenReply.pc = "replied" /\ BrokenReply.status = 0
  BY DEF Idle, BrokenReply
<1> QED BY <1>1 DEF Earned, Ok

\* Every step of the clients keeps NoneEarned.
LEMMA NoneEarnedStep ==
    ASSUME AuthInv, NoneEarned, [AuthStep]_authVars
    PROVE  NoneEarned'
<1> SUFFICES ASSUME issued' = 0
             PROVE  \A c \in Clients, op \in Ops : ~Earned(op, req'[c][op])
  BY DEF NoneEarned, Earned
<1>1. /\ AuthTypeOK /\ issued = 0
      /\ \A c \in Clients, op \in Ops : ~Earned(op, req[c][op])
  BY IssuedGrows DEF AuthInv, NoneEarned
<1>2. ASSUME NEW c \in Clients, NEW op \in Ops, NEW r, Goto(c, op, r), ~Earned(op, r)
      PROVE  \A c2 \in Clients, op2 \in Ops : ~Earned(op2, req'[c2][op2])
  BY <1>1, <1>2, GotoValue
<1>3. ASSUME NEW c \in Clients, NEW op \in Ops, NEW header \in BOOLEAN,
             NEW name \in Names \cup {""}, Send(c, op, header, name)
      PROVE  \A c2 \in Clients, op2 \in Ops : ~Earned(op2, req'[c2][op2])
  <2> DEFINE r == [Idle EXCEPT !.pc = "arrived", !.header = header, !.token = Sent(c), !.name = name]
  <2>1. Goto(c, op, r) /\ r.pc = "arrived"
    BY <1>3 DEF Send, Idle
  <2> HIDE DEF r
  <2>2. ~Earned(op, r)
    BY <2>1 DEF Earned
  <2> QED BY <1>2, <2>1, <2>2
<1>4. ASSUME NEW c \in Clients, NEW op \in Ops, Serve(c, op)
      PROVE  \A c2 \in Clients, op2 \in Ops : ~Earned(op2, req'[c2][op2])
  BY <1>1, <1>2, <1>4, ServeEarnsNothing
<1>5. ASSUME NEW c \in Clients, NEW op \in Ops, Deliver(c, op) \/ LoseConnection(c, op)
      PROVE  \A c2 \in Clients, op2 \in Ops : ~Earned(op2, req'[c2][op2])
  BY <1>2, <1>5, DroppedEarnsNothing DEF Deliver, LoseConnection
<1>6. ASSUME \A c \in Clients, op \in Ops : req'[c][op] \in {req[c][op], Idle, BrokenReply}
      PROVE  \A c2 \in Clients, op2 \in Ops : ~Earned(op2, req'[c2][op2])
  <2> SUFFICES ASSUME NEW c \in Clients, NEW op \in Ops PROVE ~Earned(op, req'[c][op])
    OBVIOUS
  <2>1. req'[c][op] \in {req[c][op], Idle, BrokenReply} /\ ~Earned(op, req[c][op])
    BY <1>1, <1>6
  <2> QED BY <2>1, DroppedEarnsNothing
<1>7. ASSUME NEW c \in Clients, req' = [req EXCEPT ![c] = [op \in Ops |-> Idle]]
      PROVE  \A c2 \in Clients, op2 \in Ops : ~Earned(op2, req'[c2][op2])
  <2>1. \A c2 \in Clients, op \in Ops : req'[c2][op] \in {req[c2][op], Idle, BrokenReply}
    BY <1>1, <1>7 DEF AuthTypeOK
  <2> QED BY <1>6, <2>1
<1>8. ASSUME Restart PROVE \A c2 \in Clients, op2 \in Ops : ~Earned(op2, req'[c2][op2])
  <2>1. \A c \in Clients, op \in Ops : req'[c][op] \in {req[c][op], Idle, BrokenReply}
    BY <1>8 DEF Restart
  <2> QED BY <1>6, <2>1
<1>9. CASE UNCHANGED req
  BY <1>1, <1>9
<1> QED
  BY <1>3, <1>4, <1>5, <1>7, <1>8, <1>9
     DEF AuthStep, DeliverAndLeave, Leave, Tick, ClientFault, authVars

-----------------------------------------------------------------------------
(* The cache of the console.                                               *)

Data == {"required", "ready", "held"}

Caches == [Queries -> QueryEntries(Data)]

\* A cache in which the session query has succeeded only if it had in q.
NoNewSession(q, r) ==
    r["getAuthSession"].status = "success" => q["getAuthSession"].status = "success"

\* The query of the session, and the caches of the type invariant.
LEMMA CacheHere ==
    ASSUME ConsoleTypeOK
    PROVE  /\ query \in Caches /\ page \in Visited /\ pending \in BOOLEAN
           /\ "getAuthSession" \in Queries /\ "getAuthBootstrap" \in Queries
           /\ EmptyCache \in Caches /\ EmptyCache["getAuthSession"].status = "pending"
<1>1. "getAuthSession" \in Queries /\ "getAuthBootstrap" \in Queries
  BY ConsoleOps DEF AuthQueries
<1>2. EmptyCache \in Caches /\ EmptyCache["getAuthSession"].status = "pending"
  BY <1>1, EmptyOK DEF EmptyCache, Caches
<1> QED BY <1>1, <1>2 DEF ConsoleTypeOK, Caches, Data

\* Some queries fetch.
LEMMA SomeFetchOK ==
    ASSUME NEW q \in Caches, NEW K, "getAuthSession" \in Queries
    PROVE  LET r == [k \in Queries |-> IF k \in K THEN Fetch(q[k]) ELSE q[k]] IN
           r \in Caches /\ NoNewSession(q, r)
<1>1. \A k \in Queries : /\ Fetch(q[k]) \in QueryEntries(Data) /\ q[k] \in QueryEntries(Data)
                         /\ Fetch(q[k]).status = "success" => q[k].status = "success"
  <2> SUFFICES ASSUME NEW k \in Queries
               PROVE  /\ Fetch(q[k]) \in QueryEntries(Data) /\ q[k] \in QueryEntries(Data)
                      /\ Fetch(q[k]).status = "success" => q[k].status = "success"
    OBVIOUS
  <2>1. q[k] \in QueryEntries(Data)
    BY DEF Caches
  <2> QED BY <2>1, FetchOK
<1> DEFINE next(k) == IF k \in K THEN Fetch(q[k]) ELSE q[k]
           r == [k \in Queries |-> next(k)]
<1>2. \A k \in Queries : /\ next(k) \in QueryEntries(Data)
                         /\ next(k).status = "success" => q[k].status = "success"
  BY <1>1
<1> HIDE DEF next
<1>3. r \in Caches /\ NoNewSession(q, r)
  BY <1>2 DEF Caches, NoNewSession
<1> QED BY <1>3 DEF next

\* Mounting a page fetches.
LEMMA MountPageOK ==
    ASSUME NEW q \in Caches, NEW p, NEW stale, "getAuthSession" \in Queries
    PROVE  MountPage(q, p, stale) \in Caches /\ NoNewSession(q, MountPage(q, p, stale))
<1> DEFINE K == {k \in PageQueries[p] : k \in stale \/ q[k].status # "success"}
<1>1. MountPage(q, p, stale) = [k \in Queries |-> IF k \in K THEN Fetch(q[k]) ELSE q[k]]
  BY DEF MountPage
<1> HIDE DEF K
<1> QED BY <1>1, SomeFetchOK

\* The cache becomes q, with or without a page mounted on it.
LEMMA SetQueryOK ==
    ASSUME ConsoleTypeOK, NEW q \in Caches, SetQuery(q)
    PROVE  query' \in Caches /\ NoNewSession(q, query')
<1>1. "getAuthSession" \in Queries
  BY CacheHere
<1>2. PICK stale : query' = q \/ query' = MountPage(q, page, stale)
  BY DEF SetQuery
<1> QED BY <1>1, <1>2, MountPageOK DEF NoNewSession

\* A query's entry is replaced by one that is no new success of the session.
LEMMA EntrySetOK ==
    ASSUME NEW q \in Caches, NEW k \in Queries, NEW e \in QueryEntries(Data),
           k = "getAuthSession" /\ e.status = "success" => q[k].status = "success",
           "getAuthSession" \in Queries
    PROVE  [q EXCEPT ![k] = e] \in Caches /\ NoNewSession(q, [q EXCEPT ![k] = e])
<1>1. [q EXCEPT ![k] = e] \in Caches
  BY DEF Caches
<1>2. [q EXCEPT ![k] = e]["getAuthSession"] =
          IF k = "getAuthSession" THEN e ELSE q["getAuthSession"]
  BY DEF Caches
<1> QED BY <1>1, <1>2 DEF NoNewSession

-----------------------------------------------------------------------------
(* The steps of the console.  Each leaves the cache one of its type, and   *)
(* the session query succeeds only when somebody has signed in.            *)

CacheStep ==
    /\ query' \in Caches
    /\ NoNewSession(query, query') \/ issued # 0

\* Queries start to fetch.
LEMMA FetchStepOK ==
    ASSUME ConsoleInv,
           \/ \E k \in Queries : Mount(k) \/ Poll(k)
           \/ RetryPage \/ RetryBoot \/ Reconnect
    PROVE  CacheStep
<1>1. /\ ConsoleTypeOK /\ query \in Caches
      /\ "getAuthSession" \in Queries /\ "getAuthBootstrap" \in Queries
  BY CacheHere DEF ConsoleInv
<1>2. ASSUME NEW q \in Caches, NoNewSession(query, q), SetQuery(q) PROVE CacheStep
  BY <1>1, <1>2, SetQueryOK DEF NoNewSession, CacheStep
<1>3. ASSUME NEW k \in Queries, SetQuery([query EXCEPT ![k] = Fetch(@)]) PROVE CacheStep
  <2>1. query[k] \in QueryEntries(Data)
    BY <1>1 DEF Caches
  <2>2. Fetch(query[k]) \in QueryEntries(Data) /\ (Fetch(query[k]).status = "success" => query[k].status = "success")
    BY <2>1, FetchOK
  <2>3. /\ [query EXCEPT ![k] = Fetch(query[k])] \in Caches
        /\ NoNewSession(query, [query EXCEPT ![k] = Fetch(query[k])])
    BY <1>1, <2>2, EntrySetOK
  <2> QED BY <1>2, <1>3, <2>3
<1>4. ASSUME NEW K, SetQuery([k \in Queries |-> IF k \in K THEN Fetch(query[k]) ELSE query[k]])
      PROVE  CacheStep
  BY <1>1, <1>2, <1>4, SomeFetchOK
<1>5. ASSUME NEW k \in Queries, Mount(k) \/ Poll(k) PROVE CacheStep
  BY <1>3, <1>5 DEF Mount, Poll
<1>6. CASE RetryPage
  BY <1>4, <1>6 DEF RetryPage
<1>7. CASE RetryBoot
  BY <1>1, <1>3, <1>7 DEF RetryBoot
<1>8. CASE Reconnect
  <2>1. PICK stale : SetQuery([k \in Queries |-> IF k \in stale /\ Mounted(k) THEN Fetch(query[k]) ELSE query[k]])
    BY <1>8 DEF Reconnect
  <2> DEFINE K == {k \in stale : Mounted(k)}
  <2>2. [k \in Queries |-> IF k \in stale /\ Mounted(k) THEN Fetch(query[k]) ELSE query[k]]
            = [k \in Queries |-> IF k \in K THEN Fetch(query[k]) ELSE query[k]]
    OBVIOUS
  <2> HIDE DEF K
  <2> QED BY <1>4, <2>1, <2>2
<1> QED BY <1>5, <1>6, <1>7, <1>8

\* An answer to a query: the session's is a success only to one who signed in.
LEMMA QueryAnsweredOK ==
    ASSUME ConsoleInv, NEW k \in Queries, QueryAnswered(k)
    PROVE  CacheStep
<1> DEFINE reply == req[Browser][k]
           e == IF Ok(reply.status) THEN Resolve(Answer(k, reply)) ELSE Reject(query[k], Retries(k))
<1>1. /\ ConsoleTypeOK /\ query \in Caches /\ "getAuthSession" \in Queries
      /\ query[k] \in QueryEntries(Data)
  BY CacheHere DEF ConsoleInv, Caches
<1>2. SetQuery([query EXCEPT ![k] = e]) /\ reply.pc = "replied"
  BY DEF QueryAnswered, Deliver, Receive
<1>3. e \in QueryEntries(Data)
  <2>1. Answer(k, reply) \in Data /\ Retries(k) \in {0, 1}
    BY DEF Answer, Data, Retries, DefaultRetries
  <2>2. Resolve(Answer(k, reply)) \in QueryEntries(Data)
    BY <2>1, ResolveOK
  <2>3. Reject(query[k], Retries(k)) \in QueryEntries(Data)
    BY <1>1, <2>1, RejectOK
  <2> QED BY <2>2, <2>3
<1>4. CASE k = "getAuthSession" /\ Ok(reply.status)
  <2>1. k \notin Anonymous /\ k \in Ops /\ Browser \in Clients
    BY <1>4, ConsoleOps DEF Anonymous
  <2>2. issued # 0
    BY <1>2, <1>4, <2>1 DEF ConsoleInv, NoneEarned, Earned
  <2> HIDE DEF e
  <2>3. [query EXCEPT ![k] = e] \in Caches
    BY <1>1, <1>3 DEF Caches
  <2> QED BY <1>1, <1>2, <2>2, <2>3, SetQueryOK DEF CacheStep
<1>5. CASE ~(k = "getAuthSession" /\ Ok(reply.status))
  <2>1. ASSUME k = "getAuthSession", e.status = "success" PROVE query[k].status = "success"
    <3>1. e = Reject(query[k], Retries(k)) /\ Retries(k) \in {0, 1}
      BY <1>5, <2>1 DEF Retries, DefaultRetries
    <3> HIDE DEF e
    <3> QED BY <1>1, <2>1, <3>1, RejectOK
  <2> HIDE DEF e
  <2>2. [query EXCEPT ![k] = e] \in Caches /\ NoNewSession(query, [query EXCEPT ![k] = e])
    BY <1>1, <1>3, <2>1, EntrySetOK
  <2> QED BY <1>1, <1>2, <2>2, SetQueryOK DEF NoNewSession, CacheStep
<1> QED BY <1>4, <1>5

\* An answer to a sign-in: a success has issued a session.
LEMMA SignInAnsweredOK ==
    ASSUME ConsoleInv, NEW op \in SignIns, SignInAnswered(op)
    PROVE  CacheStep
<1> DEFINE reply == req[Browser][op]
           boot == [query EXCEPT !["getAuthBootstrap"] = SetQueryData(@, "ready")]
<1>1. /\ ConsoleTypeOK /\ query \in Caches
      /\ "getAuthSession" \in Queries /\ "getAuthBootstrap" \in Queries
  BY CacheHere DEF ConsoleInv
<1>2. /\ SetQuery(IF Ok(reply.status) THEN AuthenticateSuccess(query) ELSE query)
      /\ reply.pc = "replied"
  BY DEF SignInAnswered, Deliver, Receive
<1>3. CASE Ok(reply.status)
  <2>1. op \in Ops /\ op \notin Anonymous \ SignIns /\ Browser \in Clients
    BY ConsoleOps
  <2>2. issued # 0
    BY <1>2, <1>3, <2>1 DEF ConsoleInv, NoneEarned, Earned
  <2>3. AuthenticateSuccess(query) \in Caches
    <3>1. \A k \in Queries, d \in Data : SetQueryData(query[k], d) \in QueryEntries(Data)
      <4> SUFFICES ASSUME NEW k \in Queries, NEW d \in Data
                   PROVE  SetQueryData(query[k], d) \in QueryEntries(Data)
        OBVIOUS
      <4>1. query[k] \in QueryEntries(Data)
        BY <1>1 DEF Caches
      <4> QED BY <4>1, SetDataOK
    <3>2. "ready" \in Data /\ "held" \in Data /\ "getAuthSession" # "getAuthBootstrap"
      BY DEF Data
    <3>3. AuthenticateSuccess(query) =
              [query EXCEPT !["getAuthBootstrap"] = SetQueryData(query["getAuthBootstrap"], "ready"),
                            !["getAuthSession"] = SetQueryData(query["getAuthSession"], "held")]
      BY <1>1 DEF AuthenticateSuccess, Caches
    <3> QED BY <1>1, <3>1, <3>2, <3>3 DEF Caches
  <2> QED BY <1>1, <1>2, <1>3, <2>2, <2>3, SetQueryOK DEF CacheStep
<1>4. CASE ~Ok(reply.status)
  BY <1>1, <1>2, <1>4, SetQueryOK DEF CacheStep
<1> QED BY <1>3, <1>4

\* Another page: its entries are collected and its queries mounted.
LEMMA NavigateOK ==
    ASSUME ConsoleInv, NEW p \in Visited, Navigate(p)
    PROVE  CacheStep
<1>1. ConsoleTypeOK /\ query \in Caches /\ "getAuthSession" \in Queries
  BY CacheHere DEF ConsoleInv
<1> DEFINE q == Collected(query, p)
<1>2. q \in Caches /\ NoNewSession(query, q)
  <2>1. EmptyQuery \in QueryEntries(Data) /\ EmptyQuery.status = "pending"
    BY EmptyOK
  <2> QED BY <1>1, <2>1 DEF Collected, Caches, NoNewSession
<1>3. PICK stale : query' = MountPage(q, p, stale)
  BY DEF Navigate
<1> HIDE DEF q
<1> QED BY <1>1, <1>2, <1>3, MountPageOK DEF NoNewSession, CacheStep

\* Signing out and reloading empty the cache, or leave it.
LEMMA EmptiedOK ==
    ASSUME ConsoleInv, SignOutAnswered \/ Reload
    PROVE  CacheStep
<1>1. query \in Caches /\ EmptyCache \in Caches /\ EmptyCache["getAuthSession"].status = "pending"
  BY CacheHere DEF ConsoleInv
<1>2. query' = EmptyCache \/ query' = query
  BY DEF SignOutAnswered, Reload, consoleVars
<1> QED BY <1>1, <1>2 DEF CacheStep, NoNewSession

\* Requests, the server and the environment leave the cache alone.
LEMMA CacheKept ==
    ASSUME ConsoleInv, UNCHANGED query
    PROVE  CacheStep
  BY CacheHere DEF ConsoleInv, CacheStep, NoNewSession

\* Every step does one of these, and keeps the types of the route and the form.
LEMMA ConsoleStep ==
    ASSUME ConsoleInv, [Next]_vars
    PROVE  CacheStep /\ page' \in Visited /\ pending' \in BOOLEAN
<1>1. CacheStep
  <2>1. CASE Effects
    BY <2>1, FetchStepOK, CacheKept DEF Effects, Transmit, consoleVars
  <2>2. CASE Events
    <3>1. ASSUME NEW k \in Queries, Poll(k) \/ Transmit(k) \/ QueryAnswered(k) PROVE CacheStep
      BY <3>1, FetchStepOK, QueryAnsweredOK, CacheKept DEF Transmit, consoleVars
    <3>2. ASSUME NEW name \in Names, Submit(name) PROVE CacheStep
      BY <3>2, CacheKept DEF Submit
    <3>3. CASE SignOut \/ ServerStep \/ Environment
      BY <3>3, CacheKept DEF SignOut, ServerStep, Environment, consoleVars
    <3> QED
      BY <2>2, <3>1, <3>2, <3>3, FetchStepOK, SignInAnsweredOK, NavigateOK, EmptiedOK DEF Events
  <2>3. CASE UNCHANGED vars
    BY <2>3, CacheKept DEF vars
  <2> QED BY <2>1, <2>2, <2>3 DEF Next
<1>2. page \in Visited /\ pending \in BOOLEAN
  BY DEF ConsoleInv, ConsoleTypeOK
<1>3. page' \in Visited
  BY <1>2, ConsoleAssumption
     DEF Next, Effects, Events, Mount, Transmit, Poll, QueryAnswered, Submit, SignInAnswered, SignOut,
         SignOutAnswered, Navigate, RetryPage, RetryBoot, Reload, Reconnect, ServerStep, Environment,
         consoleVars, vars
<1>4. pending' \in BOOLEAN
  BY <1>2
     DEF Next, Effects, Events, Mount, Transmit, Poll, QueryAnswered, Submit, SignInAnswered, SignOut,
         SignOutAnswered, Navigate, RetryPage, RetryBoot, Reload, Reconnect, ServerStep, Environment,
         consoleVars, vars, KeepForm
<1> QED BY <1>1, <1>3, <1>4

-----------------------------------------------------------------------------
(* The theorems.                                                           *)

\* The invariant holds of every state of the specification.
THEOREM ConsoleInvariance == Spec => []ConsoleInv
<1>1. Init => ConsoleInv
  <2> SUFFICES ASSUME Init PROVE ConsoleInv
    OBVIOUS
  <2>1. AuthInv
    BY AuthStart DEF Init
  <2>2. EmptyQuery \in QueryEntries(Data)
    BY EmptyOK
  <2>3. ConsoleTypeOK
    BY <2>2, ConsoleAssumption DEF Init, ConsoleTypeOK, EmptyCache, Data
  <2>4. NoneEarned
    <3>1. \A c \in Clients, op \in Ops : req[c][op] = Idle
      BY DEF Init, AuthInit
    <3> QED BY <3>1, DroppedEarnsNothing DEF NoneEarned
  <2>5. NotSignedIn
    BY <2>3, CacheHere DEF Init, NotSignedIn
  <2> QED BY <2>1, <2>3, <2>4, <2>5 DEF ConsoleInv
<1>2. ConsoleInv /\ [Next]_vars => ConsoleInv'
  <2> SUFFICES ASSUME ConsoleInv, [Next]_vars PROVE ConsoleInv'
    OBVIOUS
  <2>1. AuthInv /\ NoneEarned /\ NotSignedIn /\ [AuthStep]_authVars
    BY ConsoleSends DEF ConsoleInv
  <2>2. AuthInv' /\ NoneEarned'
    BY <2>1, AuthInvStep, NoneEarnedStep
  <2>3. CacheStep /\ page' \in Visited /\ pending' \in BOOLEAN
    BY ConsoleStep
  <2>4. ConsoleTypeOK'
    BY <2>3 DEF CacheStep, Caches, Data, ConsoleTypeOK
  <2>5. NotSignedIn'
    BY <2>1, <2>3, IssuedGrows DEF NotSignedIn, CacheStep, NoNewSession
  <2> QED BY <2>2, <2>4, <2>5 DEF ConsoleInv
<1> QED BY <1>1, <1>2, PTL DEF Spec

\* The route, the cache and the form keep their types.
THEOREM ConsoleTypeCorrect == Spec => []ConsoleTypeOK
<1>1. ConsoleInv => ConsoleTypeOK
  BY DEF ConsoleInv
<1> QED BY <1>1, ConsoleInvariance, PTL

\* The shell is shown only after a sign-in, whatever the order of the answers.
THEOREM ShellIsEarned == Spec => []ShellNeedsSession
<1>1. ConsoleInv => ShellNeedsSession
  BY ShellInv
<1> QED BY <1>1, ConsoleInvariance, PTL
=============================================================================
