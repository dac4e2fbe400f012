-------------------------- MODULE ConsoleSession ---------------------------
(***************************************************************************)
(* The console in one browser tab, up to the pages: AuthBoundary, AuthPage,*)
(* AppShell and the queries a page keeps mounted, as a client of Auth.     *)
(*                                                                         *)
(* A query is a member of the cache `query`, named by the operation it     *)
(* calls.  The answers of page queries are not told apart here; what the   *)
(* configuration page does with them is in ConsoleConfig.                  *)
(***************************************************************************)
EXTENDS Auth, QueryCache

CONSTANTS
    Browser,        \* the client the console runs in
    Visited         \* the pages the user goes to

VARIABLES
    page,           \* the route shown inside the shell
    query,          \* the query cache: operation -> entry
    pending         \* AuthPage: a sign-in is under way

vars == <<clock, startedAt, users, sessions, issued, jar, req, faults, page, query, pending>>

consoleVars == <<page, query, pending>>

\* ---- the queries of the console --------------------------------------------

\* The routes and the queries each page keeps mounted (useQuery).
OverviewQueries == {"getStatusSummary", "getConfigStatus"}

ConfigurationQueries == {"getConfigDraft", "listConfigObjects"}

RuntimeQueries ==
    {"getStatusSummary", "listStatusListeners", "listStatusClusters", "listStatusRoutes", "listStatusCerts"}

CertificatesQueries == {"listCertificates"}

ExpertQueries == {"getCompiledConfig"}

SystemQueries == {"getSystemInfo"}

PageQueries ==
    [overview |-> OverviewQueries, configuration |-> ConfigurationQueries,
     runtime |-> RuntimeQueries, certificates |-> CertificatesQueries,
     expert |-> ExpertQueries, system |-> SystemQueries]

\* Queries with a refetchInterval.
Polled == RuntimeQueries

AuthQueries == {"getAuthBootstrap", "getAuthSession"}

Queries == AuthQueries \cup UNION {PageQueries[p] : p \in Visited}

\* Faulty variant: more retries than the client is configured with.
TwoRetriesEach(k) == 2

Retries(k) == IF k = "getAuthSession" THEN 0 ELSE DefaultRetries

ASSUME ConsoleAssumption ==
    /\ Browser \in Clients
    /\ "overview" \in Visited /\ Visited \subseteq DOMAIN PageQueries
    /\ Queries \subseteq Ops

\* ---- what is on the screen -------------------------------------------------

\* AuthBoundary.
ScreenOf(q) ==
    LET bootstrap == q["getAuthBootstrap"]
        session == q["getAuthSession"]
    IN  CASE bootstrap.status = "pending" -> "boot"
          [] bootstrap.status = "error" -> "offline"
          [] bootstrap.status = "success" /\ bootstrap.data = "required" -> "claim"
          [] bootstrap.status = "success" /\ bootstrap.data # "required" ->
                 CASE session.status = "pending" -> "restoring"
                   [] session.status = "error" -> "login"
                   [] session.status = "success" -> "shell"

Screen == ScreenOf(query)

AuthPage(q) == ScreenOf(q) \in {"claim", "login"}

\* Faulty variant: the condition of the session query negated.
MountedInverted(k) ==
    \/ k = "getAuthBootstrap"
    \/ k = "getAuthSession" /\ query["getAuthBootstrap"].data = "required"
    \/ k \in PageQueries[page] /\ Screen = "shell"

\* useQuery's enabled: the session query waits for the bootstrap answer.
Mounted(k) ==
    \/ k = "getAuthBootstrap"
    \/ k = "getAuthSession" /\ query["getAuthBootstrap"].data = "ready"
    \/ k \in PageQueries[page] /\ Screen = "shell"

\* The form's state goes with the AuthPage that holds it.
KeepForm(q, isPending) == pending' = (AuthPage(q) /\ isPending)

\* Faulty variant: what is not stale is not fetched, an entry without a result included.
MountStale(q, p, stale) ==
    [k \in Queries |-> IF k \in PageQueries[p] \cap stale THEN Fetch(q[k]) ELSE q[k]]

\* Mounting page p on cache q: queries without a result, or with a failed one,
\* are fetched; the others when they are older than the stale time.
MountPage(q, p, stale) ==
    [k \in Queries |->
        IF k \in PageQueries[p] /\ (k \in stale \/ q[k].status # "success") THEN Fetch(q[k]) ELSE q[k]]

\* The cache becomes q; the page is mounted when that brings up the shell.
SetQuery(q) ==
    \E stale \in {{}, PageQueries[page]} :
        query' = IF ScreenOf(q) = "shell" /\ Screen # "shell" THEN MountPage(q, page, stale) ELSE q

EmptyCache == [k \in Queries |-> EmptyQuery]

Init ==
    /\ AuthInit
    /\ page = "overview"
    /\ query = EmptyCache
    /\ pending = FALSE

\* ---- queries ---------------------------------------------------------------

\* The boundary's queries start to fetch when they are enabled.
Mount(k) ==
    /\ k \in AuthQueries /\ Mounted(k)
    /\ query[k].status = "pending" /\ ~query[k].fetching
    /\ SetQuery([query EXCEPT ![k] = Fetch(@)])
    /\ KeepForm(query', pending)
    /\ UNCHANGED page /\ UNCHANGED authVars

\* An interval timer of the page refetches.
Poll(k) ==
    /\ k \in Polled
    /\ Mounted(k)
    /\ ~query[k].fetching
    /\ SetQuery([query EXCEPT ![k] = Fetch(@)])
    /\ KeepForm(query', pending)
    /\ UNCHANGED page /\ UNCHANGED authVars

\* The attempt goes out, the first one or a retry, with the cookie of now.
Transmit(k) ==
    /\ query[k].fetching
    /\ Send(Browser, k, ClientSendsHeader(k), "")
    /\ UNCHANGED consoleVars

\* Faulty variant: an answer of any kind is a result.
AnyAnswer(status) == status # 0

\* unwrap and unwrapVoid: anything but a 2xx is thrown.
Ok(status) == status \in 200..299

Answer(k, reply) ==
    IF k = "getAuthBootstrap" THEN (IF reply.required THEN "required" ELSE "ready") ELSE "held"

QueryAnswered(k) ==
    LET reply == req[Browser][k] IN
    /\ Deliver(Browser, k)
    /\ SetQuery([query EXCEPT ![k] = IF Ok(reply.status)
                                       THEN Resolve(Answer(k, reply))
                                       ELSE Reject(@, Retries(k))])
    /\ KeepForm(query', pending)
    /\ UNCHANGED page

\* ---- AuthPage ----------------------------------------------------------------

\* Bound: a sign-in takes one of the MaxFaults, so that without one there are enough
\* of them for a query to use up its retries.
SigningIn == \E op \in SignIns : req[Browser][op].pc # "idle"

FaultLeft == faults + 1 < MaxFaults \/ (faults < MaxFaults /\ issued = 0 /\ ~SigningIn)

SignInOperation == IF Screen = "claim" THEN "createAuthBootstrap" ELSE "login"

\* One sign-in at a time: a form that was unmounted while its request was out
\* waits for it here.
Submit(name) ==
    /\ AuthPage(query)
    /\ ~pending
    /\ ~SigningIn /\ FaultLeft
    /\ Send(Browser, SignInOperation, ClientSendsHeader(SignInOperation), name)
    /\ pending' = TRUE
    /\ UNCHANGED <<page, query>>

\* The authenticate mutation: its onSuccess fills both queries.
AuthenticateSuccess(q) ==
    [q EXCEPT !["getAuthBootstrap"] = SetQueryData(@, "ready"),
              !["getAuthSession"] = SetQueryData(@, "held")]

\* Faulty variant: pending is reset after a success only.
SubmitSettledOnSuccess(ok) == ~ok

\* The finally of submit, whatever the answer; an error only adds its message.
SubmitSettled(ok) == FALSE

SignInAnswered(op) ==
    LET reply == req[Browser][op] IN
    /\ op \in SignIns
    /\ Deliver(Browser, op)
    /\ SetQuery(IF Ok(reply.status) THEN AuthenticateSuccess(query) ELSE query)
    /\ KeepForm(query', SubmitSettled(Ok(reply.status)))
    /\ UNCHANGED page

\* ---- AppShell and navigation -------------------------------------------------

SignOut ==
    /\ Screen = "shell"
    /\ Send(Browser, "logout", ClientSendsHeader("logout"), "")
    /\ UNCHANGED consoleVars

\* Success empties the cache and loads "/" anew; a failure is not shown.
SignOutAnswered ==
    LET ok == Ok(req[Browser]["logout"].status) IN
    \/ /\ ok
       /\ DeliverAndLeave(Browser, "logout")
       /\ page' = "overview"
       /\ query' = EmptyCache
       /\ pending' = FALSE
    \/ /\ ~ok
       /\ Deliver(Browser, "logout")
       /\ UNCHANGED consoleVars

\* A link of the shell.  Bounds: nothing is under way, and one
\* comes back to it after its entries were collected (gcTime).
Collected(q, p) ==
    [k \in Queries |-> IF k \in PageQueries[page] \ PageQueries[p] THEN EmptyQuery ELSE q[k]]

Navigate(p) ==
    /\ Screen = "shell"
    /\ page # p
    /\ Busy(Browser) = {} /\ \A k \in PageQueries[page] : ~query[k].fetching
    /\ page' = p
    /\ \E stale \in {{}, PageQueries[p]} : query' = MountPage(Collected(query, p), p, stale)
    /\ UNCHANGED pending /\ UNCHANGED authVars

\* "Try again" of a page's ErrorBlock refetches all of its queries.
RetryPage ==
    /\ Screen = "shell"
    /\ \A k \in PageQueries[page] : query[k].status # "pending"
    /\ \E k \in PageQueries[page] : query[k].status = "error"
    /\ SetQuery([k \in Queries |-> IF k \in PageQueries[page] THEN Fetch(query[k]) ELSE query[k]])
    /\ KeepForm(query', pending)
    /\ UNCHANGED page /\ UNCHANGED authVars

\* "Try again" of the BootFailure screen.
RetryBoot ==
    /\ Screen = "offline"
    /\ ~query["getAuthBootstrap"].fetching
    /\ SetQuery([query EXCEPT !["getAuthBootstrap"] = Fetch(@)])
    /\ KeepForm(query', pending)
    /\ UNCHANGED page /\ UNCHANGED authVars

Reload ==
    /\ FaultLeft
    /\ Leave(Browser)
    /\ query' = EmptyCache
    /\ pending' = FALSE
    /\ UNCHANGED page

\* The browser reports that it is online again: mounted queries older than the
\* stale time refetch.  Bounds: no request survived the time offline; and the
\* boundary's queries refetch or the page's, whose ages differ, not all at once.
Reconnect ==
    /\ FaultLeft
    /\ Busy(Browser) = {}
    /\ ClientFault
    /\ \E stale \in {AuthQueries, PageQueries[page]} :
           SetQuery([k \in Queries |-> IF k \in stale /\ Mounted(k) THEN Fetch(query[k]) ELSE query[k]])
    /\ KeepForm(query', pending)
    /\ UNCHANGED page

\* ---- specification ---------------------------------------------------------------

ServerStep ==
    /\ \E op \in Ops : Serve(Browser, op)
    /\ UNCHANGED consoleVars

Environment ==
    /\ \/ Tick
       \/ FaultLeft /\ Restart
       \/ FaultLeft /\ \E op \in Ops : LoseConnection(Browser, op)
    /\ UNCHANGED consoleVars

\* What a render leads to in the same turn of the event loop: queries are
\* mounted and their first attempts sent, before anything else happens.
Effects ==
    \E k \in Queries : Mount(k) \/ (query[k].failures = 0 /\ Transmit(k))

Settled ==
    \A k \in Queries :
        /\ query[k].fetching /\ query[k].failures = 0 => req[Browser][k].pc # "idle"
        /\ k \in AuthQueries /\ Mounted(k) /\ query[k].status = "pending" => query[k].fetching

Events ==
    \/ \E k \in Queries : Poll(k) \/ Transmit(k) \/ QueryAnswered(k)
    \/ \E name \in Names : Submit(name)
    \/ \E op \in SignIns : SignInAnswered(op)
    \/ SignOut
    \/ SignOutAnswered
    \/ \E p \in Visited : Navigate(p)
    \/ RetryPage
    \/ RetryBoot
    \/ Reload
    \/ Reconnect
    \/ ServerStep
    \/ Environment

Next == Effects \/ (Settled /\ Events)

\* The steps of one request, which follow each other.
Progress(op) ==
    \/ op \in Queries /\ (Poll(op) \/ Transmit(op) \/ QueryAnswered(op))
    \/ SignInAnswered(op)
    \/ op = "logout" /\ SignOutAnswered
    \/ Serve(Browser, op) /\ UNCHANGED consoleVars

\* The browser's timers and callbacks run, and the server finishes what it
\* started; no user, script or clock is obliged to act.
Fairness ==
    /\ WF_vars(Effects)
    /\ \A op \in Queries \cup SignIns \cup {"logout"} : WF_vars(Progress(op))

Spec == Init /\ [][Next]_vars

FairSpec == Spec /\ Fairness

\* ---- properties ------------------------------------------------------------

\* The types of the route, the cache and the form.
ConsoleTypeOK ==
    /\ page \in Visited
    /\ query \in [Queries -> QueryEntries({"required", "ready", "held"})]
    /\ pending \in BOOLEAN

\* The shell, and with it every page, is shown only to a browser that was given
\* a session: no order of answers to the boundary's queries opens it otherwise.
ShellNeedsSession == Screen = "shell" => issued > 0

\* The console gets past its boot screens, also when requests fail, esgw
\* restarts or the page is reloaded (AuthBoundary's queries and retries).
BootSettles == Screen \in {"boot", "restoring"} ~> Screen \notin {"boot", "restoring"}

\* A submitted form becomes usable again, whatever the answer (AuthPage.submit).
SubmitSettles == pending ~> ~pending

\* The page shown is a LoadingBlock: one of its queries has no answer yet.
Loading == Screen = "shell" /\ \E k \in PageQueries[page] : query[k].status = "pending"

\* A page stops loading and shows its data or an error, also when the session ends
\* under it, the connection is lost, esgw restarts, or it was left and is entered
\* again (useQuery's fetch on mount, its retry, its interval).
LoadingEnds == Loading ~> ~Loading

\* A 401 brings the login page back without a reload.
ReturnsToLogin ==
    \A k \in Queries \ AuthQueries :
        (Screen = "shell" /\ req[Browser][k].pc = "replied" /\ req[Browser][k].status = 401)
            ~> Screen = "login"
=============================================================================
