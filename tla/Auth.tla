------------------------------- MODULE Auth --------------------------------
(***************************************************************************)
(* Sessions of the management plane: internal/auth with its tables, the    *)
(* middleware every API request passes (Server.secureOperation), the auth  *)
(* handlers, and the cookie jars of the clients.                           *)
(*                                                                         *)
(* A request occupies the slot req[c][op] from Send to Deliver.  Each      *)
(* statement that reads or writes the database is a step of its own, so    *)
(* that requests with the same cookie interleave between the lookup of a   *)
(* session and what is done with it.  Passwords are abstracted to right or *)
(* wrong, and the login limiter to answering 429 at will.                  *)
(***************************************************************************)
EXTENDS Integers, FiniteSets, ApiContract

CONSTANTS
    Ops,            \* the operations that are requested: those of auth, and reads
    Clients,        \* browsers and scripts, one cookie jar each
    Names,          \* account names
    Tokens,         \* what randomToken can draw
    NoToken,
    NoRow,
    IdleTTL,        \* lifetimes, in ticks of the clock
    AbsoluteTTL,
    BootstrapTTL,
    MaxClock,       \* bound: the clock stops here
    MaxLogins,      \* bound: sessions ever issued
    MaxInFlight,    \* bound: requests under way at once
    MaxFaults       \* bound: lost connections, restarts, reloads

ASSUME LifetimeAssumption ==
    /\ IdleTTL \in Nat \ {0} /\ AbsoluteTTL \in Nat \ {0} /\ BootstrapTTL \in Nat
    /\ MaxClock \in Nat /\ MaxLogins \in Nat /\ MaxInFlight \in Nat /\ MaxFaults \in Nat

ASSUME TokenAssumption == NoToken \notin Tokens

ASSUME OpsAssumption ==
    /\ DOMAIN AuthOperations \ {"listAuthMethods"} \subseteq Ops
    /\ "listAuthMethods" \notin Ops
    /\ \A op \in Ops \ DOMAIN AuthOperations : op \in Operations /\ Contract[op].method = "GET"

VARIABLES
    clock,
    startedAt,      \* when this esgw started: the bootstrap window opens
    users,          \* names in the users table
    sessions,       \* the sessions table: token (hash) -> row or NoRow
    issued,         \* sessions issued so far; numbers them
    jar,            \* client -> its session cookie
    req,            \* client -> operation -> request
    faults

authVars == <<clock, startedAt, users, sessions, issued, jar, req, faults>>

\* ---- data -----------------------------------------------------------------

Times == Nat

\* A row of the sessions table.  login numbers the sign-in it came from.
Row == [login : Nat, user : Names, created : Times, expires : Times, absolute : Times]

Cookie == [token : Tokens \cup {NoToken}, until : Times]

NoCookie == [token |-> NoToken, until |-> 0]

Idle ==
    [pc |-> "idle", header |-> FALSE, token |-> NoToken, name |-> "", sets |-> FALSE,
     cookie |-> NoCookie, status |-> 0, required |-> FALSE]

Steps == {"idle", "arrived", "rotate", "touch", "handle", "create", "issue", "revoke", "replied"}

Request ==
    [pc : Steps, header : BOOLEAN, token : Tokens \cup {NoToken}, name : Names \cup {""},
     sets : BOOLEAN, cookie : Cookie, status : Nat, required : BOOLEAN]

AuthInit ==
    /\ clock = 0
    /\ startedAt = 0
    /\ users \in {{}} \cup {{n} : n \in Names}    \* a new gateway, or one that has its administrator
    /\ sessions = [t \in Tokens |-> NoRow]
    /\ issued = 0
    /\ jar = [c \in Clients |-> NoCookie]
    /\ req = [c \in Clients |-> [op \in Ops |-> Idle]]
    /\ faults = 0

\* ---- a request and its answer ---------------------------------------------

Goto(c, op, r) == req' = [req EXCEPT ![c][op] = r]

\* The handler writes the answer; a cookie set on the way to it stays set.
Reply(r, status) ==
    [Idle EXCEPT !.pc = "replied", !.status = status, !.sets = r.sets, !.cookie = r.cookie]

\* Faulty variant: the cleared cookie's MaxAge of -1 taken for a time.
ClearingReplyMaxAge(r, status) ==
    [Reply(r, status) EXCEPT !.sets = TRUE, !.cookie = [token |-> NoToken, until |-> -1]]

ClearingReply(r, status) == [Reply(r, status) EXCEPT !.sets = TRUE, !.cookie = NoCookie]

BrokenReply == [Idle EXCEPT !.pc = "replied"]

Busy(c) == {op \in Ops : req[c][op].pc # "idle"}

SignIns == {"login", "createAuthBootstrap"}

UnderWay(ops) == {p \in Clients \X Ops : p[2] \in Busy(p[1]) \cap ops}

\* The browser sends a cookie until it expires.
Sent(c) == IF clock < jar[c].until THEN jar[c].token ELSE NoToken

Send(c, op, header, name) ==
    /\ req[c][op].pc = "idle"
    /\ name \in IF op \in SignIns THEN Names ELSE {""}
    /\ ServerWantsHeader(op) \/ ~header      \* no difference to the others
    /\ op \in SignIns => issued + Cardinality(UnderWay(SignIns)) < MaxLogins
    /\ Goto(c, op, [Idle EXCEPT !.pc = "arrived", !.header = header, !.token = Sent(c), !.name = name])
    /\ UNCHANGED <<clock, startedAt, users, sessions, issued, jar, faults>>

\* What an answer does to the cookie jar of the client that reads it.
Receive(c, op) ==
    /\ req[c][op].pc = "replied"
    /\ jar' = IF req[c][op].sets THEN [jar EXCEPT ![c] = req[c][op].cookie] ELSE jar
    /\ UNCHANGED <<clock, startedAt, users, sessions, issued>>

Deliver(c, op) ==
    /\ Receive(c, op)
    /\ Goto(c, op, Idle)
    /\ UNCHANGED faults

\* The client takes the answer and drops its other requests: the page is left.
DeliverAndLeave(c, op) ==
    /\ Receive(c, op)
    /\ req' = [req EXCEPT ![c] = [o \in Ops |-> Idle]]
    /\ UNCHANGED faults

\* ---- auth.Service ----------------------------------------------------------

Expired(row) == ~(clock < row.expires) \/ ~(clock < row.absolute)

MinTime(a, b) == IF a <= b THEN a ELSE b

DeleteSession(table, t) == [table EXCEPT ![t] = NoRow]

\* Tokens are random: a new one is held by nobody.
Held ==
    {t \in Tokens : sessions[t] # NoRow}
        \cup {jar[c].token : c \in Clients}
        \cup UNION {{req[c][op].token, req[c][op].cookie.token} : c \in Clients, op \in Ops}

Fresh == Tokens \ Held

\* Faulty variant: INSERT instead of UPDATE.
RotateByInsert(old, new, expires) ==
    [sessions EXCEPT ![new] = [sessions[old] EXCEPT !.expires = expires]]

\* RotateSession: UPDATE sessions SET token=new, expires_at=... WHERE token=old.
RotateSession(old, new, expires) ==
    [sessions EXCEPT ![old] = NoRow, ![new] = [sessions[old] EXCEPT !.expires = expires]]

\* Faulty variant: the absolute limit counts from the end of the first idle window.
RowOfLonger(name) ==
    [login |-> issued + 1, user |-> name, created |-> clock,
     expires |-> clock + IdleTTL, absolute |-> clock + IdleTTL + AbsoluteTTL]

RowOf(name) ==
    [login |-> issued + 1, user |-> name, created |-> clock,
     expires |-> MinTime(clock + IdleTTL, clock + AbsoluteTTL), absolute |-> clock + AbsoluteTTL]

\* ---- Server.secureOperation ------------------------------------------------

\* The request reaches its handler.  The reads use nothing of the session, so
\* they are answered in the step that admits them.
Admit(op, r) ==
    IF op \in DOMAIN AuthOperations \ {"getAuthSession"}
      THEN [r EXCEPT !.pc = "handle", !.header = FALSE]
      ELSE Reply(r, 200)

\* The lookup of Authenticate.  An expired session is deleted; one past half of
\* its idle time is to be rotated; another is touched, or touched recently.
Authenticate(c, op, r) ==
    LET row == sessions[r.token]
        newExpiry == MinTime(clock + IdleTTL, row.absolute)
        stays == [r EXCEPT !.header = FALSE]
    IN  \/ /\ row = NoRow
           /\ Goto(c, op, ClearingReply(r, 401))
           /\ UNCHANGED sessions
        \/ /\ row # NoRow
           /\ Expired(row)
           /\ sessions' = DeleteSession(sessions, r.token)
           /\ Goto(c, op, ClearingReply(r, 401))
        \/ /\ row # NoRow
           /\ ~Expired(row)
           /\ IF row.expires - clock <= IdleTTL \div 2
                THEN Goto(c, op, [stays EXCEPT !.pc = "rotate", !.cookie.until = newExpiry])
                ELSE Goto(c, op, [stays EXCEPT !.pc = "touch"]) \/ Goto(c, op, Admit(op, r))
           /\ UNCHANGED sessions

SecureOperation(c, op) ==
    LET r == req[c][op] IN
    /\ r.pc = "arrived"
    /\ \/ /\ ServerWantsHeader(op) /\ ~r.header
          /\ Goto(c, op, Reply(r, 403))
          /\ UNCHANGED sessions
       \/ /\ ServerWantsHeader(op) => r.header
          /\ op \in Anonymous
          /\ Goto(c, op, Admit(op, r))
          /\ UNCHANGED sessions
       \/ /\ ServerWantsHeader(op) => r.header
          /\ op \notin Anonymous
          /\ r.token = NoToken
          /\ Goto(c, op, Reply(r, 401))
          /\ UNCHANGED sessions
       \/ /\ ServerWantsHeader(op) => r.header
          /\ op \notin Anonymous
          /\ r.token # NoToken
          /\ Authenticate(c, op, r)
    /\ UNCHANGED <<clock, startedAt, users, issued, jar, faults>>

\* Faulty variant: an upsert, which creates the row again when it is gone.
RotateByUpsert(c, op) ==
    LET r == req[c][op] IN
    /\ r.pc = "rotate"
    /\ \E new \in Fresh, name \in Names :
           /\ sessions' = IF sessions[r.token] # NoRow THEN RotateSession(r.token, new, r.cookie.until)
                          ELSE [sessions EXCEPT ![new] = [RowOf(name) EXCEPT !.login = issued]]
           /\ Goto(c, op, Admit(op, [r EXCEPT !.sets = TRUE, !.cookie.token = new]))
    /\ UNCHANGED <<clock, startedAt, users, issued, jar, faults>>

\* The loser of two rotations of one row gets sql.ErrNoRows, which is a 500.
Rotate(c, op) ==
    LET r == req[c][op] IN
    /\ r.pc = "rotate"
    /\ \/ /\ sessions[r.token] # NoRow
          /\ \E new \in Fresh :
                 /\ sessions' = RotateSession(r.token, new, r.cookie.until)
                 /\ Goto(c, op, Admit(op, [r EXCEPT !.sets = TRUE, !.cookie.token = new]))
       \/ /\ sessions[r.token] = NoRow
          /\ Goto(c, op, Reply([r EXCEPT !.cookie = NoCookie], 500))
          /\ UNCHANGED sessions
    /\ UNCHANGED <<clock, startedAt, users, issued, jar, faults>>

Touch(c, op) ==
    LET r == req[c][op] IN
    /\ r.pc = "touch"
    /\ Goto(c, op, IF sessions[r.token] # NoRow THEN Admit(op, r) ELSE Reply(r, 500))
    /\ UNCHANGED <<clock, startedAt, users, sessions, issued, jar, faults>>

\* ---- the handlers ----------------------------------------------------------

Handling(c, op) == req[c][op].pc = "handle"

GetAuthBootstrap(c) ==
    LET op == "getAuthBootstrap"
        required == users = {} /\ ~(clock > startedAt + BootstrapTTL)
    IN  /\ Handling(c, op)
        /\ Goto(c, op, [Reply(req[c][op], 200) EXCEPT !.required = required])
        /\ UNCHANGED <<clock, startedAt, users, sessions, issued, jar, faults>>

\* Bootstrap up to the hash of the password; 400 is a refused name or password.
CreateAuthBootstrap(c) ==
    LET op == "createAuthBootstrap"
        r == req[c][op]
    IN  /\ Handling(c, op)
        /\ \/ Goto(c, op, Reply(r, 400))
           \/ users # {} /\ Goto(c, op, Reply(r, 409))
           \/ users = {} /\ clock > startedAt + BootstrapTTL /\ Goto(c, op, Reply(r, 403))
           \/ users = {} /\ ~(clock > startedAt + BootstrapTTL) /\ Goto(c, op, [r EXCEPT !.pc = "create"])
        /\ UNCHANGED <<clock, startedAt, users, sessions, issued, jar, faults>>

\* Faulty variant: an upsert, which takes over an account of that name.
CreateUserByUpsert(c) ==
    LET op == "createAuthBootstrap"
        r == req[c][op]
    IN  /\ r.pc = "create"
        /\ users' = users \cup {r.name}
        /\ Goto(c, op, [r EXCEPT !.pc = "issue"])
        /\ UNCHANGED <<clock, startedAt, sessions, issued, jar, faults>>

\* The insert into users, whose only constraint is a unique name.
CreateUser(c) ==
    LET op == "createAuthBootstrap"
        r == req[c][op]
    IN  /\ r.pc = "create"
        /\ users' = users \cup {r.name}
        /\ Goto(c, op, IF r.name \in users THEN Reply(r, 409) ELSE [r EXCEPT !.pc = "issue"])
        /\ UNCHANGED <<clock, startedAt, sessions, issued, jar, faults>>

\* Login up to the verified password; 400 is a body that does not decode, which the
\* contract does not declare.
Login(c) ==
    LET op == "login"
        r == req[c][op]
    IN  /\ Handling(c, op)
        /\ \/ Goto(c, op, Reply(r, 429))
           \/ Goto(c, op, Reply(r, 400))
           \/ Goto(c, op, Reply(r, 401))
           \/ r.name \in users /\ Goto(c, op, [r EXCEPT !.pc = "issue"])
        /\ UNCHANGED <<clock, startedAt, users, sessions, issued, jar, faults>>

IssueSession(c, op) ==
    LET r == req[c][op]
        row == RowOf(r.name)
        status == IF op = "login" THEN 200 ELSE 201
    IN  /\ r.pc = "issue"
        /\ \E token \in Fresh :
               /\ sessions' = [sessions EXCEPT ![token] = row]
               /\ Goto(c, op, [Reply(r, status) EXCEPT
                                   !.sets = TRUE, !.cookie = [token |-> token, until |-> row.expires]])
        /\ issued' = issued + 1
        /\ UNCHANGED <<clock, startedAt, users, jar, faults>>

\* Logout deletes the token of the request's cookie, the old one when this very
\* request was given a new one.
Logout(c) ==
    LET op == "logout"
        r == req[c][op]
    IN  /\ Handling(c, op)
        /\ sessions' = DeleteSession(sessions, r.token)
        /\ Goto(c, op, ClearingReply(r, 204))
        /\ UNCHANGED <<clock, startedAt, users, issued, jar, faults>>

\* ChangePassword up to the hash of the new one: a second lookup by the cookie.
ChangePassword(c) ==
    LET op == "changePassword"
        r == req[c][op]
        row == sessions[r.token]
        valid == row # NoRow /\ ~Expired(row)
    IN  /\ Handling(c, op)
        /\ \/ Goto(c, op, Reply(r, 400))
           \/ Goto(c, op, Reply(r, 401))
           \/ valid /\ Goto(c, op, [r EXCEPT !.pc = "revoke", !.name = row.user])
        /\ UNCHANGED <<clock, startedAt, users, sessions, issued, jar, faults>>

\* UpdatePasswordAndRevokeSessions: every session of the user but this token.
RevokeOthers(table, user, keep) ==
    [t \in Tokens |->
        IF t # keep /\ table[t] # NoRow /\ table[t].user = user THEN NoRow ELSE table[t]]

UpdatePassword(c) ==
    LET op == "changePassword"
        r == req[c][op]
    IN  /\ r.pc = "revoke"
        /\ sessions' = RevokeOthers(sessions, r.name, r.token)
        /\ Goto(c, op, Reply(r, 204))
        /\ UNCHANGED <<clock, startedAt, users, issued, jar, faults>>

Serve(c, op) ==
    \/ SecureOperation(c, op)
    \/ Rotate(c, op)
    \/ Touch(c, op)
    \/ op = "getAuthBootstrap" /\ GetAuthBootstrap(c)
    \/ op = "createAuthBootstrap" /\ (CreateAuthBootstrap(c) \/ CreateUser(c))
    \/ op = "login" /\ Login(c)
    \/ op = "logout" /\ Logout(c)
    \/ op = "changePassword" /\ (ChangePassword(c) \/ UpdatePassword(c))
    \/ IssueSession(c, op)

\* ---- faults ----------------------------------------------------------------

Fault == faults < MaxFaults /\ faults' = faults + 1

\* The connection breaks, before, during or after the work on the request.
LoseConnection(c, op) ==
    /\ req[c][op].pc # "idle"
    /\ Fault
    /\ Goto(c, op, BrokenReply)
    /\ UNCHANGED <<clock, startedAt, users, sessions, issued, jar>>

\* esgw restarts: requests under way break, and the bootstrap window opens again.
Restart ==
    /\ Fault
    /\ startedAt' = clock
    /\ req' = [c \in Clients |-> [op \in Ops |->
                  IF req[c][op].pc \in {"idle", "replied"} THEN req[c][op] ELSE BrokenReply]]
    /\ UNCHANGED <<clock, users, sessions, issued, jar>>

\* The client goes away from its requests (a reload).
Leave(c) ==
    /\ Fault
    /\ req' = [req EXCEPT ![c] = [op \in Ops |-> Idle]]
    /\ UNCHANGED <<clock, startedAt, users, sessions, issued, jar>>

Tick ==
    /\ clock < MaxClock
    /\ clock' = clock + 1
    /\ UNCHANGED <<startedAt, users, sessions, issued, jar, req, faults>>

\* Something else of the client happened that costs a fault.
ClientFault ==
    /\ Fault
    /\ UNCHANGED <<clock, startedAt, users, sessions, issued, jar, req>>

\* ---- any clients at all ----------------------------------------------------

AuthNext ==
    \/ /\ Cardinality(UnderWay(Ops)) < MaxInFlight
       /\ \E c \in Clients, op \in Ops, header \in BOOLEAN, name \in Names \cup {""} :
              Send(c, op, header, name)
    \/ \E c \in Clients, op \in Ops :
           \/ Serve(c, op)
           \/ Deliver(c, op)
           \/ DeliverAndLeave(c, op)
           \/ LoseConnection(c, op)
    \/ \E c \in Clients : Leave(c)
    \/ Restart
    \/ Tick

AuthSpec == AuthInit /\ [][AuthNext]_authVars

\* ---- properties ------------------------------------------------------------

\* The types of the session tables, the cookie jars and the requests.
AuthTypeOK ==
    /\ clock \in Times /\ startedAt \in Times /\ issued \in Nat /\ faults \in Nat
    /\ users \subseteq Names
    /\ sessions \in [Tokens -> Row \cup {NoRow}]
    /\ jar \in [Clients -> Cookie]
    /\ req \in [Clients -> [Ops -> Request]]

Live == {t \in Tokens : sessions[t] # NoRow}

LiveLogins == {sessions[t].login : t \in Live}

\* A sign-in is never two sessions: however the rotations of one session
\* interleave, at most one of its tokens opens the API (RotateSession).
OneTokenPerLogin ==
    \A s, t \in Live : sessions[s].login = sessions[t].login => s = t

\* A session that was revoked (logout, password change, expiry) stays revoked: a
\* rotation or touch that had looked it up before does not bring it back.
RevokedStaysRevoked ==
    [][\A login \in 1..issued : login \notin LiveLogins => login \notin LiveLogins']_authVars

Admitted(c, op) ==
    /\ req[c][op].pc = "arrived"
    /\ op \notin Anonymous
    /\ req'[c][op].pc \in {"rotate", "touch", "handle"} \/ req'[c][op].status = 200

\* Renewal never carries a session past the absolute limit that was set when its
\* user signed in (Authenticate, AbsoluteTTL).
AbsoluteLimitHolds ==
    [][\A c \in Clients, op \in Ops :
          Admitted(c, op) => clock < sessions[req[c][op].token].created + AbsoluteTTL]_authVars

\* The client's bootstrap has created its account and has still to sign it in.
Founding(c) == req[c]["createAuthBootstrap"].pc = "issue"

\* Of the bootstraps that all found no account and go on to create one of the same
\* name, one is signed in: the password of the account is the one its session was
\* issued for (Bootstrap's count and CreateUser's insert are separate statements).
OneBootstrapWins ==
    \A c, d \in Clients :
        (/\ Founding(c) /\ Founding(d)
         /\ req[c]["createAuthBootstrap"].name = req[d]["createAuthBootstrap"].name)
            => c = d
=============================================================================
