----------------------------- MODULE AuthProofs -----------------------------
(***************************************************************************)
(* Proofs about Auth, for any clients, names, tokens, lifetimes and number *)
(* of requests, sign-ins and faults.                                       *)
(***************************************************************************)
EXTENDS Auth, TLAPS

-----------------------------------------------------------------------------
(* The inductive invariant.                                                *)

\* What a request holds at each step: the name it signs in with, the token whose
\* session was found.
ReqOK(op, r) ==
    /\ r.pc = "arrived" => r.status = 0
    /\ r.pc \in {"arrived", "handle", "create"} /\ op \in SignIns => r.name \in Names
    /\ r.pc = "issue" => op \in SignIns /\ r.name \in Names
    /\ r.pc \in {"rotate", "touch"} => op \notin Anonymous /\ r.token \in Tokens
    /\ r.pc = "handle" /\ op \notin Anonymous => r.token \in Tokens
    /\ r.pc = "revoke" => r.token \in Tokens

Reqs == \A c \in Clients, op \in Ops : ReqOK(op, req[c][op])

\* Rows come from a sign-in that has happened and keep the limit it set.
Rows ==
    \A t \in Tokens : sessions[t] # NoRow =>
        /\ sessions[t].login \in 1..issued
        /\ sessions[t].absolute = sessions[t].created + AbsoluteTTL

AuthInv == AuthTypeOK /\ Reqs /\ Rows /\ OneTokenPerLogin

-----------------------------------------------------------------------------
(* What a step does to the sessions table.                                 *)

Shrinks ==
    /\ issued' = issued
    /\ sessions' \in [Tokens -> Row \cup {NoRow}]
    /\ \A t \in Tokens : sessions'[t] = sessions[t] \/ sessions'[t] = NoRow

Renews ==
    /\ issued' = issued
    /\ \E old, new \in Tokens, expires \in Nat :
           /\ sessions[old] # NoRow /\ sessions[new] = NoRow
           /\ sessions' = RotateSession(old, new, expires)

Issues ==
    /\ issued' = issued + 1
    /\ \E token \in Tokens, name \in Names :
           /\ sessions[token] = NoRow
           /\ sessions' = [sessions EXCEPT ![token] = RowOf(name)]

TableEffect == Shrinks \/ Renews \/ Issues

\* A step that leaves the table and the number of sign-ins alone only shrinks it.
LEMMA TableUnchanged ==
    ASSUME AuthTypeOK, UNCHANGED <<sessions, issued>>
    PROVE  TableEffect
  BY DEF AuthTypeOK, TableEffect, Shrinks

\* The row of a new session is a row, numbered by the next sign-in, with the
\* limits Service.issueSession sets.
LEMMA RowOfType ==
    ASSUME clock \in Nat, issued \in Nat, NEW name \in Names
    PROVE  /\ RowOf(name) \in Row
           /\ RowOf(name).login = issued + 1
           /\ RowOf(name).expires \in Nat
           /\ RowOf(name).absolute = RowOf(name).created + AbsoluteTTL
  BY LifetimeAssumption DEF RowOf, Row, Times, MinTime

\* A token that was drawn is a token and has no row.
LEMMA FreshIsUnused ==
    ASSUME NEW t \in Fresh
    PROVE  t \in Tokens /\ sessions[t] = NoRow
  BY DEF Fresh, Held

\* Every effect on the table keeps its types, the rows' limits and one token per
\* sign-in, and brings no revoked sign-in back.
LEMMA TableStep ==
    ASSUME AuthTypeOK, Rows, OneTokenPerLogin, TableEffect
    PROVE  /\ issued' \in Nat
           /\ sessions' \in [Tokens -> Row \cup {NoRow}]
           /\ Rows'
           /\ OneTokenPerLogin'
           /\ \A login \in 1..issued : login \notin LiveLogins => login \notin LiveLogins'
<1> USE LifetimeAssumption
<1>1. clock \in Nat /\ issued \in Nat /\ sessions \in [Tokens -> Row \cup {NoRow}]
  BY DEF AuthTypeOK, Times
<1>2. CASE Shrinks
  <2>1. issued' \in Nat /\ sessions' \in [Tokens -> Row \cup {NoRow}]
    BY <1>1, <1>2 DEF Shrinks
  <2>2. \A t \in Tokens : sessions'[t] # NoRow => sessions'[t] = sessions[t] /\ sessions[t] # NoRow
    BY <1>2 DEF Shrinks
  <2>3. Rows'
    BY <1>2, <2>2 DEF Rows, Shrinks
  <2>4. OneTokenPerLogin'
    BY <2>2 DEF OneTokenPerLogin, Live
  <2>5. \A login \in 1..issued : login \notin LiveLogins => login \notin LiveLogins'
    BY <2>2 DEF LiveLogins, Live
  <2> QED BY <2>1, <2>3, <2>4, <2>5
<1>3. CASE Renews
  <2>1. PICK old \in Tokens, new \in Tokens, expires \in Nat :
            /\ sessions[old] # NoRow /\ sessions[new] = NoRow
            /\ sessions' = RotateSession(old, new, expires)
    BY <1>3 DEF Renews
  <2> DEFINE row == [sessions[old] EXCEPT !.expires = expires]
  <2>2. sessions[old] \in Row
    BY <1>1, <2>1
  <2>3. /\ row \in Row /\ row.login = sessions[old].login
        /\ row.absolute = sessions[old].absolute /\ row.created = sessions[old].created
    BY <2>2 DEF Row, Times
  <2>4. old # new
    BY <2>1
  <2>5. /\ sessions'[old] = NoRow /\ sessions'[new] = row
        /\ \A t \in Tokens : t # old /\ t # new => sessions'[t] = sessions[t]
    BY <1>1, <2>1, <2>4 DEF RotateSession
  <2>6. sessions' \in [Tokens -> Row \cup {NoRow}]
    BY <1>1, <2>1, <2>3 DEF RotateSession
  <2>7. issued' = issued
    BY <1>3 DEF Renews
  <2> HIDE DEF row
  <2>8. Rows'
    BY <2>1, <2>3, <2>5, <2>7 DEF Rows
  <2>9. OneTokenPerLogin'
    BY <2>1, <2>3, <2>5 DEF OneTokenPerLogin, Live
  <2>10. \A login \in 1..issued : login \notin LiveLogins => login \notin LiveLogins'
    BY <2>1, <2>3, <2>5 DEF LiveLogins, Live
  <2> QED BY <1>1, <2>6, <2>7, <2>8, <2>9, <2>10
<1>4. CASE Issues
  <2>1. PICK token \in Tokens, name \in Names :
            /\ sessions[token] = NoRow
            /\ sessions' = [sessions EXCEPT ![token] = RowOf(name)]
    BY <1>4 DEF Issues
  <2>2. /\ RowOf(name) \in Row
        /\ RowOf(name).login = issued + 1
        /\ RowOf(name).absolute = RowOf(name).created + AbsoluteTTL
    BY <1>1, RowOfType
  <2>3. /\ sessions'[token] = RowOf(name)
        /\ \A t \in Tokens : t # token => sessions'[t] = sessions[t]
    BY <1>1, <2>1
  <2>4. issued' = issued + 1
    BY <1>4 DEF Issues
  <2>5. sessions' \in [Tokens -> Row \cup {NoRow}]
    BY <1>1, <2>1, <2>2
  <2>6. Rows'
    BY <1>1, <2>2, <2>3, <2>4 DEF Rows
  <2>7. \A t \in Tokens : sessions[t] # NoRow => sessions[t].login # issued + 1
    BY <1>1 DEF Rows
  <2>8. OneTokenPerLogin'
    BY <2>1, <2>2, <2>3, <2>7 DEF OneTokenPerLogin, Live
  <2>9. \A login \in 1..issued : login \notin LiveLogins => login \notin LiveLogins'
    BY <1>1, <2>1, <2>2, <2>3 DEF LiveLogins, Live
  <2> QED BY <1>1, <2>4, <2>5, <2>6, <2>8, <2>9
<1> QED BY <1>2, <1>3, <1>4 DEF TableEffect

-----------------------------------------------------------------------------
(* What a step does to a request.                                          *)

\* The state that is neither a session nor a request.
Rest ==
    /\ clock \in Nat /\ startedAt \in Nat /\ faults \in Nat
    /\ users \subseteq Names
    /\ jar \in [Clients -> Cookie]

\* A step of one request moves it to a state the invariant allows.
Moves(c, op) == \E r \in Request : ReqOK(op, r) /\ Goto(c, op, r)

\* Nothing of Rest but the users changes, and those only grow by names.
LEMMA RestUnchanged ==
    ASSUME AuthTypeOK, UNCHANGED <<clock, startedAt, jar, faults>>, users' \subseteq Names
    PROVE  Rest'
  BY DEF AuthTypeOK, Rest, Times

\* A slot that holds no request, one whose connection broke, and one that was
\* answered are allowed states of any operation.
LEMMA IdleOK ==
    ASSUME NEW op \in Ops
    PROVE  /\ NoCookie \in Cookie
           /\ Idle \in Request /\ ReqOK(op, Idle)
           /\ BrokenReply \in Request /\ ReqOK(op, BrokenReply)
<1>1. NoCookie \in Cookie
  BY DEF NoCookie, Cookie, Times
<1>2. Idle \in Request /\ Idle.pc = "idle" /\ BrokenReply \in Request /\ BrokenReply.pc = "replied"
  BY <1>1 DEF Idle, BrokenReply, Request, Steps
<1> QED BY <1>1, <1>2 DEF ReqOK

\* An answer is an allowed state of any operation, with the status it was given.
LEMMA ReplyOK ==
    ASSUME NEW op \in Ops, NEW r \in Request, NEW status \in Nat
    PROVE  /\ Reply(r, status) \in Request /\ ReqOK(op, Reply(r, status))
           /\ Reply(r, status).pc = "replied" /\ Reply(r, status).status = status
           /\ ClearingReply(r, status) \in Request /\ ReqOK(op, ClearingReply(r, status))
           /\ ClearingReply(r, status).pc = "replied" /\ ClearingReply(r, status).status = status
<1>1. NoCookie \in Cookie
  BY IdleOK
<1>2. /\ Reply(r, status) \in Request
      /\ Reply(r, status).pc = "replied" /\ Reply(r, status).status = status
  BY <1>1 DEF Reply, Idle, Request, Steps
<1>3. /\ ClearingReply(r, status) \in Request
      /\ ClearingReply(r, status).pc = "replied" /\ ClearingReply(r, status).status = status
  BY <1>1, <1>2 DEF ClearingReply, Request
<1> QED BY <1>2, <1>3 DEF ReqOK

\* What reaches its handler, or is answered at once, is an allowed state.
LEMMA AdmitOK ==
    ASSUME NEW op \in Ops, NEW r \in Request,
           op \in SignIns => r.name \in Names,
           op \notin Anonymous => r.token \in Tokens
    PROVE  Admit(op, r) \in Request /\ ReqOK(op, Admit(op, r))
<1> DEFINE handled == [r EXCEPT !.pc = "handle", !.header = FALSE]
<1>1. handled \in Request /\ handled.pc = "handle" /\ handled.name = r.name /\ handled.token = r.token
  BY DEF Request, Steps
<1>2. ReqOK(op, handled)
  BY <1>1 DEF ReqOK
<1>3. Reply(r, 200) \in Request /\ ReqOK(op, Reply(r, 200))
  BY ReplyOK
<1> QED BY <1>1, <1>2, <1>3 DEF Admit

\* The two sign-ins need no session, and no operation that ends one is anonymous.
LEMMA WhoNeedsASession ==
    /\ SignIns \subseteq Anonymous
    /\ "logout" \notin Anonymous /\ "changePassword" \notin Anonymous
    /\ "logout" \notin SignIns /\ "changePassword" \notin SignIns
  BY DEF SignIns, Anonymous

\* A move changes one request only, and to the state it names.
LEMMA GotoValue ==
    ASSUME AuthTypeOK, NEW c \in Clients, NEW op \in Ops, NEW r, Goto(c, op, r)
    PROVE  /\ req'[c][op] = r
           /\ \A c2 \in Clients, op2 \in Ops :
                  c2 # c \/ op2 # op => req'[c2][op2] = req[c2][op2]
  BY DEF AuthTypeOK, Goto

\* A move keeps the types and the steps of all requests.
LEMMA MovesOK ==
    ASSUME AuthTypeOK, Reqs, NEW c \in Clients, NEW op \in Ops, Moves(c, op)
    PROVE  req' \in [Clients -> [Ops -> Request]] /\ Reqs'
<1>1. PICK r \in Request : ReqOK(op, r) /\ Goto(c, op, r)
  BY DEF Moves
<1>2. req' \in [Clients -> [Ops -> Request]]
  BY <1>1 DEF AuthTypeOK, Goto
<1>3. /\ req'[c][op] = r
      /\ \A c2 \in Clients, op2 \in Ops : c2 # c \/ op2 # op => req'[c2][op2] = req[c2][op2]
  BY <1>1, GotoValue
<1>4. ASSUME NEW c2 \in Clients, NEW op2 \in Ops PROVE ReqOK(op2, req'[c2][op2])
  <2>1. CASE c2 = c /\ op2 = op
    BY <1>1, <1>3, <2>1
  <2>2. CASE c2 # c \/ op2 # op
    BY <1>3, <2>2 DEF Reqs
  <2> QED BY <2>1, <2>2
<1>5. Reqs'
  BY <1>4 DEF Reqs, ReqOK
<1> QED BY <1>2, <1>5

-----------------------------------------------------------------------------
(* One lemma per step of a request.                                        *)

\* The request an action looks at is one, at a step the invariant allows.
LEMMA ReqHere ==
    ASSUME AuthInv, NEW c \in Clients, NEW op \in Ops
    PROVE  /\ AuthTypeOK /\ req[c][op] \in Request /\ ReqOK(op, req[c][op])
           /\ req[c][op].token \in Tokens \cup {NoToken}
           /\ req[c][op].cookie \in Cookie /\ req[c][op].cookie.until \in Nat
<1>1. req[c][op] \in Request
  BY DEF AuthInv, AuthTypeOK
<1>2. /\ req[c][op].token \in Tokens \cup {NoToken}
      /\ req[c][op].cookie \in Cookie /\ req[c][op].cookie.until \in Nat
  BY <1>1 DEF Request, Cookie, Times
<1> QED BY <1>1, <1>2 DEF AuthInv, Reqs

\* Send: a request arrives with the cookie of its client.
LEMMA SendOK ==
    ASSUME AuthInv, NEW c \in Clients, NEW op \in Ops, NEW header \in BOOLEAN, NEW name,
           Send(c, op, header, name)
    PROVE  Rest' /\ TableEffect /\ Moves(c, op)
<1> DEFINE r == [Idle EXCEPT !.pc = "arrived", !.header = header, !.token = Sent(c), !.name = name]
<1>1. name \in Names \cup {""} /\ (op \in SignIns => name \in Names)
  BY DEF Send
<1>2. Sent(c) \in Tokens \cup {NoToken}
  BY DEF Sent, AuthInv, AuthTypeOK, Cookie
<1>3. /\ r \in Request /\ r.pc = "arrived" /\ r.status = 0 /\ r.name = name
  BY <1>1, <1>2, IdleOK DEF Idle, Request, Steps
<1>4. ReqOK(op, r)
  BY <1>1, <1>3 DEF ReqOK
<1>5. Moves(c, op)
  BY <1>3, <1>4 DEF Moves, Send
<1>6. Rest' /\ TableEffect
  BY RestUnchanged, TableUnchanged DEF Send, AuthInv, AuthTypeOK
<1> QED BY <1>5, <1>6

\* Authenticate: what the lookup finds decides the answer or the next step, and
\* an expired session is deleted.
LEMMA AuthenticateOK ==
    ASSUME AuthInv, NEW c \in Clients, NEW op \in Ops,
           op \notin Anonymous, req[c][op].token # NoToken,
           Authenticate(c, op, req[c][op]), issued' = issued
    PROVE  TableEffect /\ Moves(c, op)
<1> DEFINE r == req[c][op]
           row == sessions[r.token]
           newExpiry == MinTime(clock + IdleTTL, row.absolute)
           stays == [r EXCEPT !.header = FALSE]
           rotates == [stays EXCEPT !.pc = "rotate", !.cookie.until = newExpiry]
           touches == [stays EXCEPT !.pc = "touch"]
<1>1. /\ AuthTypeOK /\ r \in Request /\ r.token \in Tokens
      /\ row \in Row \cup {NoRow} /\ clock \in Nat
  BY ReqHere DEF AuthTypeOK, Times
<1>2. op \notin SignIns
  BY WhoNeedsASession
<1>3. \/ row = NoRow /\ Goto(c, op, ClearingReply(r, 401)) /\ UNCHANGED sessions
      \/ sessions' = DeleteSession(sessions, r.token) /\ Goto(c, op, ClearingReply(r, 401))
      \/ /\ row # NoRow /\ UNCHANGED sessions
         /\ \/ Goto(c, op, rotates)
            \/ Goto(c, op, touches)
            \/ Goto(c, op, Admit(op, r))
  BY DEF Authenticate
<1>4. ClearingReply(r, 401) \in Request /\ ReqOK(op, ClearingReply(r, 401))
  BY <1>1, ReplyOK
<1>5. Admit(op, r) \in Request /\ ReqOK(op, Admit(op, r))
  BY <1>1, <1>2, AdmitOK
<1>6. touches \in Request /\ ReqOK(op, touches)
  <2>1. touches \in Request /\ touches.pc = "touch" /\ touches.token = r.token
    BY <1>1 DEF Request, Steps
  <2> HIDE DEF touches
  <2> QED BY <1>1, <2>1 DEF ReqOK
<1>7. ASSUME row # NoRow PROVE rotates \in Request /\ ReqOK(op, rotates)
  <2>1. newExpiry \in Nat
    BY <1>1, <1>7, LifetimeAssumption DEF Row, Times, MinTime
  <2>2. rotates \in Request /\ rotates.pc = "rotate" /\ rotates.token = r.token
    BY <1>1, <2>1 DEF Request, Steps, Cookie, Times
  <2> HIDE DEF rotates
  <2> QED BY <1>1, <2>2 DEF ReqOK
<1>8. Moves(c, op)
  BY <1>3, <1>4, <1>5, <1>6, <1>7 DEF Moves
<1>9. TableEffect
  <2>1. CASE UNCHANGED sessions
    BY <1>1, <2>1, TableUnchanged
  <2>2. CASE sessions' = DeleteSession(sessions, r.token)
    BY <1>1, <2>2 DEF DeleteSession, AuthTypeOK, TableEffect, Shrinks
  <2> QED BY <1>3, <2>1, <2>2
<1> QED BY <1>8, <1>9

\* Server.secureOperation: refused, admitted, or looked up.
LEMMA SecureOperationOK ==
    ASSUME AuthInv, NEW c \in Clients, NEW op \in Ops, SecureOperation(c, op)
    PROVE  Rest' /\ TableEffect /\ Moves(c, op)
<1> DEFINE r == req[c][op]
<1>1. AuthTypeOK /\ r \in Request /\ r.pc = "arrived" /\ ReqOK(op, r)
  BY ReqHere DEF SecureOperation
<1>2. Rest'
  BY <1>1, RestUnchanged DEF SecureOperation, AuthTypeOK
<1>3. issued' = issued
  BY DEF SecureOperation
<1>4. CASE Goto(c, op, Reply(r, 403)) /\ UNCHANGED sessions
  BY <1>1, <1>2, <1>3, <1>4, ReplyOK, TableUnchanged DEF Moves
<1>5. CASE op \in Anonymous /\ Goto(c, op, Admit(op, r)) /\ UNCHANGED sessions
  <2>1. op \in SignIns => r.name \in Names
    BY <1>1 DEF ReqOK
  <2>2. Admit(op, r) \in Request /\ ReqOK(op, Admit(op, r))
    BY <1>1, <1>5, <2>1, AdmitOK
  <2> QED BY <1>1, <1>2, <1>3, <1>5, <2>2, TableUnchanged DEF Moves
<1>6. CASE Goto(c, op, Reply(r, 401)) /\ UNCHANGED sessions
  BY <1>1, <1>2, <1>3, <1>6, ReplyOK, TableUnchanged DEF Moves
<1>7. CASE op \notin Anonymous /\ r.token # NoToken /\ Authenticate(c, op, r)
  BY <1>2, <1>3, <1>7, AuthenticateOK
<1> QED BY <1>4, <1>5, <1>6, <1>7 DEF SecureOperation

\* Rotate: the row moves to a fresh token, or it is gone and the answer is 500.
LEMMA RotateOK ==
    ASSUME AuthInv, NEW c \in Clients, NEW op \in Ops, Rotate(c, op)
    PROVE  Rest' /\ TableEffect /\ Moves(c, op)
<1> DEFINE r == req[c][op]
<1>1. /\ AuthTypeOK /\ r \in Request /\ r.pc = "rotate" /\ op \notin Anonymous
      /\ r.token \in Tokens /\ r.cookie \in Cookie /\ r.cookie.until \in Nat
  BY ReqHere DEF ReqOK, Rotate
<1>2. Rest'
  BY <1>1, RestUnchanged DEF Rotate, AuthTypeOK
<1>3. CASE /\ sessions[r.token] # NoRow
           /\ \E new \in Fresh :
                  /\ sessions' = RotateSession(r.token, new, r.cookie.until)
                  /\ Goto(c, op, Admit(op, [r EXCEPT !.sets = TRUE, !.cookie.token = new]))
  <2>1. PICK new \in Fresh :
            /\ sessions' = RotateSession(r.token, new, r.cookie.until)
            /\ Goto(c, op, Admit(op, [r EXCEPT !.sets = TRUE, !.cookie.token = new]))
    BY <1>3
  <2>2. new \in Tokens /\ sessions[new] = NoRow
    BY FreshIsUnused
  <2> DEFINE next == [r EXCEPT !.sets = TRUE, !.cookie.token = new]
  <2>3. next \in Request /\ next.token = r.token
    BY <1>1, <2>2 DEF Request, Cookie
  <2> HIDE DEF next
  <2>4. Admit(op, next) \in Request /\ ReqOK(op, Admit(op, next))
    BY <1>1, <2>3, AdmitOK, WhoNeedsASession
  <2>5. Moves(c, op)
    BY <2>1, <2>4 DEF Moves, next
  <2>6. Renews
    BY <1>1, <1>3, <2>1, <2>2 DEF Renews, Rotate
  <2> QED BY <1>2, <2>5, <2>6 DEF TableEffect
<1>4. CASE Goto(c, op, Reply([r EXCEPT !.cookie = NoCookie], 500)) /\ UNCHANGED sessions
  <2>1. [r EXCEPT !.cookie = NoCookie] \in Request
    BY <1>1, IdleOK DEF Request
  <2>2. Moves(c, op)
    BY <1>4, <2>1, ReplyOK DEF Moves
  <2> QED BY <1>1, <1>2, <1>4, <2>2, TableUnchanged DEF Rotate
<1> QED BY <1>3, <1>4 DEF Rotate

\* Touch: admitted, or the row is gone and the answer is 500.
LEMMA TouchOK ==
    ASSUME AuthInv, NEW c \in Clients, NEW op \in Ops, Touch(c, op)
    PROVE  Rest' /\ TableEffect /\ Moves(c, op)
<1> DEFINE r == req[c][op]
<1>1. AuthTypeOK /\ r \in Request /\ op \notin Anonymous /\ r.token \in Tokens
  BY ReqHere DEF ReqOK, Touch
<1>2. Admit(op, r) \in Request /\ ReqOK(op, Admit(op, r))
  BY <1>1, AdmitOK, WhoNeedsASession
<1>3. Reply(r, 500) \in Request /\ ReqOK(op, Reply(r, 500))
  BY <1>1, ReplyOK
<1>4. Moves(c, op)
  BY <1>2, <1>3 DEF Moves, Touch
<1> QED BY <1>1, <1>4, RestUnchanged, TableUnchanged DEF Touch, AuthTypeOK

\* GetAuthBootstrap: an answer, and nothing else changes.
LEMMA GetAuthBootstrapOK ==
    ASSUME AuthInv, NEW c \in Clients, NEW op \in Ops, op = "getAuthBootstrap", GetAuthBootstrap(c)
    PROVE  Rest' /\ TableEffect /\ Moves(c, op)
<1> DEFINE r == Reply(req[c][op], 200)
           required == users = {} /\ ~(clock > startedAt + BootstrapTTL)
           answer == [r EXCEPT !.required = required]
<1>1. AuthTypeOK /\ r \in Request /\ r.pc = "replied"
  BY ReqHere, ReplyOK
<1>2. required \in BOOLEAN
  OBVIOUS
<1>3. Goto(c, op, answer)
  BY DEF GetAuthBootstrap
<1> HIDE DEF r, required
<1>4. answer \in Request /\ answer.pc = "replied"
  BY <1>1, <1>2 DEF Request
<1>5. Moves(c, op)
  BY <1>3, <1>4 DEF Moves, ReqOK
<1> QED BY <1>1, <1>5, RestUnchanged, TableUnchanged DEF GetAuthBootstrap, AuthTypeOK

\* CreateAuthBootstrap: refused, or on to the insert with the name it came with.
LEMMA CreateAuthBootstrapOK ==
    ASSUME AuthInv, NEW c \in Clients, NEW op \in Ops, op = "createAuthBootstrap",
           CreateAuthBootstrap(c)
    PROVE  Rest' /\ TableEffect /\ Moves(c, op)
<1> DEFINE r == req[c][op]
           next == [r EXCEPT !.pc = "create"]
<1>1. AuthTypeOK /\ r \in Request /\ r.name \in Names
  BY ReqHere DEF CreateAuthBootstrap, Handling, ReqOK, SignIns
<1>2. next \in Request /\ next.pc = "create" /\ next.name = r.name
  BY <1>1 DEF Request, Steps
<1>3. ReqOK(op, next)
  BY <1>1, <1>2 DEF ReqOK
<1>4. (\E status \in {400, 403, 409} : Goto(c, op, Reply(r, status))) \/ Goto(c, op, next)
  BY DEF CreateAuthBootstrap
<1>5. \A status \in {400, 403, 409} : Reply(r, status) \in Request /\ ReqOK(op, Reply(r, status))
  BY <1>1, ReplyOK
<1>6. Moves(c, op)
  BY <1>2, <1>3, <1>4, <1>5 DEF Moves
<1> QED BY <1>1, <1>6, RestUnchanged, TableUnchanged DEF CreateAuthBootstrap, AuthTypeOK

\* CreateUser: the name is in the table afterwards; the session is still to be issued.
LEMMA CreateUserOK ==
    ASSUME AuthInv, NEW c \in Clients, NEW op \in Ops, op = "createAuthBootstrap", CreateUser(c)
    PROVE  Rest' /\ TableEffect /\ Moves(c, op)
<1> DEFINE r == req[c][op]
           next == [r EXCEPT !.pc = "issue"]
<1>1. AuthTypeOK /\ r \in Request /\ r.name \in Names /\ op \in SignIns
  BY ReqHere DEF CreateUser, ReqOK, SignIns
<1>2. next \in Request /\ next.pc = "issue" /\ next.name = r.name
  BY <1>1 DEF Request, Steps
<1>3. ReqOK(op, next)
  BY <1>1, <1>2 DEF ReqOK
<1>4. Goto(c, op, Reply(r, 409)) \/ Goto(c, op, next)
  BY DEF CreateUser
<1>5. Moves(c, op)
  BY <1>1, <1>2, <1>3, <1>4, ReplyOK DEF Moves
<1>6. users' \subseteq Names
  BY <1>1 DEF CreateUser, AuthTypeOK
<1> QED BY <1>1, <1>5, <1>6, RestUnchanged, TableUnchanged DEF CreateUser

\* Login: refused, or the session is still to be issued.
LEMMA LoginOK ==
    ASSUME AuthInv, NEW c \in Clients, NEW op \in Ops, op = "login", Login(c)
    PROVE  Rest' /\ TableEffect /\ Moves(c, op)
<1> DEFINE r == req[c][op]
           next == [r EXCEPT !.pc = "issue"]
<1>1. AuthTypeOK /\ r \in Request /\ r.name \in Names /\ op \in SignIns
  BY ReqHere DEF Login, Handling, ReqOK, SignIns
<1>2. next \in Request /\ next.pc = "issue" /\ next.name = r.name
  BY <1>1 DEF Request, Steps
<1>3. ReqOK(op, next)
  BY <1>1, <1>2 DEF ReqOK
<1>4. (\E status \in {429, 400, 401} : Goto(c, op, Reply(r, status))) \/ Goto(c, op, next)
  BY DEF Login
<1>5. \A status \in {429, 400, 401} : Reply(r, status) \in Request /\ ReqOK(op, Reply(r, status))
  BY <1>1, ReplyOK
<1>6. Moves(c, op)
  BY <1>2, <1>3, <1>4, <1>5 DEF Moves
<1> QED BY <1>1, <1>6, RestUnchanged, TableUnchanged DEF Login, AuthTypeOK

\* IssueSession: a new row under a fresh token, which the answer sets as cookie.
LEMMA IssueSessionOK ==
    ASSUME AuthInv, NEW c \in Clients, NEW op \in Ops, IssueSession(c, op)
    PROVE  Rest' /\ TableEffect /\ Moves(c, op)
<1> DEFINE r == req[c][op]
           row == RowOf(r.name)
           status == IF op = "login" THEN 200 ELSE 201
<1>1. AuthTypeOK /\ r \in Request /\ r.name \in Names
  BY ReqHere DEF IssueSession, ReqOK
<1>2. row.expires \in Nat
  BY <1>1, RowOfType DEF AuthTypeOK, Times
<1>3. PICK token \in Fresh :
          /\ sessions' = [sessions EXCEPT ![token] = row]
          /\ Goto(c, op, [Reply(r, status) EXCEPT
                              !.sets = TRUE, !.cookie = [token |-> token, until |-> row.expires]])
  BY DEF IssueSession
<1>4. token \in Tokens /\ sessions[token] = NoRow
  BY FreshIsUnused
<1>5. Issues
  BY <1>1, <1>3, <1>4 DEF Issues, IssueSession
<1> DEFINE cookie == [token |-> token, until |-> row.expires]
           reply == Reply(r, status)
           answer == [reply EXCEPT !.sets = TRUE, !.cookie = cookie]
<1>6. cookie \in Cookie
  BY <1>2, <1>4 DEF Cookie, Times
<1>7. reply \in Request /\ reply.pc = "replied"
  <2>1. status \in Nat
    OBVIOUS
  <2> HIDE DEF status
  <2> QED BY <1>1, <2>1, ReplyOK
<1>8. Goto(c, op, answer)
  BY <1>3
<1> HIDE DEF cookie, reply
<1>9. answer \in Request /\ answer.pc = "replied"
  BY <1>6, <1>7 DEF Request
<1>10. Moves(c, op)
  BY <1>8, <1>9 DEF Moves, ReqOK
<1> QED BY <1>1, <1>5, <1>10, RestUnchanged DEF IssueSession, TableEffect, AuthTypeOK

\* Logout: a row is deleted or none.
LEMMA LogoutOK ==
    ASSUME AuthInv, NEW c \in Clients, NEW op \in Ops, op = "logout", Logout(c)
    PROVE  Rest' /\ TableEffect /\ Moves(c, op)
<1>1. AuthTypeOK /\ req[c][op] \in Request
  BY ReqHere
<1>2. Moves(c, op)
  BY <1>1, ReplyOK DEF Moves, Logout
<1>3. TableEffect
  BY <1>1 DEF Logout, DeleteSession, TableEffect, Shrinks, AuthTypeOK
<1> QED BY <1>1, <1>2, <1>3, RestUnchanged DEF Logout, AuthTypeOK

\* ChangePassword: refused, or on to the revocation with the user of the row.
LEMMA ChangePasswordOK ==
    ASSUME AuthInv, NEW c \in Clients, NEW op \in Ops, op = "changePassword", ChangePassword(c)
    PROVE  Rest' /\ TableEffect /\ Moves(c, op)
<1> DEFINE r == req[c][op]
           row == sessions[r.token]
           next == [r EXCEPT !.pc = "revoke", !.name = row.user]
<1>1. AuthTypeOK /\ r \in Request /\ r.token \in Tokens
  BY ReqHere, WhoNeedsASession DEF ChangePassword, Handling, ReqOK
<1>2. \/ Goto(c, op, Reply(r, 400)) \/ Goto(c, op, Reply(r, 401))
      \/ row # NoRow /\ Goto(c, op, next)
  BY DEF ChangePassword
<1>3. ASSUME row # NoRow PROVE next \in Request /\ ReqOK(op, next)
  <2>1. row.user \in Names
    BY <1>1, <1>3 DEF AuthTypeOK, Row
  <2>2. next \in Request /\ next.pc = "revoke" /\ next.token = r.token
    BY <1>1, <2>1 DEF Request, Steps
  <2> HIDE DEF next
  <2> QED BY <1>1, <2>2 DEF ReqOK
<1>4. Moves(c, op)
  BY <1>1, <1>2, <1>3, ReplyOK DEF Moves
<1> QED BY <1>1, <1>4, RestUnchanged, TableUnchanged DEF ChangePassword, AuthTypeOK

\* UpdatePassword: rows are deleted.
LEMMA UpdatePasswordOK ==
    ASSUME AuthInv, NEW c \in Clients, NEW op \in Ops, op = "changePassword", UpdatePassword(c)
    PROVE  Rest' /\ TableEffect /\ Moves(c, op)
<1>1. AuthTypeOK /\ req[c][op] \in Request
  BY ReqHere
<1>2. Moves(c, op)
  BY <1>1, ReplyOK DEF Moves, UpdatePassword
<1>3. TableEffect
  BY <1>1 DEF UpdatePassword, RevokeOthers, TableEffect, Shrinks, AuthTypeOK
<1> QED BY <1>1, <1>2, <1>3, RestUnchanged DEF UpdatePassword, AuthTypeOK

\* Every step of the server.
LEMMA ServeOK ==
    ASSUME AuthInv, NEW c \in Clients, NEW op \in Ops, Serve(c, op)
    PROVE  Rest' /\ TableEffect /\ Moves(c, op)
<1>1. CASE SecureOperation(c, op) BY <1>1, SecureOperationOK
<1>2. CASE Rotate(c, op) BY <1>2, RotateOK
<1>3. CASE Touch(c, op) BY <1>3, TouchOK
<1>4. CASE op = "getAuthBootstrap" /\ GetAuthBootstrap(c) BY <1>4, GetAuthBootstrapOK
<1>5. CASE op = "createAuthBootstrap" /\ CreateAuthBootstrap(c) BY <1>5, CreateAuthBootstrapOK
<1>6. CASE op = "createAuthBootstrap" /\ CreateUser(c) BY <1>6, CreateUserOK
<1>7. CASE op = "login" /\ Login(c) BY <1>7, LoginOK
<1>8. CASE op = "logout" /\ Logout(c) BY <1>8, LogoutOK
<1>9. CASE op = "changePassword" /\ ChangePassword(c) BY <1>9, ChangePasswordOK
<1>10. CASE op = "changePassword" /\ UpdatePassword(c) BY <1>10, UpdatePasswordOK
<1>11. CASE IssueSession(c, op) BY <1>11, IssueSessionOK
<1> QED
  BY <1>1, <1>2, <1>3, <1>4, <1>5, <1>6, <1>7, <1>8, <1>9, <1>10, <1>11 DEF Serve

-----------------------------------------------------------------------------
(* The steps of the clients and of the environment.                        *)

\* Requests that are dropped or broken all at once stay allowed.
LEMMA ResetOK ==
    ASSUME AuthInv,
           req' \in [Clients -> [Ops -> Request]],
           \A c \in Clients, op \in Ops : req'[c][op] \in {req[c][op], Idle, BrokenReply}
    PROVE  Reqs'
<1>1. ASSUME NEW c \in Clients, NEW op \in Ops PROVE ReqOK(op, req'[c][op])
  BY IdleOK DEF AuthInv, Reqs
<1> QED BY <1>1 DEF Reqs, ReqOK

\* A client drops all its requests.
LEMMA DropOK ==
    ASSUME AuthInv, NEW c \in Clients, req' = [req EXCEPT ![c] = [op \in Ops |-> Idle]]
    PROVE  req' \in [Clients -> [Ops -> Request]] /\ Reqs'
<1>1. \A op \in Ops : Idle \in Request
  BY IdleOK
<1>2. [op \in Ops |-> Idle] \in [Ops -> Request]
  BY <1>1
<1>3. req' \in [Clients -> [Ops -> Request]]
  BY <1>2 DEF AuthInv, AuthTypeOK
<1>4. \A c2 \in Clients, op \in Ops : req'[c2][op] \in {req[c2][op], Idle, BrokenReply}
  BY DEF AuthInv, AuthTypeOK
<1> QED BY <1>3, <1>4, ResetOK

\* Receive: the cookie jar takes a cookie.
LEMMA ReceiveOK ==
    ASSUME AuthInv, NEW c \in Clients, NEW op \in Ops, Receive(c, op), UNCHANGED faults
    PROVE  Rest' /\ TableEffect
<1>1. AuthTypeOK /\ req[c][op].cookie \in Cookie
  BY ReqHere
<1>2. jar' \in [Clients -> Cookie]
  BY <1>1 DEF Receive, AuthTypeOK
<1> QED BY <1>1, <1>2, TableUnchanged DEF Receive, Rest, AuthTypeOK, Times

\* Restart: requests under way break, the others stay.
LEMMA RestartOK ==
    ASSUME AuthInv, Restart
    PROVE  Rest' /\ TableEffect /\ req' \in [Clients -> [Ops -> Request]] /\ Reqs'
<1>1. AuthTypeOK
  BY DEF AuthInv
<1>2. Rest' /\ TableEffect
  BY <1>1, TableUnchanged DEF Restart, Fault, Rest, AuthTypeOK, Times
<1> DEFINE broken(c, op) ==
              IF req[c][op].pc \in {"idle", "replied"} THEN req[c][op] ELSE BrokenReply
<1>3. req' = [c \in Clients |-> [op \in Ops |-> broken(c, op)]]
  BY DEF Restart
<1>4. \A c \in Clients, op \in Ops :
          broken(c, op) \in Request /\ broken(c, op) \in {req[c][op], Idle, BrokenReply}
  BY ReqHere, IdleOK
<1> HIDE DEF broken
<1>5. req' \in [Clients -> [Ops -> Request]]
  BY <1>3, <1>4
<1>6. \A c \in Clients, op \in Ops : req'[c][op] \in {req[c][op], Idle, BrokenReply}
  BY <1>3, <1>4
<1> QED BY <1>2, <1>5, <1>6, ResetOK

\* The steps of any clients, however many requests they have under way: those of
\* AuthNext, and those of the console, which is one of the clients.
AuthStep ==
    \/ \E c \in Clients, op \in Ops, header \in BOOLEAN, name \in Names \cup {""} :
           Send(c, op, header, name)
    \/ \E c \in Clients, op \in Ops :
           Serve(c, op) \/ Deliver(c, op) \/ DeliverAndLeave(c, op) \/ LoseConnection(c, op)
    \/ \E c \in Clients : Leave(c)
    \/ Restart
    \/ Tick
    \/ ClientFault

ClientSpec == AuthInit /\ [][AuthStep]_authVars

\* The clients of AuthSpec are such clients.
LEMMA BoundedClients == AuthSpec => ClientSpec
<1>1. [AuthNext]_authVars => [AuthStep]_authVars
  BY DEF AuthNext, AuthStep
<1> QED BY <1>1, PTL DEF AuthSpec, ClientSpec

\* Every step keeps the rest of the state and the requests, and has one of the
\* effects on the sessions table.
LEMMA StepOK ==
    ASSUME AuthInv, [AuthStep]_authVars
    PROVE  Rest' /\ TableEffect /\ req' \in [Clients -> [Ops -> Request]] /\ Reqs'
<1>1. AuthTypeOK /\ Reqs
  BY DEF AuthInv
<1>2. ASSUME NEW c \in Clients, NEW op \in Ops, NEW header \in BOOLEAN,
             NEW name \in Names \cup {""}, Send(c, op, header, name)
      PROVE  Rest' /\ TableEffect /\ req' \in [Clients -> [Ops -> Request]] /\ Reqs'
  BY <1>1, <1>2, SendOK, MovesOK
<1>3. ASSUME NEW c \in Clients, NEW op \in Ops, Serve(c, op)
      PROVE  Rest' /\ TableEffect /\ req' \in [Clients -> [Ops -> Request]] /\ Reqs'
  BY <1>1, <1>3, ServeOK, MovesOK
<1>4. ASSUME NEW c \in Clients, NEW op \in Ops, Deliver(c, op)
      PROVE  Rest' /\ TableEffect /\ req' \in [Clients -> [Ops -> Request]] /\ Reqs'
  <2>1. Moves(c, op)
    BY <1>4, IdleOK DEF Deliver, Moves
  <2> QED BY <1>1, <1>4, <2>1, MovesOK, ReceiveOK DEF Deliver
<1>5. ASSUME NEW c \in Clients, NEW op \in Ops, DeliverAndLeave(c, op)
      PROVE  Rest' /\ TableEffect /\ req' \in [Clients -> [Ops -> Request]] /\ Reqs'
  BY <1>5, ReceiveOK, DropOK DEF DeliverAndLeave
<1>6. ASSUME NEW c \in Clients, NEW op \in Ops, LoseConnection(c, op)
      PROVE  Rest' /\ TableEffect /\ req' \in [Clients -> [Ops -> Request]] /\ Reqs'
  <2>1. Moves(c, op)
    BY <1>6, IdleOK DEF LoseConnection, Moves
  <2>2. Rest' /\ TableEffect
    BY <1>1, <1>6, TableUnchanged DEF LoseConnection, Fault, Rest, AuthTypeOK, Times
  <2> QED BY <1>1, <2>1, <2>2, MovesOK
<1>7. ASSUME NEW c \in Clients, Leave(c)
      PROVE  Rest' /\ TableEffect /\ req' \in [Clients -> [Ops -> Request]] /\ Reqs'
  <2>1. Rest' /\ TableEffect
    BY <1>1, <1>7, TableUnchanged DEF Leave, Fault, Rest, AuthTypeOK, Times
  <2> QED BY <1>7, <2>1, DropOK DEF Leave
<1>8. CASE Restart
  BY <1>8, RestartOK
<1>9. CASE UNCHANGED req /\ (Tick \/ ClientFault \/ UNCHANGED authVars)
  <2>1. Rest' /\ TableEffect
    BY <1>1, <1>9, TableUnchanged DEF Tick, ClientFault, Fault, authVars, Rest, AuthTypeOK, Times
  <2>2. req' \in [Clients -> [Ops -> Request]] /\ Reqs'
    BY <1>1, <1>9 DEF AuthTypeOK, Reqs, ReqOK
  <2> QED BY <2>1, <2>2
<1> QED
  BY <1>2, <1>3, <1>4, <1>5, <1>6, <1>7, <1>8, <1>9 DEF AuthStep, Tick, ClientFault, authVars

-----------------------------------------------------------------------------
(* The theorems.                                                           *)

\* The first state satisfies AuthInv.
LEMMA AuthStart ==
    ASSUME AuthInit
    PROVE  AuthInv
<1>1. \A op \in Ops : NoCookie \in Cookie /\ Idle \in Request /\ ReqOK(op, Idle)
  BY IdleOK
<1>2. NoCookie \in Cookie
  BY DEF NoCookie, Cookie, Times
<1>3. AuthTypeOK
  BY <1>1, <1>2 DEF AuthInit, AuthTypeOK, Times
<1>4. Reqs
  BY <1>1 DEF AuthInit, Reqs
<1>5. Rows /\ OneTokenPerLogin
  BY DEF AuthInit, Rows, OneTokenPerLogin, Live
<1> QED BY <1>3, <1>4, <1>5 DEF AuthInv

\* Every step of the clients keeps it.
LEMMA AuthInvStep ==
    ASSUME AuthInv, [AuthStep]_authVars
    PROVE  AuthInv'
<1>1. Rest' /\ TableEffect /\ req' \in [Clients -> [Ops -> Request]] /\ Reqs'
  BY StepOK
<1>2. /\ issued' \in Nat /\ sessions' \in [Tokens -> Row \cup {NoRow}]
      /\ Rows' /\ OneTokenPerLogin'
  BY <1>1, TableStep DEF AuthInv
<1>3. AuthTypeOK'
  BY <1>1, <1>2 DEF AuthTypeOK, Rest, Times
<1> QED BY <1>1, <1>2, <1>3 DEF AuthInv

\* AuthInv holds whatever the clients do.
LEMMA ClientInvariance == ClientSpec => []AuthInv
<1>1. AuthInit => AuthInv
  BY AuthStart
<1>2. AuthInv /\ [AuthStep]_authVars => AuthInv'
  BY AuthInvStep
<1> QED BY <1>1, <1>2, PTL DEF ClientSpec

\* AuthInv holds of every state of the specification.
THEOREM AuthInvariance == AuthSpec => []AuthInv
  BY BoundedClients, ClientInvariance, PTL

\* The session tables, jars and requests keep their types.
THEOREM AuthTypeCorrect == AuthSpec => []AuthTypeOK
<1>1. AuthInv => AuthTypeOK
  BY DEF AuthInv
<1> QED BY <1>1, AuthInvariance, PTL

\* However many requests rotate one session at once, at most one of its tokens
\* opens the API.
THEOREM OneTokenPerLoginHolds == AuthSpec => []OneTokenPerLogin
<1>1. AuthInv => OneTokenPerLogin
  BY DEF AuthInv
<1> QED BY <1>1, AuthInvariance, PTL

\* No step brings a revoked sign-in back, whatever had been looked up before it
\* was revoked.
LEMMA ClientsRevoke == ClientSpec => RevokedStaysRevoked
<1>1. ASSUME AuthInv, [AuthStep]_authVars
      PROVE  [\A login \in 1..issued : login \notin LiveLogins => login \notin LiveLogins']_authVars
  BY <1>1, StepOK, TableStep DEF AuthInv
<1> QED BY <1>1, ClientInvariance, PTL DEF ClientSpec, RevokedStaysRevoked

\* A sign-in that was revoked stays revoked.
THEOREM RevokedStaysRevokedHolds == AuthSpec => RevokedStaysRevoked
  BY BoundedClients, ClientsRevoke, PTL

\* The lookup lets a request on only within the absolute limit of its session.
LEMMA LookupIsInTime ==
    ASSUME AuthInv, NEW c \in Clients, NEW op \in Ops, SecureOperation(c, op), Admitted(c, op)
    PROVE  clock < sessions[req[c][op].token].created + AbsoluteTTL
<1> DEFINE r == req[c][op]
           row == sessions[r.token]
<1>1. AuthTypeOK /\ r \in Request /\ r.token \in Tokens \cup {NoToken} /\ op \notin Anonymous
  BY ReqHere DEF Admitted
<1>2. ASSUME NEW status \in {401, 403}, NEW reply \in {Reply(r, status), ClearingReply(r, status)},
             Goto(c, op, reply)
      PROVE  FALSE
  <2>1. status \in Nat /\ status # 200
    OBVIOUS
  <2>2. /\ Reply(r, status).pc = "replied" /\ Reply(r, status).status = status
        /\ ClearingReply(r, status).pc = "replied" /\ ClearingReply(r, status).status = status
    BY <1>1, <2>1, ReplyOK
  <2>3. reply.pc = "replied" /\ reply.status = status
    BY <2>2
  <2>4. req'[c][op] = reply
    BY <1>1, <1>2, GotoValue
  <2> QED BY <2>1, <2>3, <2>4 DEF Admitted
<1>3. r.token # NoToken /\ Authenticate(c, op, r)
  BY <1>1, <1>2 DEF SecureOperation
<1>4. row # NoRow /\ ~Expired(row)
  BY <1>2, <1>3 DEF Authenticate
<1>5. r.token \in Tokens
  BY <1>1, <1>3
<1>6. clock < row.absolute /\ row.absolute = row.created + AbsoluteTTL
  BY <1>4, <1>5 DEF Expired, AuthInv, Rows
<1> QED BY <1>6

\* Nothing but the lookup lets a request on.
LEMMA OnlyLookupAdmits ==
    ASSUME AuthInv, [AuthStep]_authVars, NEW c \in Clients, NEW op \in Ops, Admitted(c, op)
    PROVE  SecureOperation(c, op)
<1>1. /\ AuthTypeOK /\ req[c][op].pc = "arrived" /\ req[c][op].status = 0
      /\ req'[c][op].pc \in {"rotate", "touch", "handle"} \/ req'[c][op].status = 200
  BY ReqHere DEF Admitted, ReqOK
<1>2. req'[c][op] # req[c][op]
  BY <1>1
<1>3. req'[c][op] # Idle /\ req'[c][op] # BrokenReply
  <2>1. /\ Idle.pc = "idle" /\ Idle.status = 0
        /\ BrokenReply.pc = "replied" /\ BrokenReply.status = 0
    BY DEF Idle, BrokenReply
  <2> QED BY <1>1, <2>1
<1>4. ASSUME NEW c2 \in Clients, NEW op2 \in Ops, NEW r, Goto(c2, op2, r) PROVE c2 = c /\ op2 = op
  BY <1>1, <1>2, <1>4, GotoValue
<1>5. ASSUME NEW c2 \in Clients, NEW op2 \in Ops, NEW header \in BOOLEAN,
             NEW name \in Names \cup {""}, Send(c2, op2, header, name)
      PROVE  FALSE
  <2>1. req[c2][op2].pc = "idle" /\ \E r : Goto(c2, op2, r)
    BY <1>5 DEF Send
  <2>2. c2 = c /\ op2 = op
    BY <1>4, <2>1
  <2> QED BY <1>1, <2>1, <2>2
<1>6. ASSUME NEW c2 \in Clients, NEW op2 \in Ops, Serve(c2, op2) PROVE SecureOperation(c, op)
  <2>1. c2 = c /\ op2 = op
    BY <1>4, <1>6, ServeOK DEF Moves
  <2> QED
    BY <1>1, <1>6, <2>1
       DEF Serve, Rotate, Touch, GetAuthBootstrap, CreateAuthBootstrap, CreateUser, Login,
           Logout, ChangePassword, UpdatePassword, IssueSession, Handling
<1>7. ASSUME NEW c2 \in Clients, NEW op2 \in Ops,
             Deliver(c2, op2) \/ DeliverAndLeave(c2, op2) \/ LoseConnection(c2, op2) \/ Leave(c2)
      PROVE  FALSE
  <2>1. CASE req' = [req EXCEPT ![c2] = [o \in Ops |-> Idle]]
    BY <1>1, <1>2, <1>3, <2>1 DEF AuthTypeOK
  <2>2. CASE Goto(c2, op2, Idle) \/ Goto(c2, op2, BrokenReply)
    BY <1>1, <1>3, <1>4, <2>2, GotoValue
  <2> QED BY <1>7, <2>1, <2>2 DEF Deliver, DeliverAndLeave, LoseConnection, Leave
<1>8. ~Restart
  BY <1>2, <1>3 DEF Restart
<1>9. ~Tick /\ ~ClientFault /\ ~UNCHANGED authVars
  BY <1>2 DEF Tick, ClientFault, authVars
<1> QED BY <1>5, <1>6, <1>7, <1>8, <1>9 DEF AuthStep

\* So for any clients.
LEMMA ClientsLimit == ClientSpec => AbsoluteLimitHolds
<1>1. ASSUME AuthInv, [AuthStep]_authVars
      PROVE  [\A c \in Clients, op \in Ops :
                 Admitted(c, op) => clock < sessions[req[c][op].token].created + AbsoluteTTL]_authVars
  BY <1>1, OnlyLookupAdmits, LookupIsInTime
<1> QED BY <1>1, ClientInvariance, PTL DEF ClientSpec, AbsoluteLimitHolds

\* Renewal never carries a session past the absolute limit set at its sign-in.
THEOREM AbsoluteLimitIsKept == AuthSpec => AbsoluteLimitHolds
  BY BoundedClients, ClientsLimit, PTL

-----------------------------------------------------------------------------
(* Bootstraps at the same time.                                            *)

Boot == "createAuthBootstrap"

\* The invariant needs that the account of a bootstrap that has created one is in
\* the table: there the insert of another one fails.
Founders ==
    /\ \A c \in Clients : Founding(c) => req[c][Boot].name \in users
    /\ OneBootstrapWins

\* The bootstrap needs no session.
LEMMA BootFacts == Boot \in Ops /\ Boot \in Anonymous
<1>1. Boot \in DOMAIN AuthOperations \ {"listAuthMethods"}
  BY DEF Boot, AuthOperations
<1> QED BY <1>1, OpsAssumption DEF Boot, Anonymous

\* Nothing but the insert brings a bootstrap to its sign-in.
LEMMA OnlyCreateUserFounds ==
    ASSUME AuthInv, [AuthStep]_authVars, NEW c \in Clients,
           Founding(c)', req'[c][Boot] # req[c][Boot]
    PROVE  CreateUser(c)
<1>1. AuthTypeOK /\ req'[c][Boot].pc = "issue" /\ Boot \in Ops /\ Boot \in Anonymous
  BY BootFacts DEF AuthInv, Founding, Boot
<1>2. req'[c][Boot] # Idle /\ req'[c][Boot] # BrokenReply
  <2>1. Idle.pc = "idle" /\ BrokenReply.pc = "replied"
    BY DEF Idle, BrokenReply
  <2> QED BY <1>1, <2>1
<1>3. ASSUME NEW c2 \in Clients, NEW op2 \in Ops, NEW r, Goto(c2, op2, r)
      PROVE  c2 = c /\ op2 = Boot /\ r.pc = "issue"
  <2>1. CASE c2 = c /\ op2 = Boot
    BY <1>1, <1>3, <2>1, GotoValue
  <2>2. CASE c2 # c \/ op2 # Boot
    BY <1>1, <1>3, <2>2, GotoValue
  <2> QED BY <2>1, <2>2
<1>4. ASSUME NEW c2 \in Clients, NEW op2 \in Ops, NEW header \in BOOLEAN,
             NEW name \in Names \cup {""}, Send(c2, op2, header, name)
      PROVE  FALSE
  <2> DEFINE r == [Idle EXCEPT !.pc = "arrived", !.header = header, !.token = Sent(c2), !.name = name]
  <2>1. Goto(c2, op2, r)
    BY <1>4 DEF Send
  <2>2. r.pc = "arrived"
    BY DEF Idle
  <2> HIDE DEF r
  <2> QED BY <1>3, <2>1, <2>2
<1>5. ASSUME NEW c2 \in Clients, NEW op2 \in Ops, Serve(c2, op2) PROVE CreateUser(c)
  <2> DEFINE r == req[c][Boot]
  <2>1. c2 = c /\ op2 = Boot
    BY <1>3, <1>5, ServeOK DEF Moves
  <2>2. r \in Request /\ ReqOK(Boot, r)
    BY <1>1, ReqHere
  <2>3. \A status \in Nat : ~Goto(c, Boot, Reply(r, status))
    BY <1>1, <1>3, <2>2, ReplyOK
  <2>4. ~SecureOperation(c, Boot)
    <3>1. ASSUME SecureOperation(c, Boot) PROVE FALSE
      <4>1. Goto(c, Boot, Reply(r, 403)) \/ Goto(c, Boot, Admit(Boot, r))
        BY <1>1, <3>1 DEF SecureOperation
      <4>2. [r EXCEPT !.pc = "handle", !.header = FALSE].pc = "handle"
        BY <2>2 DEF Request
      <4>3. Reply(r, 200).pc = "replied" /\ Reply(r, 403).pc = "replied"
        BY <1>1, <2>2, ReplyOK
      <4> HIDE DEF r
      <4>4. Admit(Boot, r).pc # "issue"
        BY <4>2, <4>3 DEF Admit
      <4> QED BY <1>1, <1>3, <4>1, <4>3, <4>4
    <3> QED BY <3>1
  <2>5. ~Rotate(c, Boot) /\ ~Touch(c, Boot)
    BY <1>1, <2>2 DEF Rotate, Touch, ReqOK
  <2>6. ~CreateAuthBootstrap(c)
    <3>1. ASSUME CreateAuthBootstrap(c) PROVE FALSE
      <4>1. \/ \E status \in {400, 403, 409} : Goto(c, Boot, Reply(r, status))
            \/ Goto(c, Boot, [r EXCEPT !.pc = "create"])
        BY <3>1 DEF CreateAuthBootstrap, Boot
      <4>2. [r EXCEPT !.pc = "create"].pc = "create"
        BY <2>2 DEF Request
      <4>3. ASSUME NEW status \in {400, 403, 409}, Goto(c, Boot, Reply(r, status)) PROVE FALSE
        <5>1. status \in Nat
          OBVIOUS
        <5> QED BY <2>3, <4>3, <5>1
      <4>4. ~Goto(c, Boot, [r EXCEPT !.pc = "create"])
        <5> HIDE DEF r
        <5> QED BY <1>1, <1>3, <4>2
      <4> QED BY <4>1, <4>3, <4>4
    <3> QED BY <3>1
  <2>7. ~IssueSession(c, Boot)
    <3>1. ASSUME IssueSession(c, Boot) PROVE FALSE
      <4>1. PICK cookie : Goto(c, Boot, [Reply(r, 201) EXCEPT !.sets = TRUE, !.cookie = cookie])
        BY <3>1 DEF IssueSession, Boot
      <4>2. Reply(r, 201) \in Request /\ Reply(r, 201).pc = "replied"
        BY <1>1, <2>2, ReplyOK
      <4>3. [Reply(r, 201) EXCEPT !.sets = TRUE, !.cookie = cookie].pc = "replied"
        BY <4>2 DEF Request
      <4> HIDE DEF r
      <4> QED BY <1>1, <1>3, <4>1, <4>3
    <3> QED BY <3>1
  <2> QED BY <1>5, <2>1, <2>4, <2>5, <2>6, <2>7 DEF Serve, Boot
<1>6. ASSUME NEW c2 \in Clients, NEW op2 \in Ops,
             Deliver(c2, op2) \/ DeliverAndLeave(c2, op2) \/ LoseConnection(c2, op2) \/ Leave(c2)
      PROVE  FALSE
  <2>1. CASE req' = [req EXCEPT ![c2] = [o \in Ops |-> Idle]]
    BY <1>1, <1>2, <2>1 DEF AuthTypeOK
  <2>2. CASE Goto(c2, op2, Idle) \/ Goto(c2, op2, BrokenReply)
    BY <1>1, <1>2, <1>3, <2>2, GotoValue
  <2> QED BY <1>6, <2>1, <2>2 DEF Deliver, DeliverAndLeave, LoseConnection, Leave
<1>7. ~Restart
  BY <1>1, <1>2 DEF Restart
<1>8. ~Tick /\ ~ClientFault /\ ~UNCHANGED authVars
  BY DEF Tick, ClientFault, authVars
<1> QED BY <1>1, <1>4, <1>5, <1>6, <1>7, <1>8 DEF AuthStep

\* Accounts are not removed.
LEMMA UsersGrow ==
    ASSUME [AuthStep]_authVars
    PROVE  users \subseteq users'
<1>1. ASSUME NEW c \in Clients, NEW op \in Ops, Serve(c, op) PROVE users \subseteq users'
  BY <1>1 DEF Serve, SecureOperation, Rotate, Touch, GetAuthBootstrap, CreateAuthBootstrap, CreateUser,
              Login, Logout, ChangePassword, UpdatePassword, IssueSession
<1> QED BY <1>1 DEF AuthStep, Send, Deliver, DeliverAndLeave, Receive, LoseConnection, Leave, Restart, Tick,
                    ClientFault, authVars

\* Every step keeps the part about bootstraps.
LEMMA FoundersStep ==
    ASSUME AuthInv, Founders, [AuthStep]_authVars
    PROVE  Founders'
<1>1. users \subseteq users'
  BY UsersGrow
<1>2. ASSUME NEW c \in Clients, CreateUser(c), Founding(c)'
      PROVE  /\ req'[c][Boot].name \notin users /\ req'[c][Boot].name \in users'
             /\ \A d \in Clients : d # c => req'[d][Boot] = req[d][Boot]
  <2> DEFINE r == req[c][Boot]
             next == IF r.name \in users THEN Reply(r, 409) ELSE [r EXCEPT !.pc = "issue"]
  <2>1. AuthTypeOK /\ r \in Request /\ Boot \in Ops
    BY BootFacts, ReqHere
  <2>2. Goto(c, Boot, next) /\ users' = users \cup {r.name}
    BY <1>2 DEF CreateUser, Boot
  <2>3. req'[c][Boot] = next /\ \A d \in Clients : d # c => req'[d][Boot] = req[d][Boot]
    <3> HIDE DEF next
    <3> QED BY <2>1, <2>2, GotoValue
  <2>4. next.pc = "issue"
    BY <1>2, <2>3 DEF Founding, Boot
  <2>5. r.name \notin users
    BY <2>1, <2>4, ReplyOK
  <2>6. next.name = r.name
    BY <2>1, <2>5 DEF Request
  <2> QED BY <2>2, <2>3, <2>5, <2>6
<1>3. ASSUME NEW c \in Clients, Founding(c)' PROVE req'[c][Boot].name \in users'
  <2>1. CASE req'[c][Boot] = req[c][Boot]
    BY <1>1, <1>3, <2>1 DEF Founders, Founding, Boot
  <2>2. CASE req'[c][Boot] # req[c][Boot]
    BY <1>2, <1>3, <2>2, OnlyCreateUserFounds
  <2> QED BY <2>1, <2>2
<1>4. ASSUME NEW c \in Clients, NEW d \in Clients, Founding(c)', Founding(d)',
             req'[c][Boot].name = req'[d][Boot].name, c # d
      PROVE  FALSE
  <2>1. CASE req'[c][Boot] = req[c][Boot] /\ req'[d][Boot] = req[d][Boot]
    BY <1>4, <2>1 DEF Founders, OneBootstrapWins, Founding, Boot
  <2>2. CASE req'[c][Boot] # req[c][Boot]
    <3>1. /\ req'[c][Boot].name \notin users /\ req'[d][Boot] = req[d][Boot]
      BY <1>2, <1>4, <2>2, OnlyCreateUserFounds
    <3> QED BY <1>4, <3>1 DEF Founders, Founding, Boot
  <2>3. CASE req'[d][Boot] # req[d][Boot]
    <3>1. /\ req'[d][Boot].name \notin users /\ req'[c][Boot] = req[c][Boot]
      BY <1>2, <1>4, <2>3, OnlyCreateUserFounds
    <3> QED BY <1>4, <3>1 DEF Founders, Founding, Boot
  <2> QED BY <2>1, <2>2, <2>3
<1> QED BY <1>3, <1>4 DEF Founders, OneBootstrapWins, Boot

\* So for any clients.
LEMMA ClientsFound == ClientSpec => []OneBootstrapWins
<1>1. AuthInit => Founders
  <2> SUFFICES ASSUME AuthInit PROVE Founders
    OBVIOUS
  <2>1. \A c \in Clients : req[c][Boot].pc = "idle"
    BY BootFacts DEF AuthInit, Idle
  <2> QED BY <2>1 DEF Founders, OneBootstrapWins, Founding, Boot
<1>2. AuthInv /\ Founders /\ [AuthStep]_authVars => Founders'
  BY FoundersStep
<1>3. Founders => OneBootstrapWins
  BY DEF Founders
<1> QED BY <1>1, <1>2, <1>3, ClientInvariance, PTL DEF ClientSpec

\* Of the bootstraps that go on to create one account, one is signed in.
THEOREM OneBootstrapIsSignedIn == AuthSpec => []OneBootstrapWins
  BY BoundedClients, ClientsFound, PTL
=============================================================================
