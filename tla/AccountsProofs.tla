--------------------------- MODULE AccountsProofs ---------------------------
(* Proofs about Accounts, for any number of tabs, browsers, requests, users,*)
(* acts and faults.                                                         *)
EXTENDS Accounts, TLAPS

(* Without a subject there is no token.                                     *)
TokenOK(token) == token.sub = Nobody => token = NoToken

(* What the handlers rely on: the form is filled in, a guarded call is for  *)
(* the user of its token, and has got past the guard with one.              *)
CallOK(c) ==
  /\ TokenOK(c.token)
  /\ c.op \in {"login", "register"} => c.email \in Emails
  /\ c.op \in Guarded => c.email = c.token.sub
  /\ c.op \in Guarded /\ c.step \in {"found", "ok"} => c.email \in Emails
  /\ c.op = "change" => c.new \in Passwords
  /\ c.op = "idle" => c.step = "no"

Typed ==
  /\ TypeOK
  /\ \A b \in Browsers : TokenOK(cookie[b])
  /\ \A q \in Requests : CallOK(call[q])

-----------------------------------------------------------------------------
(* Requests, tokens and sockets are well formed.                            *)

LEMMA Constants ==
  /\ Nobody \notin Emails /\ Nobody \notin Passwords
  /\ NoToken \in Tokens /\ Idle \in Calls /\ Closed \in Socks /\ Opening \in Socks
  BY NobodyAssumption
  DEF NoToken, Tokens, Idle, Calls, Ops, Closed, Opening, Socks

LEMMA RequestType ==
  ASSUME NEW op \in Ops, NEW token \in Tokens, NEW e \in Emails \union {Nobody},
         NEW p \in Passwords \union {Nobody}, NEW q \in Passwords \union {Nobody}
  PROVE  Request(op, token, e, p, q) \in Calls
<1>1. Idle \in Calls
  BY Constants
<1>2. QED
  BY <1>1 DEF Request, Calls

LEMMA MeType ==
  ASSUME NEW token \in Tokens, TokenOK(token)
  PROVE  Me(token) \in Calls /\ CallOK(Me(token))
<1>1. token.sub \in Emails \union {Nobody} /\ "me" \in Ops
      /\ Nobody \in Passwords \union {Nobody}
  BY DEF Tokens, Ops
<1>2. Me(token) \in Calls
  BY <1>1, RequestType DEF Me, Ops
<1>3. Me(token).op = "me" /\ Me(token).step = "sent"
      /\ Me(token).email = token.sub /\ Me(token).token = token
  BY DEF Me, Request, Idle
<1>4. QED
  BY <1>2, <1>3 DEF CallOK, Guarded

(* Steps that change one request only.                                      *)
LEMMA TypedCall ==
  ASSUME Typed, NEW q \in Requests, NEW c \in Calls, CallOK(c),
         call' = [call EXCEPT ![q] = c],
         UNCHANGED <<accounts, cookie, user, loading, sock>>,
         mixed' \in [Tabs -> BOOLEAN],
         acts' \in 0 .. MaxActs, faults' \in 0 .. MaxFaults
  PROVE  Typed'
<1>1. call' \in [Requests -> Calls] /\ \A r \in Requests : CallOK(call'[r])
  BY DEF Typed, TypeOK
<1>2. QED
  BY <1>1 DEF Typed, TypeOK

LEMMA TypedPeople ==
  ASSUME Typed, NEW t \in Tabs, People(t)
  PROVE  Typed'
<1>1. CookieOf(t) \in Tokens /\ TokenOK(CookieOf(t)) /\ BrowserOf[t] \in Browsers
  BY BrowserAssumption DEF Typed, TypeOK, CookieOf
<1>2. CookieOf(t).sub \in Emails \union {Nobody} /\ user[t] \in Emails \union {Nobody}
  BY <1>1 DEF Tokens, Typed, TypeOK
<1>3. ASSUME NEW c \in Calls, CallOK(c), Act(t, c) PROVE Typed'
  <2>1. acts' \in 0 .. MaxActs /\ faults' \in 0 .. MaxFaults
    BY <1>3, BoundsAssumption DEF Act, Typed, TypeOK
  <2>2. PICK q \in Requests : call' = [call EXCEPT ![q] = c]
    BY <1>3 DEF Act, Start, Of
  <2>3. mixed' \in [Tabs -> BOOLEAN]
    <3>1. mixed \in [Tabs -> BOOLEAN]
      BY DEF Typed, TypeOK
    <3>2. QED
      BY <1>3, <3>1 DEF Act, Start
  <2>4. QED
    BY <1>3, <2>1, <2>2, <2>3, TypedCall DEF Act
<1>4. ASSUME Login(t) \/ Register(t) PROVE Typed'
  <2>1. PICK op \in {"login", "register"}, e \in Emails, p \in Passwords :
          Act(t, Request(op, CookieOf(t), e, p, Nobody))
    BY <1>4 DEF Login, Register
  <2>2. op \in Ops /\ Request(op, CookieOf(t), e, p, Nobody) \in Calls
        /\ CallOK(Request(op, CookieOf(t), e, p, Nobody))
    BY <1>1, RequestType DEF Ops, CallOK, Guarded, Request, Idle
  <2>3. QED
    BY <1>3, <2>1, <2>2
<1>5. ASSUME Logout(t) PROVE Typed'
  <2> DEFINE c == Request("logout", CookieOf(t), user[t], Nobody, Nobody)
  <2>1. "logout" \in Ops /\ Nobody \in Passwords \union {Nobody}
    BY DEF Ops
  <2>2. c \in Calls /\ c.op = "logout" /\ c.step = "sent" /\ c.token = CookieOf(t)
    BY <1>1, <1>2, RequestType DEF Ops, Request, Idle
  <2>3. CallOK(c)
    BY <1>1, <2>2 DEF CallOK, Guarded
  <2>4. QED
    BY <1>3, <1>5, <2>2, <2>3 DEF Logout
<1>6. ASSUME Refresh(t) PROVE Typed'
  <2> DEFINE c == Request("refresh", CookieOf(t), CookieOf(t).sub, Nobody, Nobody)
  <2>1. "refresh" \in Ops /\ c \in Calls /\ CallOK(c)
    BY <1>1, <1>2, RequestType DEF Ops, CallOK, Guarded, Request, Idle
  <2>2. QED
    BY <1>3, <1>6, <2>1 DEF Refresh
<1>7. ASSUME ChangePassword(t) PROVE Typed'
  <2>1. PICK p \in Passwords, q \in Passwords :
          Act(t, Request("change", CookieOf(t), CookieOf(t).sub, p, q))
    BY <1>7 DEF ChangePassword
  <2> DEFINE c == Request("change", CookieOf(t), CookieOf(t).sub, p, q)
  <2>2. "change" \in Ops /\ c \in Calls /\ CallOK(c)
    BY <1>1, <1>2, RequestType DEF Ops, CallOK, Guarded, Request, Idle
  <2>3. QED
    BY <1>3, <2>1, <2>2
<1>8. ASSUME Reload(t) PROVE Typed'
  <2>1. Me(CookieOf(t)) \in Calls /\ CallOK(Me(CookieOf(t)))
    BY <1>1, MeType
  <2>2. call' \in [Requests -> Calls] /\ \A r \in Requests : CallOK(call'[r])
    <3>1. PICK q \in Requests : call' = [r \in Requests |->
            IF r = q THEN Me(CookieOf(t))
            ELSE IF r \in Of(t) /\ call[r] # Idle
                 THEN [call[r] EXCEPT !.here = FALSE] ELSE call[r]]
      BY <1>8 DEF Reload, Of
    <3>2. ASSUME NEW r \in Requests
          PROVE  LET d == [call[r] EXCEPT !.here = FALSE] IN d \in Calls /\ CallOK(d)
      <4>1. call[r] \in Calls /\ CallOK(call[r])
        BY DEF Typed, TypeOK
      <4>2. QED
        BY <4>1 DEF Calls, CallOK
    <3>3. ASSUME NEW r \in Requests PROVE call'[r] \in Calls /\ CallOK(call'[r])
      BY <2>1, <3>1, <3>2 DEF Typed, TypeOK
    <3>4. QED
      BY <3>1, <3>3
  <2>3. /\ user' \in [Tabs -> Emails \union {Nobody}] /\ loading' \in [Tabs -> BOOLEAN]
        /\ sock' \in [Tabs -> Socks] /\ mixed' \in [Tabs -> BOOLEAN]
    BY <1>8, Constants DEF Reload, Typed, TypeOK, DisconnectSocket
  <2>4. acts' \in 0 .. MaxActs
    BY <1>8, BoundsAssumption DEF Reload, Typed, TypeOK
  <2>5. QED
    BY <1>8, <2>2, <2>3, <2>4 DEF Reload, Typed, TypeOK
<1>9. QED
  BY <1>4, <1>5, <1>6, <1>7, <1>8 DEF People

(* A request that has got one query further, or has failed.                 *)
LEMMA AnswerType ==
  ASSUME NEW c \in Calls, CallOK(c), c.op # "idle",
         NEW step \in {"found", "ok", "no"},
         NEW seen \in Passwords \union {Nobody},
         c.op \in Guarded /\ step # "no" => c.email \in Emails
  PROVE  /\ [c EXCEPT !.step = step, !.seen = seen] \in Calls
         /\ CallOK([c EXCEPT !.step = step, !.seen = seen])
<1> DEFINE d == [c EXCEPT !.step = step, !.seen = seen]
<1>1. d \in Calls
  BY DEF Calls
<1>2. /\ d.op = c.op /\ d.email = c.email /\ d.token = c.token /\ d.new = c.new
      /\ d.step = step
  BY DEF Calls
<1>3. QED
  BY <1>1, <1>2 DEF CallOK

LEMMA TypedServer ==
  ASSUME Typed, NEW q \in Requests, Server(q)
  PROVE  Typed'
<1> DEFINE c == call[q]
<1>1. c \in Calls /\ CallOK(c) /\ call \in [Requests -> Calls]
  BY DEF Typed, TypeOK
<1>2. ASSUME NEW step \in {"found", "ok", "no"}, NEW seen \in Passwords \union {Nobody},
             c.step # "no",
             c.op \in Guarded /\ step # "no" => c.email \in Emails,
             call' = [call EXCEPT ![q] = [c EXCEPT !.step = step, !.seen = seen]]
      PROVE  call' \in [Requests -> Calls] /\ \A r \in Requests : CallOK(call'[r])
  <2>1. c.op # "idle"
    BY <1>1, <1>2 DEF CallOK
  <2>2. /\ [c EXCEPT !.step = step, !.seen = seen] \in Calls
        /\ CallOK([c EXCEPT !.step = step, !.seen = seen])
    BY <1>1, <1>2, <2>1, AnswerType
  <2>3. QED
    BY <1>1, <1>2, <2>2 DEF Typed
<1>3. ASSUME NEW step \in {"ok", "no"}, Answer(q, step)
      PROVE  call' = [call EXCEPT ![q] = [c EXCEPT !.step = step, !.seen = c.seen]]
             /\ c.seen \in Passwords \union {Nobody}
  BY <1>1, <1>3 DEF Answer, Calls
<1>4. CASE FindUser(q)
  <2>1. c.step = "sent" /\ c.op # "idle" /\ c.step # "no"
    BY <1>1, <1>4 DEF FindUser, CallOK
  <2>2. call' \in [Requests -> Calls] /\ \A r \in Requests : CallOK(call'[r])
    <3>1. CASE c.op = "logout"
      BY <1>2, <1>3, <1>4, <2>1, <3>1 DEF FindUser, Guarded
    <3>2. CASE c.op # "logout" /\ c.op \in Guarded /\ c.token = NoToken
      BY <1>2, <1>3, <1>4, <2>1, <3>2 DEF FindUser
    <3>3. CASE c.op # "logout" /\ ~(c.op \in Guarded /\ c.token = NoToken)
      <4>1. c.token \in Tokens /\ c.op \in Ops
        BY <1>1, <2>1 DEF Calls
      <4>2. c.email \in Emails
        BY <1>1, <3>3, <4>1 DEF CallOK, TokenOK, Guarded, Ops, Tokens
      <4>3. accounts[c.email] \in Passwords \union {Nobody}
        BY <4>2 DEF Typed, TypeOK
      <4>4. call' = [call EXCEPT ![q] = [c EXCEPT !.step = "found",
                                                  !.seen = accounts[c.email]]]
        BY <1>1, <1>4, <3>3 DEF FindUser
      <4>5. QED
        BY <1>2, <2>1, <4>2, <4>3, <4>4
    <3>4. QED
      BY <3>1, <3>2, <3>3
  <2>3. QED
    BY <1>4, <2>2 DEF FindUser, Typed, TypeOK, bounds
<1>5. CASE SignIn(q)
  <2>1. c.step = "found" /\ (c.op \in Guarded => c.email \in Emails)
    BY <1>1, <1>5 DEF SignIn, CallOK
  <2>2. PICK step \in {"ok", "no"} : Answer(q, step)
    BY <1>5 DEF SignIn
  <2>3. call' \in [Requests -> Calls] /\ \A r \in Requests : CallOK(call'[r])
    BY <1>2, <1>3, <2>1, <2>2
  <2>4. QED
    BY <1>5, <2>3 DEF SignIn, Typed, TypeOK, bounds
<1>6. CASE CreateUser(q) \/ UpdateUser(q)
  <2>1. c.step = "found" /\ c.op \in {"register", "change"} /\ c.email \in Emails
        /\ (c.op = "change" => c.new \in Passwords)
    BY <1>1, <1>6 DEF CreateUser, UpdateUser, CallOK, Guarded
  <2>2. PICK step \in {"ok", "no"} : Answer(q, step)
    BY <1>6 DEF CreateUser, UpdateUser
  <2>3. call' \in [Requests -> Calls] /\ \A r \in Requests : CallOK(call'[r])
    BY <1>2, <1>3, <2>1, <2>2
  <2>4. c.pass \in Passwords \union {Nobody} /\ c.new \in Passwords \union {Nobody}
    BY <1>1 DEF Calls
  <2>5. accounts' \in [Emails -> Passwords \union {Nobody}]
    BY <1>6, <2>4 DEF CreateUser, UpdateUser, Typed, TypeOK
  <2>6. QED
    BY <1>6, <2>3, <2>5 DEF CreateUser, UpdateUser, Typed, TypeOK, bounds
<1>7. QED
  BY <1>4, <1>5, <1>6 DEF Server

LEMMA TypedPage ==
  ASSUME Typed, NEW q \in Requests, Page(q)
  PROVE  Typed'
<1> DEFINE c == call[q]
<1> USE RequestAssumption
<1>1. c \in Calls /\ CallOK(c) /\ call \in [Requests -> Calls]
  BY DEF Typed, TypeOK
<1>2. ASSUME Hang(q)
      PROVE  call' \in [Requests -> Calls] /\ \A r \in Requests : CallOK(call'[r])
  <2>1. CallOK(Idle)
    BY DEF CallOK, Idle, TokenOK, NoToken, Guarded
  <2>2. QED
    BY <1>1, <1>2, <2>1, Constants DEF Hang, Typed
<1>3. ASSUME NEW token \in Tokens, TokenOK(token), SetCookie(TabOf[q], token)
      PROVE  cookie' \in [Browsers -> Tokens] /\ \A b \in Browsers : TokenOK(cookie'[b])
  BY <1>3 DEF SetCookie, Typed, TypeOK
<1>4. ASSUME NEW e \in Emails, NEW n \in BOOLEAN
      PROVE  [sub |-> e, named |-> n] \in Tokens /\ TokenOK([sub |-> e, named |-> n])
  BY NobodyAssumption DEF Tokens, TokenOK
<1>5. CASE LoginAnswered(q)
  <2>1. CASE c.step = "ok"
    <3> DEFINE token == [sub |-> c.email, named |-> TRUE]
    <3>1. c.email \in Emails
      BY <1>1, <1>5 DEF LoginAnswered, Done, CallOK
    <3>2. token \in Tokens /\ TokenOK(token)
      BY <1>4, <3>1
    <3>3. SetCookie(TabOf[q], token) /\ call' = [call EXCEPT ![q] = Me(token)]
      BY <1>5, <2>1 DEF LoginAnswered
    <3>4. cookie' \in [Browsers -> Tokens] /\ \A b \in Browsers : TokenOK(cookie'[b])
      BY <1>3, <3>2, <3>3
    <3>5. Me(token) \in Calls /\ CallOK(Me(token))
      BY <3>2, MeType
    <3>6. call' \in [Requests -> Calls] /\ \A r \in Requests : CallOK(call'[r])
      BY <1>1, <3>3, <3>5 DEF Typed
    <3>7. QED
      BY <1>5, <2>1, <3>4, <3>6 DEF LoginAnswered, Typed, TypeOK, bounds
  <2>2. CASE c.step # "ok"
    BY <1>2, <1>5, <2>2 DEF LoginAnswered, Typed, TypeOK, bounds
  <2>3. QED
    BY <2>1, <2>2
<1>6. CASE MeAnswered(q)
  <2>1. c.email \in Emails \union {Nobody}
    BY <1>1 DEF Calls
  <2>2. user' \in [Tabs -> Emails \union {Nobody}] /\ sock' \in [Tabs -> Socks]
    BY <1>6, <2>1, Constants
    DEF MeAnswered, ConnectSocket, DisconnectSocket, Typed, TypeOK
  <2>3. QED
    BY <1>2, <1>6, <2>2 DEF MeAnswered, Typed, TypeOK, bounds
<1>7. CASE LogoutAnswered(q)
  <2>1. cookie' \in [Browsers -> Tokens] /\ \A b \in Browsers : TokenOK(cookie'[b])
    <3>1. TokenOK(NoToken) /\ NoToken \in Tokens
      BY Constants DEF TokenOK
    <3>2. QED
      BY <1>3, <1>7, <3>1 DEF LogoutAnswered, Typed, TypeOK
  <2>2. user' \in [Tabs -> Emails \union {Nobody}] /\ sock' \in [Tabs -> Socks]
    BY <1>7, Constants DEF LogoutAnswered, DisconnectSocket, Typed, TypeOK
  <2>3. QED
    BY <1>2, <1>7, <2>1, <2>2 DEF LogoutAnswered, Typed, TypeOK, bounds
<1>8. CASE RefreshAnswered(q)
  <2>1. cookie' \in [Browsers -> Tokens] /\ \A b \in Browsers : TokenOK(cookie'[b])
    <3>1. CASE c.step = "ok"
      <4>1. c.email \in Emails
        BY <1>1, <1>8, <3>1 DEF RefreshAnswered, Done, CallOK, Guarded
      <4>2. QED
        BY <1>3, <1>4, <1>8, <3>1, <4>1 DEF RefreshAnswered
    <3>2. CASE c.step # "ok"
      BY <1>8, <3>2 DEF RefreshAnswered, Typed, TypeOK
    <3>3. QED
      BY <3>1, <3>2
  <2>2. QED
    BY <1>2, <1>8, <2>1 DEF RefreshAnswered, Typed, TypeOK, bounds
<1>9. CASE OtherAnswered(q) \/ Unheard(q)
  BY <1>2, <1>9 DEF OtherAnswered, Unheard, Typed, TypeOK, bounds
<1>10. QED
  BY <1>5, <1>6, <1>7, <1>8, <1>9 DEF Page

LEMMA TypedRest ==
  ASSUME Typed, NEW t \in Tabs, Handshake(t) \/ Drop(t)
  PROVE  Typed'
<1>1. CASE Handshake(t)
  <2>1. CookieOf(t) \in Tokens
    BY BrowserAssumption DEF Typed, TypeOK, CookieOf
  <2>2. sock' \in [Tabs -> Socks]
    BY <1>1, <2>1 DEF Handshake, SpeaksFor, Tokens, Socks, Typed, TypeOK
  <2>3. QED
    BY <1>1, <2>2 DEF Handshake, Typed, TypeOK, bounds
<1>2. CASE Drop(t)
  BY <1>2, Constants, BoundsAssumption DEF Drop, Typed, TypeOK
<1>3. QED
  BY <1>1, <1>2

LEMMA TypedFail ==
  ASSUME Typed, NEW q \in Requests, Fail(q)
  PROVE  Typed'
<1> DEFINE c == call[q]
<1>1. c \in Calls /\ CallOK(c) /\ call \in [Requests -> Calls]
  BY DEF Typed, TypeOK
<1>2. c.op # "idle" /\ c.seen \in Passwords \union {Nobody}
  BY <1>1 DEF Fail, CallOK, Calls
<1>3. [c EXCEPT !.step = "no", !.seen = c.seen] \in Calls
      /\ CallOK([c EXCEPT !.step = "no", !.seen = c.seen])
  BY <1>1, <1>2, AnswerType
<1>4. call' = [call EXCEPT ![q] = [c EXCEPT !.step = "no", !.seen = c.seen]]
  BY <1>1 DEF Fail, Answer, Calls
<1>5. call' \in [Requests -> Calls] /\ \A r \in Requests : CallOK(call'[r])
  BY <1>1, <1>3, <1>4 DEF Typed
<1>6. faults' \in 0 .. MaxFaults
  BY BoundsAssumption DEF Fail, Typed, TypeOK
<1>7. QED
  BY <1>5, <1>6 DEF Fail, Typed, TypeOK

LEMMA TypedInit == Init => Typed
<1> SUFFICES ASSUME Init PROVE Typed
  OBVIOUS
<1>1. TokenOK(NoToken) /\ Me(NoToken) \in Calls /\ CallOK(Me(NoToken))
  BY Constants, MeType DEF TokenOK
<1>2. CallOK(Idle)
  BY DEF CallOK, Idle, TokenOK, NoToken, Guarded
<1>3. call \in [Requests -> Calls] /\ \A q \in Requests : CallOK(call[q])
  BY <1>1, <1>2, Constants DEF Init
<1>4. QED
  BY <1>1, <1>3, Constants, BoundsAssumption DEF Init, Typed, TypeOK

LEMMA TypedNext == Typed /\ [Next]_vars => Typed'
<1> SUFFICES ASSUME Typed, [Next]_vars PROVE Typed'
  OBVIOUS
<1>1. ASSUME NEW b \in Browsers, Expire(b) PROVE Typed'
  <2>1. faults' \in 0 .. MaxFaults
    BY <1>1, BoundsAssumption DEF Expire, Typed, TypeOK
  <2>2. QED
    BY <1>1, <2>1, Constants DEF Expire, Typed, TypeOK, TokenOK
<1>2. CASE UNCHANGED vars
  BY <1>2 DEF vars, Typed, TypeOK
<1>3. QED
  BY <1>1, <1>2, TypedPeople, TypedServer, TypedPage, TypedRest, TypedFail DEF Next

(* Every variable keeps its type: requests, answers, tokens and sockets are *)
(* well formed whatever people do and whatever fails.                       *)
THEOREM TypeCorrect == Spec => []TypeOK
<1>1. Spec => []Typed
  BY TypedInit, TypedNext, PTL DEF Spec
<1>2. Typed => TypeOK
  BY DEF Typed
<1>3. QED
  BY <1>1, <1>2, PTL
-----------------------------------------------------------------------------
(* No socket without a user.                                                *)

LEMMA OrphanStep ==
  ASSUME Typed, NoOrphan, [Next]_vars
  PROVE  NoOrphan'
<1> USE RequestAssumption DEF NoOrphan
<1>1. sock \in [Tabs -> Socks] /\ user \in [Tabs -> Emails \union {Nobody}]
  BY DEF Typed, TypeOK
<1>2. ASSUME NEW t \in Tabs, People(t) PROVE NoOrphan'
  <2>1. CASE Reload(t)
    BY <1>1, <2>1 DEF Reload, DisconnectSocket
  <2>2. CASE UNCHANGED <<user, sock>>
    BY <2>2
  <2>3. QED
    BY <1>2, <2>1, <2>2
    DEF People, Login, Register, Logout, Refresh, ChangePassword, Act, Start
<1>3. ASSUME NEW q \in Requests, Server(q) PROVE NoOrphan'
  BY <1>3 DEF Server, FindUser, SignIn, CreateUser, UpdateUser
<1>4. ASSUME NEW q \in Requests, MeAnswered(q) PROVE NoOrphan'
  <2>1. CASE call[q].step = "ok"
    <3>1. CallOK(call[q]) /\ call[q].op = "me"
      BY <1>4 DEF MeAnswered, Done, Typed
    <3>2. call[q].email # Nobody
      BY <2>1, <3>1, NobodyAssumption DEF CallOK, Guarded
    <3>3. user' = [user EXCEPT ![TabOf[q]] = call[q].email] /\ ConnectSocket(TabOf[q])
      BY <1>4, <2>1 DEF MeAnswered
    <3>4. QED
      BY <1>1, <3>2, <3>3 DEF ConnectSocket
  <2>2. CASE call[q].step # "ok"
    BY <1>1, <1>4, <2>2 DEF MeAnswered, DisconnectSocket
  <2>3. QED
    BY <2>1, <2>2
<1>5. ASSUME NEW q \in Requests, LogoutAnswered(q) PROVE NoOrphan'
  BY <1>1, <1>5 DEF LogoutAnswered, DisconnectSocket
<1>6. ASSUME NEW q \in Requests,
             LoginAnswered(q) \/ RefreshAnswered(q) \/ OtherAnswered(q) \/ Unheard(q)
      PROVE  NoOrphan'
  BY <1>6 DEF LoginAnswered, RefreshAnswered, OtherAnswered, Unheard
<1>7. ASSUME NEW t \in Tabs, Handshake(t) \/ Drop(t) PROVE NoOrphan'
  <2>1. sock[t] # Closed
    BY <1>7 DEF Handshake, Drop, Opening, Closed
  <2>2. QED
    BY <1>1, <1>7, <2>1 DEF Handshake, Drop
<1>8. ASSUME (\E b \in Browsers : Expire(b)) \/ (\E q \in Requests : Fail(q))
      PROVE  NoOrphan'
  BY <1>8 DEF Expire, Fail
<1>9. CASE UNCHANGED vars
  BY <1>9 DEF vars
<1>10. QED
  BY <1>2, <1>3, <1>4, <1>5, <1>6, <1>7, <1>8, <1>9 DEF Next, Page

LEMMA TypedAlways == Spec => [](Typed /\ NoOrphan)
<1>1. Init => NoOrphan
  BY DEF Init, NoOrphan
<1>2. QED
  BY <1>1, TypedInit, TypedNext, OrphanStep, PTL DEF Spec

(* However many tabs share a cookie: one that shows no user has no socket,  *)
(* neither open nor on its way.                                             *)
THEOREM Orphanless == Spec => []NoOrphan
  BY TypedAlways, PTL

(* However many registrations of an e-mail interleave with each other, with *)
(* logins and with failures: the password of an account changes only by a   *)
(* request to change it.                                                    *)
THEOREM AccountsKept == Spec => NeverTakenOver
<1> DEFINE Kept == \A e \in Emails : accounts[e] # Nobody /\ accounts'[e] # accounts[e] =>
                    \E q \in Requests : call[q].op = "change" /\ call[q].email = e
<1>1. ASSUME Typed, [Next]_vars PROVE Kept
  <2>1. accounts \in [Emails -> Passwords \union {Nobody}]
    BY <1>1 DEF Typed, TypeOK
  <2>2. ASSUME NEW q \in Requests, CreateUser(q) PROVE Kept
    BY <2>1, <2>2 DEF CreateUser, Unique
  <2>3. ASSUME NEW q \in Requests, UpdateUser(q) PROVE Kept
    BY <2>1, <2>3 DEF UpdateUser
  <2>4. ASSUME UNCHANGED accounts PROVE Kept
    BY <2>4
  <2>5. ASSUME NEW t \in Tabs, People(t) PROVE Kept
    BY <2>4, <2>5
    DEF People, Login, Register, Logout, Refresh, ChangePassword, Reload, Act
  <2>6. ASSUME NEW q \in Requests, FindUser(q) \/ SignIn(q) PROVE Kept
    BY <2>4, <2>6 DEF FindUser, SignIn
  <2>7. ASSUME NEW q \in Requests, Page(q) PROVE Kept
    BY <2>4, <2>7 DEF Page, LoginAnswered, MeAnswered, LogoutAnswered,
       RefreshAnswered, OtherAnswered, Unheard
  <2>8. ASSUME NEW t \in Tabs, Handshake(t) \/ Drop(t) PROVE Kept
    BY <2>4, <2>8 DEF Handshake, Drop
  <2>9. ASSUME (\E b \in Browsers : Expire(b)) \/ (\E q \in Requests : Fail(q))
        PROVE  Kept
    BY <2>4, <2>9 DEF Expire, Fail
  <2> HIDE DEF Kept
  <2>10. ASSUME UNCHANGED vars PROVE Kept
    BY <2>4, <2>10 DEF vars
  <2>11. QED
    BY <1>1, <2>2, <2>3, <2>5, <2>6, <2>7, <2>8, <2>9, <2>10 DEF Next, Server
<1>2. Typed /\ [Next]_vars => [Kept]_vars
  BY <1>1
<1>3. QED
  BY <1>2, TypedAlways, PTL DEF Spec, NeverTakenOver
-----------------------------------------------------------------------------
(* One tab per browser: the socket and the page speak of the same user.     *)

(* Tabs that share a cookie break this: one logs in as somebody else, and   *)
(* the socket of the other comes back as that user.                         *)
OneTab == \A t, u \in Tabs : BrowserOf[t] = BrowserOf[u] => t = u

(* A request of a tab that waits for login or getMe finds no user, and getMe*)
(* is for the cookie; refresh renews the token of the user shown.           *)
Fits(t, c) ==
  /\ c.op \in {"login", "me"} => user[t] = Nobody
  /\ c.op = "me" => CookieOf(t).sub \in {Nobody, c.email}
  /\ c.op = "refresh" => user[t] # Nobody /\ c.email \in {Nobody, user[t]}

(* While requests are not mixed there is one at a time, and the cookie of a *)
(* tab that shows a user is that user's or none.                            *)
Agree(t) ==
  ~mixed[t] =>
    /\ \A q, r \in UnderWay(t) : q = r
    /\ \A q \in UnderWay(t) : Fits(t, call[q])
    /\ user[t] # Nobody => CookieOf(t).sub \in {Nobody, user[t]}
    /\ sock[t].state = "open" => sock[t].user = user[t]
    /\ sock[t].state = "refused" => CookieOf(t) = NoToken \/ ~CookieOf(t).named

Agreed == Typed /\ NoOrphan /\ \A t \in Tabs : Agree(t)

(* What a request is for, of which tab, and whether it is heard.            *)
Alike(c, d) == c.op = d.op /\ c.email = d.email /\ c.here = d.here

LEMMA AgreeSame ==
  ASSUME NEW t \in Tabs, Agree(t), CookieOf(t)' = CookieOf(t), user'[t] = user[t],
         \A q \in Of(t) : Alike(call'[q], call[q]),
         sock'[t] = sock[t], mixed'[t] = mixed[t]
  PROVE  Agree(t)'
<1>1. UnderWay(t)' = UnderWay(t)
  BY DEF UnderWay, Of, Alike
<1>2. ASSUME NEW q \in UnderWay(t), Fits(t, call[q]) PROVE Fits(t, call[q])'
  <2>1. call'[q].op = call[q].op /\ call'[q].email = call[q].email
    BY <1>2 DEF UnderWay, Alike
  <2>2. QED
    BY <1>2, <2>1 DEF Fits
<1>3. QED
  BY <1>1, <1>2 DEF Agree

(* A step of one tab leaves the others alone.                               *)
LEMMA AgreeOthers ==
  ASSUME Agreed, OneTab, NEW t \in Tabs, NEW u \in Tabs, u # t,
         \/ UNCHANGED cookie
         \/ \E token \in Tokens : SetCookie(t, token),
         user'[u] = user[u], sock'[u] = sock[u], mixed'[u] = mixed[u],
         \A q \in Requests : TabOf[q] # t => call'[q] = call[q]
  PROVE  Agree(u)'
<1>1. BrowserOf[u] # BrowserOf[t]
  BY DEF OneTab
<1>2. CookieOf(u)' = CookieOf(u)
  BY <1>1, BrowserAssumption DEF SetCookie, CookieOf, Agreed, Typed, TypeOK
<1>3. \A q \in Of(u) : Alike(call'[q], call[q])
  BY DEF Of, Alike
<1>4. QED
  BY <1>2, <1>3, AgreeSame DEF Agreed

LEMMA AgreePeople ==
  ASSUME Agreed, NEW t \in Tabs, People(t)
  PROVE  Agree(t)'
<1>1. /\ call \in [Requests -> Calls] /\ user \in [Tabs -> Emails \union {Nobody}]
      /\ sock \in [Tabs -> Socks] /\ CookieOf(t) \in Tokens
      /\ mixed \in [Tabs -> BOOLEAN]
  BY BrowserAssumption DEF Agreed, Typed, TypeOK, CookieOf
<1>2. Agree(t) /\ (user[t] = Nobody => sock[t] = Closed)
  BY DEF Agreed, NoOrphan
<1>3. ASSUME NEW c \in Calls, c.op = "login" => user[t] = Nobody, c.op # "me", c.here,
             c.op = "refresh" => user[t] # Nobody /\ c.email = CookieOf(t).sub, Act(t, c)
      PROVE  Agree(t)'
  <2>1. UNCHANGED <<cookie, user, sock>> /\ CookieOf(t)' = CookieOf(t)
    BY <1>3 DEF Act, CookieOf
  <2>2. PICK q \in Of(t) : call[q] = Idle /\ call' = [call EXCEPT ![q] = c]
    BY <1>3 DEF Act, Start
  <2>3. /\ mixed'[t] = IF c.op \notin Signing THEN mixed[t]
                       ELSE UnderWay(t) # {} \/ (mixed[t] /\ user[t] # Nobody)
        /\ mixed'[t] \in BOOLEAN
    BY <1>1, <1>3 DEF Act, Start
  <2>4. q \in Requests /\ q \notin UnderWay(t) /\ call'[q] = c
        /\ \A r \in Requests : r # q => call'[r] = call[r]
    BY <1>1, <2>2 DEF Of, UnderWay, Idle, Signing
  <2>5. CASE c.op \notin Signing
    <3>1. UnderWay(t)' = UnderWay(t)
      BY <2>4, <2>5 DEF UnderWay, Of
    <3>2. ASSUME NEW r \in UnderWay(t), Fits(t, call[r]) PROVE Fits(t, call[r])'
      <4>1. call'[r] = call[r]
        BY <2>4 DEF UnderWay, Of
      <4>2. QED
        BY <2>1, <3>2, <4>1 DEF Fits
    <3>3. QED
      BY <1>2, <2>1, <2>3, <2>5, <3>1, <3>2 DEF Agree
  <2>6. CASE c.op \in Signing /\ ~mixed'[t]
    <3>1. UnderWay(t) = {} /\ (~mixed[t] \/ user[t] = Nobody)
      BY <2>3, <2>6
    <3>2. UnderWay(t)' = {q}
      BY <1>3, <2>2, <2>4, <2>6, <3>1 DEF UnderWay, Of
    <3>3. user[t] # Nobody => CookieOf(t).sub \in {Nobody, user[t]}
      BY <1>2, <3>1 DEF Agree
    <3>4. Fits(t, call[q])'
      BY <1>3, <2>1, <2>4, <3>3 DEF Fits
    <3>5. /\ sock[t].state = "open" => sock[t].user = user[t]
          /\ sock[t].state = "refused" => CookieOf(t) = NoToken \/ ~CookieOf(t).named
      BY <1>2, <3>1 DEF Agree, Closed
    <3>6. QED
      BY <2>1, <3>2, <3>3, <3>4, <3>5 DEF Agree
  <2>7. CASE mixed'[t]
    BY <2>7 DEF Agree
  <2>8. QED
    BY <2>3, <2>5, <2>6, <2>7
<1>4. ASSUME NEW op \in Ops, NEW e \in Emails \union {Nobody},
             NEW p \in Passwords \union {Nobody}, NEW q \in Passwords \union {Nobody}
      PROVE  /\ Request(op, CookieOf(t), e, p, q) \in Calls
             /\ Request(op, CookieOf(t), e, p, q).op = op
             /\ Request(op, CookieOf(t), e, p, q).email = e
             /\ Request(op, CookieOf(t), e, p, q).here
  <2>1. Request(op, CookieOf(t), e, p, q) \in Calls
    BY <1>1, RequestType
  <2>2. QED
    BY <2>1 DEF Request, Idle
<1>5. /\ CookieOf(t).sub \in Emails \union {Nobody} /\ user[t] \in Emails \union {Nobody}
      /\ Nobody \in Passwords \union {Nobody}
      /\ {"login", "register", "logout", "refresh", "change", "me"} \subseteq Ops
  BY <1>1 DEF Tokens, Ops
<1>6. CASE Login(t) \/ Register(t)
  <2>1. PICK op \in {"login", "register"}, e \in Emails, p \in Passwords :
          Act(t, Request(op, CookieOf(t), e, p, Nobody))
    BY <1>6 DEF Login, Register
  <2>2. user[t] = Nobody
    BY <1>6 DEF Login, Register
  <2> DEFINE c == Request(op, CookieOf(t), e, p, Nobody)
  <2>3. c \in Calls /\ c.op = op /\ c.here /\ Act(t, c)
    BY <1>4, <1>5, <2>1
  <2> HIDE DEF c
  <2>4. QED
    BY <1>3, <2>1, <2>2, <2>3
<1>7. CASE Logout(t)
  <2> DEFINE c == Request("logout", CookieOf(t), user[t], Nobody, Nobody)
  <2>1. "logout" \in Ops /\ c \in Calls
    BY <1>1, <1>5, RequestType DEF Ops
  <2>2. c.op = "logout" /\ c.here
    BY DEF Request, Idle
  <2>3. Act(t, c)
    BY <1>7 DEF Logout
  <2> HIDE DEF c
  <2>4. QED
    BY <1>3, <2>1, <2>2, <2>3
<1>8. CASE Refresh(t)
  <2> DEFINE c == Request("refresh", CookieOf(t), CookieOf(t).sub, Nobody, Nobody)
  <2>1. "refresh" \in Ops /\ c \in Calls
    BY <1>1, <1>5, RequestType DEF Ops
  <2>2. c.op = "refresh" /\ c.here /\ c.email = CookieOf(t).sub
    BY DEF Request, Idle
  <2>3. Act(t, c) /\ user[t] # Nobody
    BY <1>8 DEF Refresh
  <2> HIDE DEF c
  <2>4. QED
    BY <1>3, <2>1, <2>2, <2>3
<1>9. CASE ChangePassword(t)
  <2>1. PICK p \in Passwords, q \in Passwords :
          Act(t, Request("change", CookieOf(t), CookieOf(t).sub, p, q))
    BY <1>9 DEF ChangePassword
  <2> DEFINE c == Request("change", CookieOf(t), CookieOf(t).sub, p, q)
  <2>2. c \in Calls /\ c.op = "change" /\ c.here /\ Act(t, c)
    BY <1>4, <1>5, <2>1
  <2> HIDE DEF c
  <2>3. QED
    BY <1>3, <2>1, <2>2
<1>10. CASE Reload(t)
  <2>1. user'[t] = Nobody /\ sock'[t] = Closed /\ CookieOf(t)' = CookieOf(t)
    BY <1>1, <1>10 DEF Reload, DisconnectSocket, CookieOf
  <2>2. PICK q \in Of(t) :
          /\ call'[q] = Me(CookieOf(t))
          /\ \A r \in Of(t) : r # q =>
               call'[r] = IF call[r] # Idle THEN [call[r] EXCEPT !.here = FALSE]
                          ELSE call[r]
    BY <1>10 DEF Reload, Of
  <2>3. Me(CookieOf(t)).op = "me" /\ Me(CookieOf(t)).email = CookieOf(t).sub
    BY <1>1, <1>5, RequestType DEF Me, Request, Idle, Ops
  <2>4. ASSUME NEW r \in Of(t), r # q PROVE ~call'[r].here \/ call'[r].op = "idle"
    <3>1. call[r] \in Calls
      BY <1>1 DEF Of
    <3>2. CASE call[r] = Idle
      <4>1. Idle.op = "idle" /\ call'[r] = Idle
        BY <2>2, <2>4, <3>2 DEF Idle
      <4>2. QED
        BY <4>1
    <3>3. CASE call[r] # Idle
      BY <2>2, <2>4, <3>1, <3>3 DEF Calls
    <3>4. QED
      BY <3>2, <3>3
  <2>5. UnderWay(t)' \subseteq {q}
    BY <2>4 DEF UnderWay, Of, Signing
  <2>6. Fits(t, call[q])'
    BY <2>1, <2>2, <2>3 DEF Fits
  <2>7. QED
    BY <2>1, <2>5, <2>6 DEF Agree, Closed
<1>11. QED
  BY <1>6, <1>7, <1>8, <1>9, <1>10 DEF People

LEMMA AgreeAnswers ==
  ASSUME Agreed, NEW q \in Requests, Server(q) \/ Fail(q), NEW t \in Tabs
  PROVE  Agree(t)'
<1>1. call \in [Requests -> Calls] /\ UNCHANGED <<cookie, user, sock, mixed>>
  BY DEF Agreed, Typed, TypeOK, Server, FindUser, SignIn, CreateUser, UpdateUser, Fail
<1>2. \A r \in Requests : Alike(call'[r], call[r])
  <2>1. call[q] \in Calls
    BY <1>1
  <2>2. CASE FindUser(q)
    BY <1>1, <2>1, <2>2 DEF FindUser, Answer, Calls, Alike
  <2>3. CASE SignIn(q)
    BY <1>1, <2>1, <2>3 DEF SignIn, Answer, Calls, Alike
  <2>4. CASE CreateUser(q)
    BY <1>1, <2>1, <2>4 DEF CreateUser, Answer, Calls, Alike
  <2>5. CASE UpdateUser(q)
    BY <1>1, <2>1, <2>5 DEF UpdateUser, Answer, Calls, Alike
  <2>6. CASE Fail(q)
    BY <1>1, <2>1, <2>6 DEF Fail, Answer, Calls, Alike
  <2>7. QED
    BY <2>2, <2>3, <2>4, <2>5, <2>6 DEF Server
<1>3. QED
  BY <1>1, <1>2, AgreeSame DEF Agreed, CookieOf, Of

(* An answer that is heard: of the others nothing changes.                  *)
LEMMA AgreePage ==
  ASSUME Agreed, NEW q \in Requests, Page(q)
  PROVE  Agree(TabOf[q])'
<1> DEFINE c == call[q]  t == TabOf[q]
<1>1. /\ call \in [Requests -> Calls] /\ user \in [Tabs -> Emails \union {Nobody}]
      /\ sock \in [Tabs -> Socks] /\ CookieOf(t) \in Tokens /\ TokenOK(CookieOf(t))
      /\ cookie \in [Browsers -> Tokens] /\ BrowserOf[t] \in Browsers
      /\ t \in Tabs /\ q \in Of(t)
  BY BrowserAssumption, RequestAssumption DEF Agreed, Typed, TypeOK, CookieOf, Of
<1>2. Agree(t) /\ CallOK(c) /\ (user[t] = Nobody => sock[t] = Closed)
  BY <1>1 DEF Agreed, Typed, NoOrphan
<1>3. UNCHANGED mixed
  BY DEF Page, LoginAnswered, MeAnswered, LogoutAnswered, RefreshAnswered,
     OtherAnswered, Unheard
<1>4. SUFFICES ASSUME ~mixed[t] PROVE Agree(t)'
  BY <1>3 DEF Agree
<1>5. ASSUME Hang(q) PROVE UnderWay(t)' = UnderWay(t) \ {q}
                          /\ \A r \in UnderWay(t)' : call'[r] = call[r]
  BY <1>1, <1>5 DEF Hang, UnderWay, Of, Idle, Signing
<1>6. ASSUME c.here, c.op \in Signing PROVE UnderWay(t) = {q} /\ Fits(t, c)
  <2>1. q \in UnderWay(t)
    BY <1>1, <1>6 DEF UnderWay
  <2>2. QED
    BY <1>2, <1>4, <2>1 DEF Agree
<1>7. CASE LoginAnswered(q) /\ c.step = "ok"
  <2> DEFINE token == [sub |-> c.email, named |-> TRUE]
  <2>1. /\ CookieOf(t)' = token /\ call' = [call EXCEPT ![q] = Me(token)]
        /\ user' = user /\ sock' = sock /\ c.op = "login" /\ c.here
    BY <1>1, <1>7 DEF LoginAnswered, SetCookie, CookieOf, Done
  <2>2. UnderWay(t) = {q} /\ user[t] = Nobody /\ sock[t] = Closed
    BY <1>2, <1>6, <2>1 DEF Fits, Signing
  <2>3. Me(token).op = "me" /\ Me(token).email = token.sub
    BY DEF Me, Request, Idle
  <2>4. /\ call'[q].op = "me" /\ call'[q].email = c.email /\ CookieOf(t)'.sub = c.email
        /\ user'[t] = Nobody /\ sock'[t].state = "none"
    BY <1>1, <2>1, <2>2, <2>3 DEF Closed
  <2>5. UnderWay(t)' \subseteq {q}
    BY <1>1, <2>1, <2>2 DEF UnderWay, Of
  <2>6. Fits(t, call[q])'
    BY <2>4 DEF Fits
  <2>7. QED
    BY <2>4, <2>5, <2>6 DEF Agree
<1>8. CASE (LoginAnswered(q) /\ c.step # "ok") \/ OtherAnswered(q) \/ Unheard(q)
  <2>1. Hang(q) /\ UNCHANGED <<cookie, user, sock>>
    BY <1>8 DEF LoginAnswered, OtherAnswered, Unheard
  <2>2. ASSUME NEW r \in UnderWay(t)' PROVE Fits(t, call[r])'
    BY <1>2, <1>4, <1>5, <2>1, <2>2 DEF Agree, Fits, CookieOf
  <2>3. QED
    BY <1>2, <1>3, <1>4, <1>5, <2>1, <2>2 DEF Agree, CookieOf
<1>9. CASE MeAnswered(q) /\ c.step = "ok"
  <2>1. /\ CookieOf(t)' = CookieOf(t) /\ Hang(q) /\ user'[t] = c.email
        /\ sock'[t] = IF sock[t] = Closed THEN Opening ELSE sock[t]
        /\ c.op = "me" /\ c.here
    BY <1>1, <1>9 DEF MeAnswered, ConnectSocket, Done, CookieOf
  <2>2. UnderWay(t) = {q} /\ user[t] = Nobody /\ CookieOf(t).sub \in {Nobody, c.email}
    BY <1>6, <2>1 DEF Fits, Signing
  <2>3. UnderWay(t)' = {} /\ sock'[t] = Opening
    BY <1>2, <1>5, <2>1, <2>2
  <2>4. QED
    BY <2>1, <2>2, <2>3 DEF Agree, Opening
<1>10. CASE (MeAnswered(q) /\ c.step # "ok") \/ LogoutAnswered(q)
  <2>1. Hang(q) /\ user'[t] = Nobody /\ sock'[t] = Closed /\ c.here /\ c.op \in Signing
    BY <1>1, <1>10 DEF MeAnswered, LogoutAnswered, DisconnectSocket, Done, Signing
  <2>2. UnderWay(t)' = {}
    BY <1>5, <1>6, <2>1
  <2>3. QED
    BY <2>1, <2>2 DEF Agree, Closed
<1>11. CASE RefreshAnswered(q)
  <2>1. /\ Hang(q) /\ user' = user /\ sock' = sock /\ c.op = "refresh" /\ c.here
        /\ \/ CookieOf(t)' = [sub |-> c.email, named |-> FALSE]
           \/ CookieOf(t)' = CookieOf(t)
    BY <1>1, <1>11 DEF RefreshAnswered, SetCookie, Done, CookieOf
  <2>2. UnderWay(t)' = {} /\ c.email \in {Nobody, user[t]}
    BY <1>5, <1>6, <2>1 DEF Fits, Signing
  <2>3. QED
    BY <1>2, <1>4, <2>1, <2>2 DEF Agree
<1>12. QED
  BY <1>7, <1>8, <1>9, <1>10, <1>11 DEF Page

LEMMA AgreeSocket ==
  ASSUME Agreed, NEW t \in Tabs, Handshake(t) \/ Drop(t)
  PROVE  Agree(t)'
<1>1. /\ sock \in [Tabs -> Socks] /\ CookieOf(t) \in Tokens /\ TokenOK(CookieOf(t))
  BY BrowserAssumption DEF Agreed, Typed, TypeOK, CookieOf
<1>2. Agree(t) /\ (user[t] = Nobody => sock[t] = Closed)
  BY DEF Agreed, NoOrphan
<1>3. UNCHANGED <<cookie, user, call, mixed>> /\ CookieOf(t)' = CookieOf(t)
  BY DEF Handshake, Drop, CookieOf
<1>4. SUFFICES ASSUME ~mixed[t] PROVE Agree(t)'
  BY <1>3 DEF Agree
<1>5. /\ UnderWay(t)' = UnderWay(t)
      /\ \A q \in UnderWay(t) : Fits(t, call[q])'
      /\ \A q, r \in UnderWay(t) : q = r
      /\ user[t] # Nobody => CookieOf(t).sub \in {Nobody, user[t]}
  BY <1>2, <1>3, <1>4 DEF Agree, UnderWay, Of, Fits
<1>6. CASE Handshake(t)
  <2>1. user[t] # Nobody
    BY <1>2, <1>6 DEF Handshake, Opening, Closed
  <2>2. CASE CookieOf(t) # NoToken /\ CookieOf(t).named
    <3>1. sock'[t] = [state |-> "open", user |-> CookieOf(t).sub]
      BY <1>1, <1>6, <2>2 DEF Handshake, SpeaksFor
    <3>2. CookieOf(t).sub = user[t]
      BY <1>1, <1>5, <2>1, <2>2 DEF TokenOK
    <3>3. QED
      BY <1>3, <1>5, <3>1, <3>2 DEF Agree
  <2>3. CASE ~(CookieOf(t) # NoToken /\ CookieOf(t).named)
    <3>1. sock'[t] = [state |-> "refused", user |-> Nobody]
      BY <1>1, <1>6, <2>3 DEF Handshake
    <3>2. QED
      BY <1>3, <1>5, <2>3, <3>1 DEF Agree
  <2>4. QED
    BY <2>2, <2>3
<1>7. CASE Drop(t)
  <2>1. sock'[t] = Opening
    BY <1>1, <1>7 DEF Drop
  <2>2. QED
    BY <1>3, <1>5, <2>1 DEF Agree, Opening
<1>8. QED
  BY <1>6, <1>7

LEMMA AgreeExpire ==
  ASSUME Agreed, NEW b \in Browsers, Expire(b), NEW t \in Tabs
  PROVE  Agree(t)'
<1>1. CookieOf(t)' = CookieOf(t) \/ CookieOf(t)' = NoToken
  BY BrowserAssumption DEF Expire, CookieOf, Agreed, Typed, TypeOK
<1>2. UNCHANGED <<user, sock, call, mixed>>
  BY DEF Expire
<1>3. UnderWay(t)' = UnderWay(t)
  BY <1>2 DEF UnderWay, Of
<1>4. ASSUME NEW q \in UnderWay(t), Fits(t, call[q]) PROVE Fits(t, call[q])'
  BY <1>1, <1>2, <1>4 DEF Fits, NoToken
<1>5. QED
  BY <1>1, <1>2, <1>3, <1>4 DEF Agreed, Agree, NoToken

(* A step of a tab, or of one of its requests, leaves the others alone.     *)
LEMMA AgreedTab ==
  ASSUME OneTab, Agreed, NEW t \in Tabs, NEW u \in Tabs, u # t,
         \/ People(t) \/ Handshake(t) \/ Drop(t)
         \/ \E q \in Of(t) : Page(q)
  PROVE  Agree(u)'
<1>1. /\ call \in [Requests -> Calls] /\ user \in [Tabs -> Emails \union {Nobody}]
      /\ sock \in [Tabs -> Socks] /\ mixed \in [Tabs -> BOOLEAN]
  BY DEF Agreed, Typed, TypeOK
<1>2. CASE People(t)
  <2>1. UNCHANGED cookie /\ user'[u] = user[u] /\ sock'[u] = sock[u]
        /\ mixed'[u] = mixed[u]
    BY <1>1, <1>2 DEF People, Login, Register, Logout, Refresh, ChangePassword,
       Reload, Act, Start, DisconnectSocket
  <2>2. ASSUME NEW r \in Requests, TabOf[r] # t PROVE call'[r] = call[r]
    <3>1. CASE Reload(t)
      BY <2>2, <3>1 DEF Reload, Of
    <3>2. CASE \E c : Act(t, c)
      BY <1>1, <2>2, <3>2 DEF Act, Start, Of
    <3>3. QED
      BY <1>2, <3>1, <3>2 DEF People, Login, Register, Logout, Refresh, ChangePassword
  <2>3. QED
    BY <2>1, <2>2, AgreeOthers
<1>3. CASE Handshake(t) \/ Drop(t)
  <2>1. UNCHANGED <<cookie, user, call, mixed>> /\ sock'[u] = sock[u]
    BY <1>1, <1>3 DEF Handshake, Drop
  <2>2. QED
    BY <2>1, AgreeOthers
<1>4. ASSUME NEW q \in Of(t), Page(q) PROVE Agree(u)'
  <2>1. q \in Requests /\ TabOf[q] = t /\ CallOK(call[q]) /\ call[q] \in Calls
    BY <1>1 DEF Of, Agreed, Typed
  <2>2. /\ user'[u] = user[u] /\ sock'[u] = sock[u] /\ mixed'[u] = mixed[u]
        /\ \A r \in Requests : r # q => call'[r] = call[r]
    BY <1>1, <1>4, <2>1 DEF Page, LoginAnswered, MeAnswered, LogoutAnswered,
       RefreshAnswered, OtherAnswered, Unheard, Hang, ConnectSocket, DisconnectSocket
  <2>3. UNCHANGED cookie \/ \E token \in Tokens : SetCookie(t, token)
    <3>1. CASE (LoginAnswered(q) \/ RefreshAnswered(q)) /\ call[q].step = "ok"
      <4>1. PICK n \in BOOLEAN : SetCookie(t, [sub |-> call[q].email, named |-> n])
        BY <2>1, <3>1 DEF LoginAnswered, RefreshAnswered
      <4>2. [sub |-> call[q].email, named |-> n] \in Tokens
        BY <2>1 DEF Calls, Tokens
      <4>3. QED
        BY <4>1, <4>2
    <3>2. CASE (LoginAnswered(q) \/ RefreshAnswered(q)) /\ call[q].step # "ok"
      BY <3>2 DEF LoginAnswered, RefreshAnswered
    <3>3. CASE LogoutAnswered(q)
      BY <2>1, <3>3, Constants DEF LogoutAnswered
    <3>4. CASE MeAnswered(q) \/ OtherAnswered(q) \/ Unheard(q)
      BY <3>4 DEF MeAnswered, OtherAnswered, Unheard
    <3>5. QED
      BY <1>4, <3>1, <3>2, <3>3, <3>4 DEF Page
  <2>4. QED
    BY <2>1, <2>2, <2>3, AgreeOthers
<1>5. QED
  BY <1>2, <1>3, <1>4

LEMMA AgreedNext ==
  ASSUME OneTab, Agreed, [Next]_vars
  PROVE  Agreed'
<1>1. Typed' /\ NoOrphan'
  BY TypedNext, OrphanStep DEF Agreed
<1>2. ASSUME NEW t \in Tabs, People(t) \/ Handshake(t) \/ Drop(t), NEW u \in Tabs
      PROVE  Agree(u)'
  BY <1>2, AgreePeople, AgreeSocket, AgreedTab
<1>3. ASSUME NEW q \in Requests, Server(q) \/ Page(q) \/ Fail(q), NEW u \in Tabs
      PROVE  Agree(u)'
  <2>1. TabOf[q] \in Tabs /\ q \in Of(TabOf[q])
    BY RequestAssumption DEF Of
  <2>2. QED
    BY <1>3, <2>1, AgreeAnswers, AgreePage, AgreedTab
<1>4. ASSUME UNCHANGED vars, NEW t \in Tabs PROVE Agree(t)'
  <2>1. CookieOf(t)' = CookieOf(t) /\ \A q \in Of(t) : Alike(call'[q], call[q])
    BY <1>4 DEF vars, CookieOf, Alike
  <2>2. QED
    BY <1>4, <2>1, AgreeSame DEF Agreed, vars
<1>5. QED
  BY <1>1, <1>2, <1>3, <1>4, AgreeExpire DEF Next, Agreed

LEMMA AgreedAlways ==
  ASSUME OneTab
  PROVE  Spec => []Agreed
<1>1. Init => Agreed
  <2> SUFFICES ASSUME Init PROVE Agreed
    OBVIOUS
  <2>1. NoOrphan
    BY DEF Init, NoOrphan
  <2>2. ASSUME NEW t \in Tabs PROVE Agree(t)
    <3>1. CookieOf(t) = NoToken /\ user[t] = Nobody /\ sock[t] = Closed
      BY BrowserAssumption DEF Init, CookieOf
    <3>2. PICK q \in Of(t) : \A p \in Of(t) : call[p] # Idle <=> p = q
      BY DEF Init
    <3>3. UnderWay(t) \subseteq {q}
      BY <3>2 DEF UnderWay, Idle, Signing
    <3>4. call[q] = Me(NoToken)
      BY <3>2 DEF Init, Of
    <3>5. Me(NoToken).op = "me"
      BY DEF Me, Request, Idle
    <3>6. Fits(t, call[q])
      BY <3>1, <3>4, <3>5 DEF Fits, NoToken
    <3>7. QED
      BY <3>1, <3>3, <3>6 DEF Agree, Closed
  <2>3. QED
    BY <2>1, <2>2, TypedInit DEF Agreed
<1>2. Agreed /\ [Next]_vars => Agreed'
  BY AgreedNext
<1>3. QED
  BY <1>1, <1>2, PTL DEF Spec

(* Every tab in a browser of its own, any number of tabs and of requests of *)
(* each at a time: a socket is admitted as the user its tab shows, as long  *)
(* as no two logins, logouts, getMe or refreshes of the tab have overlapped *)
(* since it was last loaded or signed out.                                  *)
THEOREM Agreement ==
  ASSUME OneTab
  PROVE  Spec => []SocketAgrees
<1>1. Agreed => SocketAgrees
  BY DEF Agreed, Agree, SocketAgrees
<1>2. QED
  BY <1>1, AgreedAlways, PTL

(* In the same circumstances a socket that has been refused stays without a *)
(* token that could open one.                                               *)
THEOREM RefusalsLast ==
  ASSUME OneTab
  PROVE  Spec => []RefusedForGood
<1>1. Agreed => RefusedForGood
  BY DEF Agreed, Agree, RefusedForGood
<1>2. QED
  BY <1>1, AgreedAlways, PTL
=============================================================================
