------------------------------ MODULE Accounts ------------------------------
(***************************************************************************)
(* Accounts and sessions: AuthController and AuthService on the table of   *)
(* users, the cookie of each browser, and in each tab the auth store, the  *)
(* socket that follows it and JwtSocketMiddleware, which admits it.        *)
(*                                                                         *)
(* A call is a record that goes through the queries of its handler, so     *)
(* two of them interleave at every await.  A password stands for its hash: *)
(* bcrypt.compare is equality.  Routes and toasts are left out: where a    *)
(* tab is follows from user and loading (PublicOnlyRoute, PrivateRoute).   *)
(***************************************************************************)
EXTENDS Naturals, FiniteSets

CONSTANTS Tabs, Browsers, Emails, Passwords,
          BrowserOf,     \* the browser of a tab, whose cookies it shares
          Requests,      \* bound on the requests under way at a time, ...
          TabOf,         \* ... each of a tab
          Nobody,        \* no user, no password
          MaxActs,       \* bound on what people do
          MaxFaults      \* bound on errors, lost answers, lost connections

ASSUME BrowserAssumption == BrowserOf \in [Tabs -> Browsers]
ASSUME RequestAssumption ==
  /\ TabOf \in [Requests -> Tabs]
  /\ \A t \in Tabs : \E q \in Requests : TabOf[q] = t
ASSUME NobodyAssumption == Nobody \notin Emails \union Passwords
ASSUME BoundsAssumption == MaxActs \in Nat /\ MaxFaults \in Nat

VARIABLES accounts,  \* the table of users: the password of each e-mail
          cookie,    \* per browser, the token in the cookie accessToken
          user,      \* per tab, the user of the auth store
          loading,   \* per tab, the flag of the auth store
          sock,      \* per tab, the socket of services/socket.ts
          call,      \* what each request is for, and how far it has come
          mixed,     \* history, per tab: see Start
          acts, faults

vars == <<accounts, cookie, user, loading, sock, call, mixed, acts, faults>>
bounds == <<acts, faults>>

(* A token of login carries the user name, one of refreshToken does not.    *)
Tokens == [sub : Emails \union {Nobody}, named : BOOLEAN]
NoToken == [sub |-> Nobody, named |-> FALSE]

Closed == [state |-> "none", user |-> Nobody]
Opening == [state |-> "opening", user |-> Nobody]
Socks == [state : {"none", "opening", "open", "refused"},
          user : Emails \union {Nobody}]

(* email and pass are what the form holds, or the user of the token; new is *)
(* the new password of changePassword; seen what the handler has read; here *)
(* says that the tab has not been loaded anew since.                        *)
Ops == {"me", "login", "register", "logout", "refresh", "change"}
Guarded == {"me", "refresh", "change"}                  \* JwtAuthGuard
Calls == [op : Ops \union {"idle"}, step : {"sent", "found", "ok", "no"},
          email : Emails \union {Nobody}, token : Tokens,
          pass : Passwords \union {Nobody}, new : Passwords \union {Nobody},
          seen : Passwords \union {Nobody}, here : BOOLEAN]
Idle == [op |-> "idle", step |-> "no", email |-> Nobody, token |-> NoToken,
         pass |-> Nobody, new |-> Nobody, seen |-> Nobody, here |-> TRUE]
Request(op, token, e, p, q) ==
  [Idle EXCEPT !.op = op, !.step = "sent", !.token = token,
               !.email = e, !.pass = p, !.new = q]
Me(token) == Request("me", token, token.sub, Nobody, Nobody)

Of(t) == {q \in Requests : TabOf[q] = t}
CookieOf(t) == cookie[BrowserOf[t]]
SetCookie(t, token) == cookie' = [cookie EXCEPT ![BrowserOf[t]] = token]

(* Mutants of DisconnectSocket: it forgets to; it looks at socket.connected. *)
DisconnectSocketForgets(t) == UNCHANGED sock
DisconnectSocketIfOpen(t) ==
  sock' = [sock EXCEPT ![t] = IF @.state = "open" THEN Closed ELSE @]

DisconnectSocket(t) == sock' = [sock EXCEPT ![t] = Closed]

(* It does nothing when there is a socket, even a refused one.              *)
ConnectSocket(t) ==
  sock' = [sock EXCEPT ![t] = IF @ = Closed THEN Opening ELSE @]

(* The application mounts and calls getMe: loading hides every page.        *)
Init ==
  /\ accounts = [e \in Emails |-> Nobody]
  /\ cookie = [b \in Browsers |-> NoToken]
  /\ user = [t \in Tabs |-> Nobody]
  /\ loading = [t \in Tabs |-> TRUE]
  /\ sock = [t \in Tabs |-> Closed]
  /\ call \in [Requests -> {Idle, Me(NoToken)}]
  /\ \A t \in Tabs : \E q \in Of(t) : \A p \in Of(t) : call[p] # Idle <=> p = q
  /\ mixed = [t \in Tabs |-> FALSE]
  /\ acts = 0 /\ faults = 0
-----------------------------------------------------------------------------
(* What people do.  A button is disabled while its request runs, but that   *)
(* is state of its component: who leaves the page (a link, Login.tsx:147)   *)
(* and comes back can press it again, and loading alone hides every page.   *)

(* The requests that set the cookie, the user or the socket.  mixed says    *)
(* that one was sent while another of the tab was under way, since the tab  *)
(* was loaded, or had no user and no such request.                          *)
Signing == {"me", "login", "logout", "refresh"}
UnderWay(t) == {q \in Of(t) : call[q].here /\ call[q].op \in Signing}

Start(t, request) ==
  /\ \E q \in Of(t) : call[q] = Idle /\ call' = [call EXCEPT ![q] = request]
  /\ mixed' = [mixed EXCEPT ![t] =
       IF request.op \notin Signing THEN @
       ELSE UnderWay(t) # {} \/ (@ /\ user[t] # Nobody)]

Act(t, request) ==
  /\ acts < MaxActs
  /\ ~loading[t]
  /\ acts' = acts + 1
  /\ Start(t, request)
  /\ UNCHANGED <<accounts, cookie, user, loading, sock, faults>>

Login(t) ==
  /\ user[t] = Nobody
  /\ \E e \in Emails, p \in Passwords :
       Act(t, Request("login", CookieOf(t), e, p, Nobody))

Register(t) ==
  /\ user[t] = Nobody
  /\ \E e \in Emails, p \in Passwords :
       Act(t, Request("register", CookieOf(t), e, p, Nobody))

Logout(t) ==
  /\ user[t] # Nobody
  /\ Act(t, Request("logout", CookieOf(t), user[t], Nobody, Nobody))

(* The pages do not use these two endpoints; their callers share the cookie. *)
Refresh(t) ==
  /\ user[t] # Nobody
  /\ Act(t, Request("refresh", CookieOf(t), CookieOf(t).sub, Nobody, Nobody))

ChangePassword(t) ==
  /\ user[t] # Nobody
  /\ \E p, q \in Passwords :
       Act(t, Request("change", CookieOf(t), CookieOf(t).sub, p, q))

(* The tab is loaded anew: its socket is closed and getMe called.  Of the   *)
(* requests under way nobody waits for the answer.                          *)
Reload(t) ==
  /\ acts < MaxActs
  /\ acts' = acts + 1
  /\ user' = [user EXCEPT ![t] = Nobody]
  /\ loading' = [loading EXCEPT ![t] = TRUE]
  /\ DisconnectSocket(t)
  /\ \E q \in Of(t) :
       /\ call[q] = Idle
       /\ call' = [r \in Requests |->
            IF r = q THEN Me(CookieOf(t))
            ELSE IF r \in Of(t) /\ call[r] # Idle
                 THEN [call[r] EXCEPT !.here = FALSE] ELSE call[r]]
  /\ mixed' = [mixed EXCEPT ![t] = FALSE]
  /\ UNCHANGED <<accounts, cookie, faults>>
-----------------------------------------------------------------------------
(* The server.                                                              *)

Answer(q, step) == call' = [call EXCEPT ![q].step = step]

(* The guard, then the query every handler but logout starts with.          *)
FindUser(q) ==
  /\ call[q].step = "sent"
  /\ IF call[q].op = "logout" THEN Answer(q, "ok")
     ELSE IF call[q].op \in Guarded /\ call[q].token = NoToken
          THEN Answer(q, "no")
          ELSE call' = [call EXCEPT ![q].step = "found",
                                    ![q].seen = accounts[call[q].email]]
  /\ UNCHANGED <<accounts, cookie, user, loading, sock, mixed, bounds>>

SignIn(q) ==
  /\ call[q].step = "found" /\ call[q].op \in {"login", "me", "refresh"}
  /\ Answer(q, IF /\ call[q].seen # Nobody
                  /\ call[q].op = "login" => call[q].seen = call[q].pass
               THEN "ok" ELSE "no")
  /\ UNCHANGED <<accounts, cookie, user, loading, sock, mixed, bounds>>

(* The index of the table.  Mutant: there is none.                          *)
NotUnique(e) == TRUE
Unique(e) == accounts[e] = Nobody

(* Somebody may have registered the e-mail since: the index refuses it.     *)
CreateUser(q) ==
  /\ call[q].step = "found" /\ call[q].op = "register"
  /\ IF call[q].seen = Nobody /\ Unique(call[q].email)
     THEN /\ accounts' = [accounts EXCEPT ![call[q].email] = call[q].pass]
          /\ Answer(q, "ok")
     ELSE Answer(q, "no") /\ UNCHANGED accounts
  /\ UNCHANGED <<cookie, user, loading, sock, mixed, bounds>>

UpdateUser(q) ==
  /\ call[q].step = "found" /\ call[q].op = "change"
  /\ IF call[q].seen # Nobody /\ call[q].seen = call[q].pass
     THEN /\ accounts' = [accounts EXCEPT ![call[q].email] = call[q].new]
          /\ Answer(q, "ok")
     ELSE Answer(q, "no") /\ UNCHANGED accounts
  /\ UNCHANGED <<cookie, user, loading, sock, mixed, bounds>>

(* An error, or an answer that is lost: what has been written stays.        *)
Fail(q) ==
  /\ faults < MaxFaults
  /\ call[q] # Idle /\ call[q].step # "no"
  /\ faults' = faults + 1
  /\ Answer(q, "no")
  /\ UNCHANGED <<accounts, cookie, user, loading, sock, mixed, acts>>
-----------------------------------------------------------------------------
(* The answers, in the tab.                                                 *)

Done(q, op) == call[q].here /\ call[q].op = op /\ call[q].step \in {"ok", "no"}
Hang(q) == call' = [call EXCEPT ![q] = Idle]

(* handleSubmit of the login page: getMe follows in the same handler.       *)
LoginAnswered(q) ==
  /\ Done(q, "login")
  /\ IF call[q].step = "ok"
     THEN LET token == [sub |-> call[q].email, named |-> TRUE] IN
          /\ SetCookie(TabOf[q], token)
          /\ loading' = [loading EXCEPT ![TabOf[q]] = TRUE]
          /\ call' = [call EXCEPT ![q] = Me(token)]
     ELSE Hang(q) /\ UNCHANGED <<cookie, loading>>
  /\ UNCHANGED <<accounts, user, sock, mixed, bounds>>

(* Mutants of MeAnswered: the socket is connected whatever the answer; the  *)
(* failure leaves loading as it is.                                         *)
MeConnectsAnyway(q) ==
  /\ Done(q, "me")
  /\ user' = [user EXCEPT ![TabOf[q]] = IF call[q].step = "ok" THEN call[q].email ELSE Nobody]
  /\ ConnectSocket(TabOf[q])
  /\ loading' = [loading EXCEPT ![TabOf[q]] = FALSE]
  /\ Hang(q)
  /\ UNCHANGED <<accounts, cookie, mixed, bounds>>
MeStaysLoading(q) ==
  /\ Done(q, "me")
  /\ user' = [user EXCEPT ![TabOf[q]] = IF call[q].step = "ok" THEN call[q].email ELSE Nobody]
  /\ IF call[q].step = "ok"
     THEN ConnectSocket(TabOf[q]) /\ loading' = [loading EXCEPT ![TabOf[q]] = FALSE]
     ELSE DisconnectSocket(TabOf[q]) /\ UNCHANGED loading
  /\ Hang(q)
  /\ UNCHANGED <<accounts, cookie, mixed, bounds>>

(* getMe of the auth store.                                                 *)
MeAnswered(q) ==
  /\ Done(q, "me")
  /\ IF call[q].step = "ok"
     THEN user' = [user EXCEPT ![TabOf[q]] = call[q].email] /\ ConnectSocket(TabOf[q])
     ELSE user' = [user EXCEPT ![TabOf[q]] = Nobody] /\ DisconnectSocket(TabOf[q])
  /\ loading' = [loading EXCEPT ![TabOf[q]] = FALSE]
  /\ Hang(q)
  /\ UNCHANGED <<accounts, cookie, mixed, bounds>>

(* handleLogout: its finally clause runs also when the request failed.      *)
LogoutAnswered(q) ==
  /\ Done(q, "logout")
  /\ IF call[q].step = "ok" THEN SetCookie(TabOf[q], NoToken) ELSE UNCHANGED cookie
  /\ user' = [user EXCEPT ![TabOf[q]] = Nobody]
  /\ DisconnectSocket(TabOf[q])
  /\ Hang(q)
  /\ UNCHANGED <<accounts, loading, mixed, bounds>>

RefreshAnswered(q) ==
  /\ Done(q, "refresh")
  /\ IF call[q].step = "ok"
     THEN SetCookie(TabOf[q], [sub |-> call[q].email, named |-> FALSE])
     ELSE UNCHANGED cookie
  /\ Hang(q)
  /\ UNCHANGED <<accounts, user, loading, sock, mixed, bounds>>

OtherAnswered(q) ==
  /\ Done(q, "register") \/ Done(q, "change")
  /\ Hang(q)
  /\ UNCHANGED <<accounts, cookie, user, loading, sock, mixed, bounds>>

(* Nobody is there for the answer.                                          *)
Unheard(q) ==
  /\ ~call[q].here /\ call[q].step \in {"ok", "no"}
  /\ Hang(q)
  /\ UNCHANGED <<accounts, cookie, user, loading, sock, mixed, bounds>>
-----------------------------------------------------------------------------
(* The socket.                                                              *)

(* Who the token speaks for.  Mutant: the id is taken from the wrong field. *)
SpeaksForName(token) == token.named
SpeaksFor(token) == token.sub

(* A refused socket does not try again; one whose connection is lost does,  *)
(* with the cookie of that moment.                                          *)
Handshake(t) ==
  /\ sock[t] = Opening
  /\ sock' = [sock EXCEPT ![t] =
       IF CookieOf(t) # NoToken /\ CookieOf(t).named
       THEN [state |-> "open", user |-> SpeaksFor(CookieOf(t))]
       ELSE [state |-> "refused", user |-> Nobody]]
  /\ UNCHANGED <<accounts, cookie, user, loading, call, mixed, bounds>>

Drop(t) ==
  /\ faults < MaxFaults
  /\ sock[t].state = "open"
  /\ faults' = faults + 1
  /\ sock' = [sock EXCEPT ![t] = Opening]
  /\ UNCHANGED <<accounts, cookie, user, loading, call, mixed, acts>>

(* The cookie and its token reach their age: both are as good as none.      *)
Expire(b) ==
  /\ faults < MaxFaults
  /\ cookie[b] # NoToken
  /\ faults' = faults + 1
  /\ cookie' = [cookie EXCEPT ![b] = NoToken]
  /\ UNCHANGED <<accounts, user, loading, sock, call, mixed, acts>>
-----------------------------------------------------------------------------
People(t) ==
  Login(t) \/ Register(t) \/ Logout(t) \/ Refresh(t) \/ ChangePassword(t)
  \/ Reload(t)
Server(q) == FindUser(q) \/ SignIn(q) \/ CreateUser(q) \/ UpdateUser(q)
Page(q) ==
  \/ LoginAnswered(q) \/ MeAnswered(q) \/ LogoutAnswered(q)
  \/ RefreshAnswered(q) \/ OtherAnswered(q) \/ Unheard(q)

Next ==
  \/ \E t \in Tabs : People(t) \/ Handshake(t) \/ Drop(t)
  \/ \E q \in Requests : Server(q) \/ Page(q) \/ Fail(q)
  \/ \E b \in Browsers : Expire(b)

Spec == Init /\ [][Next]_vars
(* Requests are answered, or fail; nobody has to act.                       *)
FairSpec ==
  /\ Spec
  /\ \A q \in Requests : WF_vars(Server(q) \/ Page(q))
  /\ \A t \in Tabs : WF_vars(Handshake(t))
-----------------------------------------------------------------------------
TypeOK ==
  /\ accounts \in [Emails -> Passwords \union {Nobody}]
  /\ cookie \in [Browsers -> Tokens]
  /\ user \in [Tabs -> Emails \union {Nobody}]
  /\ loading \in [Tabs -> BOOLEAN]
  /\ sock \in [Tabs -> Socks]
  /\ call \in [Requests -> Calls] /\ mixed \in [Tabs -> BOOLEAN]
  /\ acts \in 0 .. MaxActs /\ faults \in 0 .. MaxFaults

(* A tab whose store has no user has no socket, neither open nor on its way *)
(* (auth-store.ts): nobody stays online by logging out or by being refused. *)
NoOrphan == \A t \in Tabs : user[t] = Nobody => sock[t] = Closed

(* A browser with one tab whose requests have not been mixed: the socket is *)
(* admitted as the user the tab shows, over any sequence of logins, reloads,*)
(* reconnections and lost answers (connectSocket, JwtSocketMiddleware).  Two*)
(* logins under way at once break it: the socket that the first one opened  *)
(* stays when the second one shows another user (socket.ts:6).              *)
SocketAgrees ==
  \A t \in Tabs : ~mixed[t] /\ sock[t].state = "open" => sock[t].user = user[t]

(* In the same circumstances a socket that was refused belongs to a browser *)
(* whose token could not open one now either; a tab with a good token has   *)
(* not been left behind with a dead socket.                                 *)
RefusedForGood ==
  \A t \in Tabs : ~mixed[t] /\ sock[t].state = "refused" =>
    CookieOf(t) = NoToken \/ ~CookieOf(t).named

(* However two registrations of an e-mail interleave, the second does not   *)
(* change the password of the account the first made (AuthService.register  *)
(* looks for the e-mail and creates the user in two queries).               *)
NeverTakenOver ==
  [][\A e \in Emails : accounts[e] # Nobody /\ accounts'[e] # accounts[e] =>
       \E q \in Requests : call[q].op = "change" /\ call[q].email = e]_vars

(* getMe always ends: no page stays behind its spinner.                     *)
Loads == \A t \in Tabs : loading[t] ~> ~loading[t]
=============================================================================
