------------------------------ MODULE Session -------------------------------
(***************************************************************************)
(* The session of one user in one browser: a 15-minute access cookie and a *)
(* rotating refresh token, shared by every tab through the cookie jar.     *)
(* Each tab answers a 401 with one shared refresh and one retry (the       *)
(* interceptor of lib/api.ts, which the refresh call goes through too); the*)
(* server's Refresh runs statement by statement (handler/auth.go).         *)
(***************************************************************************)
EXTENDS Naturals, FiniteSets

CONSTANTS Tabs, Requests,
          TabOf,          \* the tab a request is made in
          MaxTokens,      \* refresh tokens ever issued (a bound)
          MaxEvents       \* expiries, faults, logouts, logins, admin steps (a bound)

ASSUME TabsAssumption == TabOf \in [Requests -> Tabs]
ASSUME BoundsAssumption == MaxTokens \in Nat \ {0} /\ MaxEvents \in Nat

Tokens == 1 .. MaxTokens
None == 0

VARIABLES page,       \* the path each tab shows: a dashboard or "/"
          jar,        \* the cookies
          token,      \* the refresh_tokens rows
          user,       \* the users row
          req,        \* the API calls of the pages
          refresh,    \* the POST /auth/refresh a call has caused
          promise,    \* refreshPromise: the calls whose refresh a tab waits for
          logout,     \* the POST /auth/logout of each tab
          events,     \* counter of the bound
          excused     \* history: something ended or forked the session

vars == <<page, jar, token, user, req, refresh, promise, logout, events, excused>>

Waiting(w) == {r \in Requests : TabOf[r] = w /\ req[r].at = "waiting"}
Issued == {t \in Tokens : token[t] # "unused"}
LiveTokens == {t \in Tokens : token[t] = "live"}
NoRefresh == [at |-> "none", carries |-> None, new |-> None, out |-> "none"]
UnderWay(r) == refresh[r].at # "none"

Init ==
  /\ page = [w \in Tabs |-> "dashboard"]
  /\ jar \in [access : BOOLEAN, refresh : {1}]    \* opened before or after the expiry
  /\ token = [t \in Tokens |-> IF t = 1 THEN "live" ELSE "unused"]
  /\ user = "ok"
  /\ req = [r \in Requests |-> [at |-> "idle", access |-> FALSE, retry |-> FALSE, out |-> "none"]]
  /\ refresh = [r \in Requests |-> NoRefresh]
  /\ promise = [w \in Tabs |-> {}]
  /\ logout = [w \in Tabs |-> [at |-> "none", carries |-> None]]
  /\ events = 0 /\ excused = FALSE
-----------------------------------------------------------------------------
Event == events < MaxEvents /\ events' = events + 1

(* The pages. *)

\* A request leaves with the cookies of that moment.
Sent(retry) == [at |-> "sent", access |-> jar.access, retry |-> retry, out |-> "none"]

Ask(r) ==
  /\ page[TabOf[r]] = "dashboard" /\ req[r].at = "idle"
  /\ req' = [req EXCEPT ![r] = Sent(FALSE)]
  /\ UNCHANGED <<page, jar, token, user, refresh, promise, logout, events, excused>>

\* The middleware: the access cookie, then the user's row.
Serve(r) ==
  /\ req[r].at = "sent"
  /\ req' = [req EXCEPT ![r].at = "answered",
                        ![r].out = IF ~req[r].access \/ user = "deleted" THEN "401"
                                   ELSE IF user = "suspended" THEN "403" ELSE "ok"]
  /\ UNCHANGED <<page, jar, token, user, refresh, promise, logout, events, excused>>

Settled == [at |-> "settled", access |-> FALSE, retry |-> FALSE, out |-> "none"]

\* Leaving for "/" unloads the tab: its calls are dropped, and so is the promise.
\* A refresh still goes on in the server; its answer reaches nobody.
Unloaded(w) == [r \in Requests |->
                 IF TabOf[r] = w /\ req[r].at # "idle" THEN Settled ELSE req[r]]

Bounce(w) ==
  /\ page' = [page EXCEPT ![w] = "/"]
  /\ req' = Unloaded(w)
  /\ promise' = [promise EXCEPT ![w] = {}]

\* Another refresh of the jar's token, started in another tab or before a reload:
\* one of the two will be answered 401, or the session forks.
Rivals(r) == {q \in Requests \ {r} :
                /\ UnderWay(q) /\ refresh[q].carries = jar.refresh
                /\ q \notin promise[TabOf[r]]}

MustRefresh_Alone(w) == TRUE

\* "all 401s share one refresh attempt"
MustRefresh(w) == promise[w] = {}

\* The answers the interceptor hands on as they are.
PassThrough(r) == req[r].out # "401" \/ page[TabOf[r]] = "/"

Pass(r) ==
  /\ req[r].at = "answered" /\ PassThrough(r)
  /\ req' = [req EXCEPT ![r] = Settled]
  /\ UNCHANGED <<page, jar, token, user, refresh, promise, logout, events, excused>>

GiveUp(r) ==
  /\ req[r].at = "answered" /\ ~PassThrough(r) /\ req[r].retry
  /\ Bounce(TabOf[r])
  /\ UNCHANGED <<jar, token, user, refresh, logout, events, excused>>

AwaitRefresh(r) ==
  LET w == TabOf[r]  IN
  /\ req[r].at = "answered" /\ ~PassThrough(r) /\ ~req[r].retry
  /\ req' = [req EXCEPT ![r].at = "waiting"]
  /\ IF MustRefresh(w)
     THEN /\ refresh' = [refresh EXCEPT ![r] = [NoRefresh EXCEPT !.at = "sent",
                                                                 !.carries = jar.refresh]]
          /\ promise' = [promise EXCEPT ![w] = @ \cup {r}]
          /\ excused' = (excused \/ Rivals(r) # {})
     ELSE UNCHANGED <<refresh, promise, excused>>
  /\ UNCHANGED <<page, jar, token, user, logout, events>>

RefreshRejects_UnlessAwaited(r) == refresh[r].out \notin {"ok", "401"}

\* The refresh call goes through the interceptor too, which hands its 401 on:
\* it must not wait for the promise it is the source of.
RefreshRejects(r) == refresh[r].out # "ok"

\* The answer of a refresh reaches its tab, unless the tab was unloaded.
RefreshOk(r) ==
  LET w == TabOf[r]  IN
  /\ refresh[r].at = "answered" /\ refresh[r].out = "ok" /\ r \in promise[w]
  /\ jar' = [access |-> TRUE, refresh |-> refresh[r].new]
  /\ refresh' = [refresh EXCEPT ![r] = NoRefresh]
  /\ promise' = [promise EXCEPT ![w] = @ \ {r}]
  /\ req' = [q \in Requests |-> IF q \in Waiting(w)
                                THEN [Sent(TRUE) EXCEPT !.access = TRUE] ELSE req[q]]
  /\ UNCHANGED <<page, token, user, logout, events, excused>>

\* A failed one, also through the interceptor: every waiting call goes to "/".
RefreshFailed(r) ==
  LET w == TabOf[r]  IN
  /\ refresh[r].at = "answered" /\ RefreshRejects(r) /\ r \in promise[w]
  /\ refresh' = [refresh EXCEPT ![r] = NoRefresh]
  /\ Bounce(w)
  /\ UNCHANGED <<jar, token, user, logout, events, excused>>

RefreshUnheard(r) ==
  /\ refresh[r].at = "answered" /\ r \notin promise[TabOf[r]]
  /\ refresh' = [refresh EXCEPT ![r] = NoRefresh]
  /\ UNCHANGED <<page, jar, token, user, req, promise, logout, events, excused>>
-----------------------------------------------------------------------------
(* POST /auth/refresh in the server, one statement a step. *)

AnswerRefresh(r, out) == refresh' = [refresh EXCEPT ![r].at = "answered", ![r].out = out]

ReadToken(r) ==
  /\ refresh[r].at = "sent"
  /\ IF refresh[r].carries \in LiveTokens
     THEN refresh' = [refresh EXCEPT ![r].at = "read"]
     ELSE AnswerRefresh(r, "401")
  /\ UNCHANGED <<page, jar, token, user, req, promise, logout, events, excused>>

CheckUser(r) ==
  /\ refresh[r].at = "read"
  /\ CASE user = "ok" -> refresh' = [refresh EXCEPT ![r].at = "checked"]
       [] user = "suspended" -> AnswerRefresh(r, "403")
       [] user = "deleted" -> AnswerRefresh(r, "401")
  /\ UNCHANGED <<page, jar, token, user, req, promise, logout, events, excused>>

Revoked_NotAtAll(t) == token

Revoked(t) == [token EXCEPT ![t] = "revoked"]

\* UPDATE ... WHERE id = $1: whatever happened to the row since it was read.
RevokeOld(r) ==
  /\ refresh[r].at = "checked"
  /\ token' = Revoked(refresh[r].carries)
  /\ refresh' = [refresh EXCEPT ![r].at = "revoked"]
  /\ UNCHANGED <<page, jar, user, req, promise, logout, events, excused>>

IssueTokenPair(r) ==
  /\ refresh[r].at = "revoked"
  /\ \E t \in Tokens \ Issued :
       /\ \A u \in Tokens \ Issued : t <= u
       /\ token' = [token EXCEPT ![t] = "live"]
       /\ refresh' = [refresh EXCEPT ![r].at = "answered", ![r].new = t, ![r].out = "ok"]
  /\ UNCHANGED <<page, jar, user, req, promise, logout, events, excused>>
-----------------------------------------------------------------------------
(* Logging out and in. *)

Logout(w) ==
  /\ Event
  /\ page[w] = "dashboard" /\ logout[w].at = "none"
  /\ logout' = [logout EXCEPT ![w] = [at |-> "sent", carries |-> jar.refresh]]
  /\ excused' = TRUE
  /\ UNCHANGED <<page, jar, token, user, req, refresh, promise>>

\* WHERE ... revoked_at IS NULL; no cookie, no statement.
ServeLogout(w) ==
  /\ logout[w].at = "sent"
  /\ token' = [t \in Tokens |-> IF t = logout[w].carries /\ token[t] = "live"
                                THEN "revoked" ELSE token[t]]
  /\ logout' = [logout EXCEPT ![w].at = "answered"]
  /\ UNCHANGED <<page, jar, user, req, refresh, promise, events, excused>>

ClearedCookies_RefreshOnly == [access |-> jar.access, refresh |-> None]

ClearedCookies == [access |-> FALSE, refresh |-> None]

\* The answer clears both cookies and the page leaves for "/".
LogoutDone(w) ==
  /\ logout[w].at = "answered"
  /\ jar' = ClearedCookies
  /\ logout' = [logout EXCEPT ![w] = [at |-> "done", carries |-> None]]
  /\ Bounce(w)
  /\ UNCHANGED <<token, user, refresh, events, excused>>

\* The login page's probe of /profile/me: no refresh there, so an expired access
\* cookie keeps the user on it although the refresh token lives.
Probe(w) ==
  /\ Event
  /\ page[w] = "/" /\ jar.access /\ user = "ok"
  /\ page' = [page EXCEPT ![w] = "dashboard"]
  /\ UNCHANGED <<jar, token, user, req, refresh, promise, logout, excused>>

\* Google's callback ends in loginUser: a new pair, and the old one is left alone.
Login(w) ==
  /\ Event
  /\ page[w] = "/" /\ user # "deleted"
  /\ \E t \in Tokens \ Issued :
       /\ \A u \in Tokens \ Issued : t <= u
       /\ token' = [token EXCEPT ![t] = "live"]
       /\ jar' = [access |-> TRUE, refresh |-> t]
  /\ excused' = TRUE
  /\ UNCHANGED <<page, user, req, refresh, promise, logout>>
-----------------------------------------------------------------------------
(* What may happen at any time. *)

\* Max-Age and exp of the access token.
Expire ==
  /\ Event
  /\ jar.access
  /\ jar' = [jar EXCEPT !.access = FALSE]
  /\ UNCHANGED <<page, token, user, req, refresh, promise, logout, excused>>

\* An admin suspends or deletes the account; deletion takes its tokens.
LoseAccount(status) ==
  /\ Event
  /\ user = "ok" /\ user' = status
  /\ token' = IF status = "deleted"
              THEN [t \in Tokens |-> IF token[t] = "live" THEN "revoked" ELSE token[t]] ELSE token
  /\ excused' = TRUE
  /\ UNCHANGED <<page, jar, req, refresh, promise, logout>>

\* The connection, the pool or the process fails under a refresh: it stops where
\* it is, with what it has written, and the page is told nothing or 500.
FailRefresh(r) ==
  /\ Event
  /\ refresh[r].at \notin {"none", "answered"} \/ refresh[r].out = "ok"
  /\ AnswerRefresh(r, "error")
  /\ excused' = TRUE
  /\ UNCHANGED <<page, jar, token, user, req, promise, logout>>

RequestSteps(r) == Serve(r) \/ Pass(r) \/ GiveUp(r) \/ AwaitRefresh(r)
RefreshSteps(r) == ReadToken(r) \/ CheckUser(r) \/ RevokeOld(r) \/ IssueTokenPair(r)
                     \/ RefreshOk(r) \/ RefreshFailed(r) \/ RefreshUnheard(r)
LogoutSteps(w) == ServeLogout(w) \/ LogoutDone(w)

Next ==
  \/ \E r \in Requests : Ask(r) \/ RequestSteps(r) \/ RefreshSteps(r) \/ FailRefresh(r)
  \/ \E w \in Tabs : Logout(w) \/ LogoutSteps(w) \/ Probe(w) \/ Login(w)
  \/ Expire
  \/ \E status \in {"suspended", "deleted"} : LoseAccount(status)

\* The server answers and the browser runs what waits; nobody has to click.
Spec ==
  /\ Init /\ [][Next]_vars
  /\ \A r \in Requests : WF_vars(RequestSteps(r)) /\ WF_vars(RefreshSteps(r))
-----------------------------------------------------------------------------
JarType == [access : BOOLEAN, refresh : Tokens \cup {None}]
ReqType == [at : {"idle", "sent", "answered", "waiting", "settled"},
            access : BOOLEAN, retry : BOOLEAN, out : {"none", "ok", "401", "403"}]
RefreshType == [at : {"none", "sent", "read", "checked", "revoked", "answered"},
                carries : Tokens \cup {None}, new : Tokens \cup {None},
                out : {"none", "ok", "401", "403", "error"}]
LogoutType == [at : {"none", "sent", "answered", "done"}, carries : Tokens \cup {None}]

TypeOK ==
  /\ page \in [Tabs -> {"dashboard", "/"}]
  /\ jar \in JarType /\ (jar.access => jar.refresh # None)
  /\ token \in [Tokens -> {"unused", "live", "revoked"}]
  /\ user \in {"ok", "suspended", "deleted"}
  /\ req \in [Requests -> ReqType]
  /\ refresh \in [Requests -> RefreshType]
  /\ promise \in [Tabs -> SUBSET Requests]
  /\ logout \in [Tabs -> LogoutType]
  /\ events \in 0 .. MaxEvents /\ excused \in BOOLEAN

\* The expiry of the access cookie never ends a session: a tab is sent to "/" only
\* after a logout, a lost account, a failed refresh, or two refreshes with one
\* token (two tabs, or a reload), however its calls meet the expiry (api.ts:47,
\* "all 401s share one refresh attempt").
BounceJustified ==
  [][\A w \in Tabs : page[w] = "dashboard" /\ page'[w] = "/" => excused]_vars

\* Rotation keeps one token: until the session was ended or forked, at most one
\* token can be exchanged, and it is the browser's or on its way to it
\* (auth.go:184, "Revoke old refresh token then issue new pair").
OneLiveToken ==
  ~excused =>
    /\ \A t \in LiveTokens :
         t = jar.refresh \/ \E r \in Requests : refresh[r].at = "answered" /\ refresh[r].new = t
    /\ \A t, u \in LiveTokens : t = u
    /\ LiveTokens = {} => \E r \in Requests : refresh[r].at = "revoked"

\* Every call of a page ends: it is answered, refused or dropped with its tab, and
\* none waits for a refresh that waits for it (api.ts:31-58).
RequestsSettle == \A r \in Requests : req[r].at = "sent" ~> req[r].at = "settled"
=============================================================================
