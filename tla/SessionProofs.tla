---------------------------- MODULE SessionProofs -----------------------------
(***************************************************************************)
(* Proofs about Session.tla, for any number of tabs, calls, tokens and     *)
(* events: its types, the one live token, and who may be sent to "/".      *)
(***************************************************************************)
EXTENDS Session, TLAPS

\* A retried call carries an access cookie, and a refresh that succeeded a token.
Shape ==
  /\ \A r \in Requests : req[r].retry => req[r].access
  /\ \A r \in Requests :
       refresh[r].at = "answered" /\ refresh[r].out = "ok" => refresh[r].new \in Tokens

\* The refresh under way, if any: there is one, its tab waits for it, and it
\* carries the token of the jar.
OneRefresh ==
  /\ \A r \in Requests : UnderWay(r) => r \in promise[TabOf[r]]
                                          /\ refresh[r].carries = jar.refresh
  /\ \A q, r \in Requests : UnderWay(q) /\ UnderWay(r) => q = r
  /\ \A r \in Requests : refresh[r].at = "answered" => refresh[r].out = "ok"

\* The live token is the jar's until the refresh has revoked it, and then the
\* successor that is on its way to the jar.
OneChain ==
  /\ jar.refresh \in Tokens
  /\ \A t \in Tokens :
       token[t] = "live" <=>
         \/ t = jar.refresh /\ \A r \in Requests : refresh[r].at \notin {"revoked", "answered"}
         \/ \E r \in Requests : refresh[r].at = "answered" /\ refresh[r].new = t

\* Nobody was refused but for an expired cookie, and nobody was sent away.
Undisturbed ==
  /\ user = "ok"
  /\ \A w \in Tabs : page[w] = "dashboard" /\ logout[w].at = "none"
  /\ \A r \in Requests : req[r].at = "answered" /\ req[r].out = "401" => ~req[r].access

Calm == OneRefresh /\ OneChain /\ Undisturbed
IInv == TypeOK /\ Shape /\ (~excused => Calm)
-----------------------------------------------------------------------------
USE DEF Tokens, None

LEMMA InitInv == Init => IInv
<1> SUFFICES ASSUME Init PROVE IInv
  OBVIOUS
<1> USE DEF Init, NoRefresh
<1>1. 1 \in Tokens /\ jar \in JarType /\ jar.refresh = 1
  BY BoundsAssumption DEF JarType
<1>2. token \in [Tokens -> {"unused", "live", "revoked"}]
  OBVIOUS
<1>3. req \in [Requests -> ReqType]
  <2>1. [at |-> "idle", access |-> FALSE, retry |-> FALSE, out |-> "none"] \in ReqType
    BY DEF ReqType
  <2> QED
    BY <2>1
<1>4. refresh \in [Requests -> RefreshType]
  <2>1. NoRefresh \in RefreshType
    BY DEF RefreshType
  <2> QED
    BY <2>1
<1>5. logout \in [Tabs -> LogoutType] /\ events \in 0 .. MaxEvents
  BY BoundsAssumption DEF LogoutType
<1>6. TypeOK
  <2>1. page \in [Tabs -> {"dashboard", "/"}] /\ promise \in [Tabs -> SUBSET Requests]
    OBVIOUS
  <2>2. user \in {"ok", "suspended", "deleted"} /\ excused \in BOOLEAN
    OBVIOUS
  <2>3. jar.access => jar.refresh # None
    BY <1>1
  <2> QED
    BY <1>1, <1>2, <1>3, <1>4, <1>5, <2>1, <2>2, <2>3, Zenon DEF TypeOK
<1>7. Shape
  BY DEF Shape
<1>8. OneRefresh /\ Undisturbed
  BY DEF OneRefresh, Undisturbed, UnderWay
<1>9. OneChain
  BY <1>1 DEF OneChain
<1> QED
  BY <1>6, <1>7, <1>8, <1>9 DEF IInv, Calm

\* Unloading a tab keeps the calls' types, and gives none of them a retry.
LEMMA UnloadedType ==
  ASSUME TypeOK, NEW w \in Tabs
  PROVE  /\ Unloaded(w) \in [Requests -> ReqType]
         /\ \A r \in Requests : req[r].retry \/ ~Unloaded(w)[r].retry
         /\ \A r \in Requests : Unloaded(w)[r].retry => Unloaded(w)[r].access = req[r].access
BY DEF TypeOK, Unloaded, Settled, ReqType

\* A retried call leaves with the new access cookie.
LEMMA RetriedCall ==
  ASSUME TypeOK
  PROVE  LET again == [Sent(TRUE) EXCEPT !.access = TRUE]
         IN  /\ again \in ReqType /\ again.access = TRUE
             /\ again.at = "sent" /\ again.out = "none"
<1>1. Sent(TRUE) = [at |-> "sent", access |-> jar.access, retry |-> TRUE, out |-> "none"]
  BY Zenon DEF Sent
<1>2. jar.access \in BOOLEAN
  BY DEF TypeOK, JarType
<1>3. Sent(TRUE) \in ReqType /\ Sent(TRUE).at = "sent" /\ Sent(TRUE).out = "none"
  <2>1. \A a \in BOOLEAN :
          LET x == [at |-> "sent", access |-> a, retry |-> TRUE, out |-> "none"]
          IN  x \in ReqType /\ x.at = "sent" /\ x.out = "none"
    BY DEF ReqType
  <2> QED
    BY <1>1, <1>2, <2>1, Zenon
<1> HIDE DEF Sent
<1> QED
  BY <1>3 DEF ReqType

LEMMA TypeStep == TypeOK /\ Shape /\ [Next]_vars => TypeOK' /\ Shape'
<1> SUFFICES ASSUME TypeOK, Shape, [Next]_vars PROVE TypeOK' /\ Shape'
  OBVIOUS
<1>0. refresh \in [Requests -> RefreshType]
  BY DEF TypeOK
<1> USE DEF TypeOK, Shape
<1>1. ASSUME NEW r \in Requests, Ask(r) PROVE TypeOK' /\ Shape'
  BY <1>1 DEF Ask, Sent, ReqType, JarType
<1>2. ASSUME NEW r \in Requests, Serve(r) PROVE TypeOK' /\ Shape'
  <2> DEFINE out == IF ~req[r].access \/ user = "deleted" THEN "401"
                    ELSE IF user = "suspended" THEN "403" ELSE "ok"
  <2>1. req' = [req EXCEPT ![r].at = "answered", ![r].out = out]
    BY <1>2 DEF Serve
  <2>2. req[r] \in ReqType /\ out \in {"none", "ok", "401", "403"}
    BY DEF ReqType
  <2>3. [req[r] EXCEPT !.at = "answered", !.out = out] \in ReqType
    BY <2>2 DEF ReqType
  <2>4. req' \in [Requests -> ReqType]
    BY <2>1, <2>3 DEF ReqType
  <2>5. \A q \in Requests : req'[q].retry = req[q].retry /\ req'[q].access = req[q].access
    BY <2>1
  <2> QED
    BY <1>2, <2>4, <2>5 DEF Serve, ReqType
<1>3. ASSUME NEW r \in Requests, Pass(r) PROVE TypeOK' /\ Shape'
  BY <1>3 DEF Pass, Settled, ReqType
<1>4. ASSUME NEW r \in Requests, GiveUp(r) PROVE TypeOK' /\ Shape'
  BY <1>4, UnloadedType, TabsAssumption DEF GiveUp, Bounce
<1>5. ASSUME NEW r \in Requests, AwaitRefresh(r) PROVE TypeOK' /\ Shape'
  <2>1. /\ req' = [req EXCEPT ![r].at = "waiting"]
        /\ UNCHANGED <<page, jar, token, user, logout, events>>
    BY <1>5 DEF AwaitRefresh
  <2>2. [req[r] EXCEPT !.at = "waiting"] \in ReqType
    <3>1. req[r] \in ReqType
      BY DEF ReqType
    <3> QED
      BY <3>1 DEF ReqType
  <2>3. req' \in [Requests -> ReqType]
    BY <2>1, <2>2 DEF ReqType
  <2>4. \A q \in Requests : req'[q].retry = req[q].retry /\ req'[q].access = req[q].access
    BY <2>1
  <2>5. refresh' \in [Requests -> RefreshType] /\ promise' \in [Tabs -> SUBSET Requests]
          /\ excused' \in BOOLEAN
    <3>1. CASE MustRefresh(TabOf[r])
      <4>1. /\ refresh' = [refresh EXCEPT ![r] = [NoRefresh EXCEPT !.at = "sent",
                                                                   !.carries = jar.refresh]]
            /\ promise' = [promise EXCEPT ![TabOf[r]] = @ \cup {r}]
            /\ excused' = (excused \/ Rivals(r) # {})
        BY <1>5, <3>1 DEF AwaitRefresh
      <4>2. [NoRefresh EXCEPT !.at = "sent", !.carries = jar.refresh] \in RefreshType
        BY DEF NoRefresh, RefreshType, JarType
      <4>3. refresh' \in [Requests -> RefreshType]
        BY <4>1, <4>2 DEF RefreshType
      <4> QED
        BY <4>1, <4>3, TabsAssumption
    <3>2. CASE ~MustRefresh(TabOf[r])
      BY <1>5, <3>2 DEF AwaitRefresh, RefreshType
    <3> QED
      BY <3>1, <3>2 DEF Sent
  <2>6. \A q \in Requests : refresh'[q].at = "answered" /\ refresh'[q].out = "ok"
                              => refresh'[q].new \in Tokens
    <3>1. CASE MustRefresh(TabOf[r])
      <4>1. refresh' = [refresh EXCEPT ![r] = [NoRefresh EXCEPT !.at = "sent",
                                                                !.carries = jar.refresh]]
        BY <1>5, <3>1 DEF AwaitRefresh
      <4> QED
        BY <4>1 DEF NoRefresh
    <3>2. CASE ~MustRefresh(TabOf[r])
      BY <1>5, <3>2 DEF AwaitRefresh
    <3> QED
      BY <3>1, <3>2
  <2> QED
    BY <2>1, <2>3, <2>4, <2>5, <2>6 DEF ReqType, RefreshType
<1>6. ASSUME NEW r \in Requests, ReadToken(r) PROVE TypeOK' /\ Shape'
  <2>1. \/ refresh' = [refresh EXCEPT ![r].at = "read"]
        \/ refresh' = [refresh EXCEPT ![r].at = "answered", ![r].out = "401"]
    BY <1>6 DEF ReadToken, AnswerRefresh
  <2>2. refresh' \in [Requests -> RefreshType]
    <3>1. refresh[r] \in RefreshType
      BY <1>0
    <3>2. [refresh[r] EXCEPT !.at = "read"] \in RefreshType
      BY <3>1 DEF RefreshType
    <3>3. [refresh[r] EXCEPT !.at = "answered", !.out = "401"] \in RefreshType
      BY <3>1 DEF RefreshType
    <3> QED
      BY <1>0, <2>1, <3>2, <3>3
  <2>3. \A q \in Requests : refresh'[q].at = "answered" /\ refresh'[q].out = "ok"
                              => refresh'[q].new \in Tokens
    BY <2>1 DEF RefreshType
  <2> QED
    BY <1>6, <2>2, <2>3 DEF ReadToken, RefreshType
<1>7. ASSUME NEW r \in Requests, CheckUser(r) PROVE TypeOK' /\ Shape'
  <2>1. \/ refresh' = [refresh EXCEPT ![r].at = "checked"]
        \/ refresh' = [refresh EXCEPT ![r].at = "answered", ![r].out = "403"]
        \/ refresh' = [refresh EXCEPT ![r].at = "answered", ![r].out = "401"]
    BY <1>7 DEF CheckUser, AnswerRefresh
  <2>2. refresh' \in [Requests -> RefreshType]
    <3>1. refresh[r] \in RefreshType
      BY <1>0
    <3>2. [refresh[r] EXCEPT !.at = "checked"] \in RefreshType
      BY <3>1 DEF RefreshType
    <3>3. [refresh[r] EXCEPT !.at = "answered", !.out = "403"] \in RefreshType
      BY <3>1 DEF RefreshType
    <3>4. [refresh[r] EXCEPT !.at = "answered", !.out = "401"] \in RefreshType
      BY <3>1 DEF RefreshType
    <3> QED
      BY <1>0, <2>1, <3>2, <3>3, <3>4
  <2>3. \A q \in Requests : refresh'[q].at = "answered" /\ refresh'[q].out = "ok"
                              => refresh'[q].new \in Tokens
    <3>1. CASE refresh' = [refresh EXCEPT ![r].at = "checked"]
      BY <3>1 DEF RefreshType
    <3>2. CASE refresh' = [refresh EXCEPT ![r].at = "answered", ![r].out = "403"]
      BY <3>2 DEF RefreshType
    <3>3. CASE refresh' = [refresh EXCEPT ![r].at = "answered", ![r].out = "401"]
      BY <3>3 DEF RefreshType
    <3> QED
      BY <2>1, <3>1, <3>2, <3>3
  <2> QED
    BY <1>7, <2>2, <2>3 DEF CheckUser, RefreshType
<1>8. ASSUME NEW r \in Requests, RevokeOld(r) PROVE TypeOK' /\ Shape'
  <2>1. /\ refresh' = [refresh EXCEPT ![r].at = "revoked"]
        /\ token' = [token EXCEPT ![refresh[r].carries] = "revoked"]
        /\ UNCHANGED <<page, jar, user, req, promise, logout, events, excused>>
    BY <1>8 DEF RevokeOld, Revoked
  <2>2. refresh' \in [Requests -> RefreshType]
    <3>1. refresh[r] \in RefreshType
      BY <1>0
    <3>2. [refresh[r] EXCEPT !.at = "revoked"] \in RefreshType
      BY <3>1 DEF RefreshType
    <3> QED
      BY <1>0, <2>1, <3>2
  <2>3. \A q \in Requests : refresh'[q].at = "answered" /\ refresh'[q].out = "ok"
                              => refresh'[q].new \in Tokens
    BY <2>1 DEF RefreshType
  <2>4. token' \in [Tokens -> {"unused", "live", "revoked"}]
    BY <2>1
  <2> QED
    BY <2>1, <2>2, <2>3, <2>4 DEF RefreshType
<1>9. ASSUME NEW r \in Requests, IssueTokenPair(r) PROVE TypeOK' /\ Shape'
  <2>1. PICK t \in Tokens :
          /\ token' = [token EXCEPT ![t] = "live"]
          /\ refresh' = [refresh EXCEPT ![r].at = "answered", ![r].new = t, ![r].out = "ok"]
    BY <1>9 DEF IssueTokenPair
  <2>2. refresh' \in [Requests -> RefreshType]
    <3>1. refresh[r] \in RefreshType
      BY <1>0
    <3>2. [refresh[r] EXCEPT !.at = "answered", !.new = t, !.out = "ok"] \in RefreshType
      BY <3>1 DEF RefreshType
    <3> QED
      BY <1>0, <2>1, <3>2
  <2>3. \A q \in Requests : refresh'[q].at = "answered" /\ refresh'[q].out = "ok"
                              => refresh'[q].new \in Tokens
    BY <2>1 DEF RefreshType
  <2>4. token' \in [Tokens -> {"unused", "live", "revoked"}]
    BY <2>1
  <2> QED
    BY <1>9, <2>2, <2>3, <2>4 DEF IssueTokenPair, RefreshType
<1>10. ASSUME NEW r \in Requests, RefreshOk(r) PROVE TypeOK' /\ Shape'
  <2> DEFINE again == [Sent(TRUE) EXCEPT !.access = TRUE]
  <2>1. /\ jar' = [access |-> TRUE, refresh |-> refresh[r].new]
        /\ refresh[r].new \in Tokens
        /\ refresh' = [refresh EXCEPT ![r] = NoRefresh]
        /\ promise' = [promise EXCEPT ![TabOf[r]] = @ \ {r}]
        /\ UNCHANGED <<page, token, user, logout, events, excused>>
    BY <1>10 DEF RefreshOk
  <2>2. req' = [q \in Requests |-> IF q \in Waiting(TabOf[r]) THEN again ELSE req[q]]
    BY <1>10, Zenon DEF RefreshOk
  <2>3. again \in ReqType /\ again.access = TRUE /\ NoRefresh \in RefreshType
    BY RetriedCall DEF RefreshType, NoRefresh
  <2> HIDE DEF again
  <2>4. req' \in [Requests -> ReqType]
    BY <2>2, <2>3 DEF ReqType
  <2>5. refresh' \in [Requests -> RefreshType]
    BY <2>1, <2>3 DEF RefreshType
  <2>6. \A q \in Requests : req'[q].retry => req'[q].access
    BY <2>2, <2>3
  <2>7. \A q \in Requests : refresh'[q].at = "answered" /\ refresh'[q].out = "ok"
                              => refresh'[q].new \in Tokens
    BY <2>1 DEF NoRefresh
  <2>8. jar' \in JarType /\ (jar'.access => jar'.refresh # None)
    BY <2>1 DEF JarType
  <2>9. promise' \in [Tabs -> SUBSET Requests]
    BY <2>1
  <2> QED
    BY <2>1, <2>4, <2>5, <2>6, <2>7, <2>8, <2>9 DEF ReqType, RefreshType, JarType
<1>11. ASSUME NEW r \in Requests, RefreshFailed(r) PROVE TypeOK' /\ Shape'
  <2>1. refresh' = [refresh EXCEPT ![r] = NoRefresh] /\ NoRefresh \in RefreshType
    BY <1>11 DEF RefreshFailed, RefreshType, NoRefresh
  <2>2. \A q \in Requests : refresh'[q].at = "answered" /\ refresh'[q].out = "ok"
                              => refresh'[q].new \in Tokens
    BY <2>1 DEF RefreshType, NoRefresh
  <2> QED
    BY <1>11, <2>1, <2>2, UnloadedType, TabsAssumption DEF RefreshFailed, Bounce
<1>12. ASSUME NEW r \in Requests, RefreshUnheard(r) PROVE TypeOK' /\ Shape'
  <2>1. refresh' = [refresh EXCEPT ![r] = NoRefresh] /\ NoRefresh \in RefreshType
    BY <1>12 DEF RefreshUnheard, RefreshType, NoRefresh
  <2>2. \A q \in Requests : refresh'[q].at = "answered" /\ refresh'[q].out = "ok"
                              => refresh'[q].new \in Tokens
    BY <2>1 DEF RefreshType, NoRefresh
  <2> QED
    BY <1>12, <2>1, <2>2 DEF RefreshUnheard
<1>13. ASSUME NEW r \in Requests, FailRefresh(r) PROVE TypeOK' /\ Shape'
  <2>1. /\ refresh' = [refresh EXCEPT ![r].at = "answered", ![r].out = "error"]
        /\ events < MaxEvents /\ events' = events + 1 /\ excused' = TRUE
        /\ UNCHANGED <<page, jar, token, user, req, promise, logout>>
    BY <1>13 DEF FailRefresh, AnswerRefresh, Event
  <2>2. refresh' \in [Requests -> RefreshType]
    <3>1. refresh[r] \in RefreshType
      BY <1>0
    <3>2. [refresh[r] EXCEPT !.at = "answered", !.out = "error"] \in RefreshType
      BY <3>1 DEF RefreshType
    <3> QED
      BY <1>0, <2>1, <3>2
  <2>3. \A q \in Requests : refresh'[q].at = "answered" /\ refresh'[q].out = "ok"
                              => refresh'[q].new \in Tokens
    BY <2>1 DEF RefreshType
  <2>4. events' \in 0 .. MaxEvents
    BY <2>1, BoundsAssumption
  <2> QED
    BY <2>1, <2>2, <2>3, <2>4 DEF RefreshType
<1>14. ASSUME NEW w \in Tabs, Logout(w) PROVE TypeOK' /\ Shape'
  BY <1>14, BoundsAssumption DEF Logout, Event, LogoutType, JarType
<1>15. ASSUME NEW w \in Tabs, ServeLogout(w) PROVE TypeOK' /\ Shape'
  <2>1. /\ logout' = [logout EXCEPT ![w].at = "answered"]
        /\ UNCHANGED <<page, jar, user, req, refresh, promise, events, excused>>
    BY <1>15 DEF ServeLogout
  <2>2. [logout[w] EXCEPT !.at = "answered"] \in LogoutType
    BY DEF LogoutType
  <2>3. logout' \in [Tabs -> LogoutType]
    BY <2>1, <2>2
  <2>4. token' \in [Tokens -> {"unused", "live", "revoked"}]
    BY <1>15 DEF ServeLogout
  <2> QED
    BY <2>1, <2>3, <2>4
<1>16. ASSUME NEW w \in Tabs, LogoutDone(w) PROVE TypeOK' /\ Shape'
  <2>1. /\ logout' = [logout EXCEPT ![w] = [at |-> "done", carries |-> None]]
        /\ jar' = [access |-> FALSE, refresh |-> None]
        /\ UNCHANGED <<token, user, refresh, events, excused>>
    BY <1>16 DEF LogoutDone, ClearedCookies
  <2>2. [at |-> "done", carries |-> None] \in LogoutType /\ jar' \in JarType /\ ~jar'.access
    BY <2>1 DEF LogoutType, JarType
  <2>3. logout' \in [Tabs -> LogoutType]
    BY <2>1, <2>2
  <2> QED
    BY <1>16, <2>1, <2>2, <2>3, UnloadedType DEF LogoutDone, Bounce
<1>17. ASSUME NEW w \in Tabs, Probe(w) PROVE TypeOK' /\ Shape'
  BY <1>17, BoundsAssumption DEF Probe, Event
<1>18. ASSUME NEW w \in Tabs, Login(w) PROVE TypeOK' /\ Shape'
  <2>1. PICK t \in Tokens : /\ token' = [token EXCEPT ![t] = "live"]
                            /\ jar' = [access |-> TRUE, refresh |-> t]
    BY <1>18 DEF Login
  <2>2. jar' \in JarType /\ jar'.refresh # None
    BY <2>1, BoundsAssumption DEF JarType
  <2> QED
    BY <1>18, <2>1, <2>2, BoundsAssumption DEF Login, Event
<1>19. CASE Expire
  <2>1. /\ jar' = [jar EXCEPT !.access = FALSE]
        /\ events < MaxEvents /\ events' = events + 1
        /\ UNCHANGED <<page, token, user, req, refresh, promise, logout, excused>>
    BY <1>19 DEF Expire, Event
  <2>2. jar' \in JarType /\ ~jar'.access
    BY <2>1 DEF JarType
  <2>3. events' \in 0 .. MaxEvents
    BY <2>1, BoundsAssumption
  <2> QED
    BY <2>1, <2>2, <2>3 DEF JarType
<1>20. ASSUME NEW status \in {"suspended", "deleted"}, LoseAccount(status) PROVE TypeOK' /\ Shape'
  BY <1>20, BoundsAssumption DEF LoseAccount, Event
<1>21. CASE UNCHANGED vars
  BY <1>21 DEF vars
<1> QED
  BY <1>1, <1>2, <1>3, <1>4, <1>5, <1>6, <1>7, <1>8, <1>9, <1>10, <1>11, <1>12, <1>13,
     <1>14, <1>15, <1>16, <1>17, <1>18, <1>19, <1>20, <1>21
  DEF Next, RequestSteps, RefreshSteps, LogoutSteps
-----------------------------------------------------------------------------
\* While the session is calm nobody is sent to "/", and what needs a page there, a
\* failed refresh or a logout cannot happen.
LEMMA CalmForbids ==
  ASSUME TypeOK, Shape, Calm
  PROVE  /\ \A r \in Requests : ~GiveUp(r) /\ ~RefreshFailed(r) /\ ~RefreshUnheard(r)
         /\ \A w \in Tabs : ~ServeLogout(w) /\ ~LogoutDone(w) /\ ~Probe(w) /\ ~Login(w)
<1>1. ASSUME NEW r \in Requests PROVE ~GiveUp(r)
  BY DEF Shape, Calm, Undisturbed, GiveUp, PassThrough
<1>2. ASSUME NEW r \in Requests PROVE ~RefreshFailed(r)
  BY DEF Calm, OneRefresh, RefreshFailed, RefreshRejects
<1>3. ASSUME NEW r \in Requests PROVE ~RefreshUnheard(r)
  BY DEF Calm, OneRefresh, RefreshUnheard, UnderWay
<1>4. ASSUME NEW w \in Tabs PROVE ~ServeLogout(w) /\ ~LogoutDone(w) /\ ~Probe(w) /\ ~Login(w)
  BY DEF Calm, Undisturbed, ServeLogout, LogoutDone, Probe, Login
<1> QED
  BY <1>1, <1>2, <1>3, <1>4

\* What ends or forks the session stays on record.
LEMMA ExcusedStable == TypeOK /\ [Next]_vars /\ ~excused' => ~excused
BY DEF Next, vars, RequestSteps, RefreshSteps, LogoutSteps, Ask, Serve, Pass, GiveUp,
       AwaitRefresh, ReadToken, CheckUser, RevokeOld, IssueTokenPair, RefreshOk,
       RefreshFailed, RefreshUnheard, FailRefresh, Logout, ServeLogout, LogoutDone, Probe,
       Login, Expire, LoseAccount

\* Refreshes, tokens and cookies are untouched: only what the calls were told matters.
LEMMA CalmUntouched ==
  ASSUME Calm, UNCHANGED <<page, jar, token, user, refresh, promise, logout>>,
         \A r \in Requests : req'[r].at = "answered" /\ req'[r].out = "401" => ~req'[r].access
  PROVE  Calm'
BY DEF Calm, OneRefresh, OneChain, Undisturbed, UnderWay

\* A refresh starts only when none is under way.
LEMMA CalmAwait ==
  ASSUME TypeOK, Calm, NEW r \in Requests, AwaitRefresh(r), ~excused'
  PROVE  Calm'
<1> DEFINE w == TabOf[r]
<1>1. /\ req' = [req EXCEPT ![r].at = "waiting"]
      /\ UNCHANGED <<page, jar, token, user, logout, events>>
  BY DEF AwaitRefresh
<1>2. \A q \in Requests : req'[q].at = "answered" => req'[q] = req[q]
  BY <1>1 DEF TypeOK, ReqType
<1>3. Undisturbed'
  BY <1>1, <1>2 DEF Calm, Undisturbed
<1>4. CASE ~MustRefresh(w)
  <2>1. UNCHANGED <<refresh, promise>>
    BY <1>4 DEF AwaitRefresh
  <2> QED
    BY <1>1, <1>3, <2>1 DEF Calm, OneRefresh, OneChain, UnderWay
<1>5. CASE MustRefresh(w)
  <2>1. /\ refresh' = [refresh EXCEPT ![r] = [NoRefresh EXCEPT !.at = "sent",
                                                               !.carries = jar.refresh]]
        /\ promise' = [promise EXCEPT ![w] = @ \cup {r}]
        /\ Rivals(r) = {}
    BY <1>5 DEF AwaitRefresh
  <2>2. promise[w] = {}
    BY <1>5 DEF MustRefresh
  <2>3. \A q \in Requests : refresh[q].at = "none"
    BY <2>1, <2>2 DEF Rivals, Calm, OneRefresh, UnderWay
  <2>4. w \in Tabs /\ r \in promise'[w]
    BY <2>1, TabsAssumption DEF TypeOK
  <2>5. /\ refresh'[r].at = "sent" /\ refresh'[r].carries = jar.refresh
        /\ \A q \in Requests \ {r} : refresh'[q].at = "none"
    BY <2>1, <2>3 DEF TypeOK, RefreshType, NoRefresh
  <2>6. OneRefresh'
    BY <1>1, <2>4, <2>5 DEF OneRefresh, UnderWay
  <2>7. OneChain'
    BY <1>1, <2>3, <2>5 DEF Calm, OneChain
  <2> QED
    BY <1>3, <2>6, <2>7 DEF Calm
<1> QED
  BY <1>4, <1>5

\* The server's part of the refresh: read, check, revoke, issue.
LEMMA CalmServer ==
  ASSUME TypeOK, Calm, NEW r \in Requests,
         ReadToken(r) \/ CheckUser(r) \/ RevokeOld(r) \/ IssueTokenPair(r)
  PROVE  Calm'
<1>1. /\ UnderWay(r) /\ r \in promise[TabOf[r]] /\ refresh[r].carries = jar.refresh
      /\ \A q \in Requests \ {r} : refresh[q].at = "none"
      /\ refresh[r].at # "answered"
  BY DEF Calm, OneRefresh, UnderWay, ReadToken, CheckUser, RevokeOld, IssueTokenPair
<1>2. UNCHANGED <<page, jar, user, req, promise, logout>>
  BY DEF ReadToken, CheckUser, RevokeOld, IssueTokenPair
<1>3. Undisturbed'
  BY <1>2 DEF Calm, Undisturbed
<1>4. ASSUME NEW x \in {"read", "checked", "revoked"},
             refresh' = [refresh EXCEPT ![r].at = x]
      PROVE  /\ OneRefresh'
             /\ refresh'[r].at = x /\ \A q \in Requests \ {r} : refresh'[q].at = "none"
  <2>1. /\ refresh'[r].at = x /\ refresh'[r].carries = refresh[r].carries
        /\ \A q \in Requests \ {r} : refresh'[q].at = "none"
    BY <1>1, <1>4 DEF TypeOK, RefreshType
  <2> QED
    BY <1>1, <1>2, <2>1 DEF OneRefresh, UnderWay
<1>5. CASE ReadToken(r)
  <2>1. refresh[r].at = "sent" /\ jar.refresh \in LiveTokens
    BY <1>1, <1>5 DEF ReadToken, Calm, OneChain, LiveTokens
  <2>2. refresh' = [refresh EXCEPT ![r].at = "read"] /\ UNCHANGED token
    BY <1>1, <1>5, <2>1 DEF ReadToken
  <2> QED
    BY <1>1, <1>2, <1>3, <1>4, <2>1, <2>2 DEF Calm, OneChain
<1>6. CASE CheckUser(r)
  <2>1. refresh[r].at = "read" /\ refresh' = [refresh EXCEPT ![r].at = "checked"]
          /\ UNCHANGED token
    BY <1>6 DEF CheckUser, Calm, Undisturbed
  <2> QED
    BY <1>1, <1>2, <1>3, <1>4, <2>1 DEF Calm, OneChain
<1>7. CASE RevokeOld(r)
  <2>1. /\ refresh[r].at = "checked" /\ refresh' = [refresh EXCEPT ![r].at = "revoked"]
        /\ token' = [token EXCEPT ![jar.refresh] = "revoked"]
    BY <1>1, <1>7 DEF RevokeOld, Revoked
  <2>2. \A t \in Tokens : token'[t] # "live"
    BY <1>1, <2>1 DEF TypeOK, Calm, OneChain
  <2>3. OneChain'
    BY <1>2, <1>4, <2>1, <2>2 DEF Calm, OneChain
  <2> QED
    BY <1>3, <1>4, <2>1, <2>3 DEF Calm
<1>8. CASE IssueTokenPair(r)
  <2>1. PICK t \in Tokens :
          /\ token' = [token EXCEPT ![t] = "live"]
          /\ refresh' = [refresh EXCEPT ![r].at = "answered", ![r].new = t, ![r].out = "ok"]
    BY <1>8 DEF IssueTokenPair
  <2>2. refresh[r].at = "revoked"
    BY <1>8 DEF IssueTokenPair
  <2>3. \A u \in Tokens : token[u] # "live"
    BY <1>1, <2>2 DEF Calm, OneChain
  <2>4. /\ refresh'[r].at = "answered" /\ refresh'[r].new = t /\ refresh'[r].out = "ok"
        /\ refresh'[r].carries = refresh[r].carries
        /\ \A q \in Requests \ {r} : refresh'[q].at = "none"
    BY <1>1, <2>1 DEF TypeOK, RefreshType
  <2>5. \A u \in Tokens : token'[u] = "live" <=> u = t
    BY <2>1, <2>3 DEF TypeOK
  <2>6. OneRefresh'
    BY <1>1, <1>2, <2>4 DEF OneRefresh, UnderWay
  <2>7. OneChain'
    BY <1>2, <2>4, <2>5 DEF Calm, OneChain
  <2> QED
    BY <1>3, <2>6, <2>7 DEF Calm
<1> QED
  BY <1>5, <1>6, <1>7, <1>8

\* Its answer brings the successor to the jar.
LEMMA CalmOk ==
  ASSUME TypeOK, Shape, Calm, NEW r \in Requests, RefreshOk(r)
  PROVE  Calm'
<1> DEFINE w == TabOf[r]
           again == [Sent(TRUE) EXCEPT !.access = TRUE]
<1>1. /\ refresh[r].at = "answered" /\ refresh[r].new \in Tokens
      /\ jar' = [access |-> TRUE, refresh |-> refresh[r].new]
      /\ refresh' = [refresh EXCEPT ![r] = NoRefresh]
      /\ UNCHANGED <<page, token, user, logout>>
  BY DEF RefreshOk, Shape
<1>2. \A q \in Requests \ {r} : refresh[q].at = "none"
  BY <1>1 DEF Calm, OneRefresh, UnderWay
<1>3. \A q \in Requests : refresh'[q].at = "none"
  BY <1>1, <1>2 DEF TypeOK, RefreshType, NoRefresh
<1>4. req' = [q \in Requests |-> IF q \in Waiting(w) THEN again ELSE req[q]]
  BY Zenon DEF RefreshOk
<1>5. again.at = "sent"
  BY RetriedCall
<1>6. \A q \in Requests : req'[q].at = "answered" => req'[q] = req[q]
  <2> HIDE DEF again, w
  <2> QED
    BY <1>4, <1>5
<1>7. Undisturbed'
  BY <1>1, <1>6 DEF Calm, Undisturbed
<1>8. OneRefresh'
  BY <1>3 DEF OneRefresh, UnderWay
<1>9. \A t \in Tokens : token[t] = "live" <=> t = refresh[r].new
  BY <1>1, <1>2 DEF Calm, OneChain
<1>10. OneChain'
  BY <1>1, <1>3, <1>9 DEF OneChain
<1> QED
  BY <1>7, <1>8, <1>10 DEF Calm

LEMMA CalmStep ==
  ASSUME TypeOK, Shape, Calm, [Next]_vars, ~excused'
  PROVE  Calm'
<1>1. ASSUME NEW r \in Requests, Ask(r) PROVE Calm'
  <2>1. \A q \in Requests : req'[q].at = "answered" => req'[q] = req[q]
    BY <1>1 DEF Ask, Sent, TypeOK
  <2> QED
    BY <1>1, <2>1, CalmUntouched DEF Ask, Calm, Undisturbed
<1>2. ASSUME NEW r \in Requests, Serve(r) PROVE Calm'
  <2>1. /\ \A q \in Requests \ {r} : req'[q] = req[q]
        /\ req'[r].access = req[r].access
        /\ req'[r].out = "401" => ~req[r].access
    BY <1>2 DEF Serve, TypeOK, ReqType, Calm, Undisturbed
  <2>2. \A q \in Requests :
          req'[q].at = "answered" /\ req'[q].out = "401" => ~req'[q].access
    BY <2>1 DEF Calm, Undisturbed
  <2>3. UNCHANGED <<page, jar, token, user, refresh, promise, logout>>
    BY <1>2 DEF Serve
  <2> QED
    BY <2>2, <2>3, CalmUntouched
<1>3. ASSUME NEW r \in Requests, Pass(r) PROVE Calm'
  <2>1. \A q \in Requests : req'[q].at = "answered" => req'[q] = req[q]
    BY <1>3 DEF Pass, Settled, TypeOK
  <2> QED
    BY <1>3, <2>1, CalmUntouched DEF Pass, Calm, Undisturbed
<1>4. CASE Expire
  <2>1. jar'.refresh = jar.refresh /\ UNCHANGED <<page, token, user, req, refresh, promise, logout>>
    BY <1>4 DEF Expire, TypeOK, JarType
  <2> QED
    BY <2>1 DEF Calm, OneRefresh, OneChain, Undisturbed, UnderWay
<1>5. CASE UNCHANGED vars
  BY <1>5 DEF vars, Calm, OneRefresh, OneChain, Undisturbed, UnderWay
<1>6. ASSUME NEW r \in Requests, FailRefresh(r) PROVE FALSE
  BY <1>6 DEF FailRefresh
<1>7. ASSUME NEW w \in Tabs, Logout(w) PROVE FALSE
  BY <1>7 DEF Logout
<1>8. ASSUME NEW status \in {"suspended", "deleted"}, LoseAccount(status) PROVE FALSE
  BY <1>8 DEF LoseAccount
<1> QED
  BY <1>1, <1>2, <1>3, <1>4, <1>5, <1>6, <1>7, <1>8,
     CalmForbids, CalmAwait, CalmServer, CalmOk
  DEF Next, RequestSteps, RefreshSteps, LogoutSteps
-----------------------------------------------------------------------------
LEMMA Inductive == IInv /\ [Next]_vars => IInv'
<1> SUFFICES ASSUME IInv, [Next]_vars PROVE IInv'
  OBVIOUS
<1>1. TypeOK' /\ Shape'
  BY TypeStep DEF IInv
<1>2. ASSUME ~excused' PROVE Calm'
  BY <1>2, ExcusedStable, CalmStep DEF IInv
<1> QED
  BY <1>1, <1>2 DEF IInv

\* The inductive invariant holds in every reachable state: the types, and the calm of a
\* session nothing has ended or forked (auth.go:132-205, api.ts:31-76).
THEOREM Invariance == Spec => []IInv
BY InitInv, Inductive, PTL DEF Spec

\* The types of the cookies, rows, calls and refreshes hold for any number of tabs,
\* calls and tokens (auth.go:132-205, api.ts:31-76).
THEOREM SessionTypes == Spec => []TypeOK
<1>1. IInv => TypeOK
  BY DEF IInv
<1> QED
  BY <1>1, Invariance, PTL

\* Rotation leaves one token that can be exchanged, the browser's or its successor on
\* the way to it, until something ends or forks the session (auth.go:184).
THEOREM OneToken == Spec => []OneLiveToken
<1>1. ASSUME IInv PROVE OneLiveToken
  <2> SUFFICES ASSUME ~excused
               PROVE  /\ \A t \in LiveTokens : t = jar.refresh
                           \/ \E r \in Requests : refresh[r].at = "answered" /\ refresh[r].new = t
                      /\ \A t, u \in LiveTokens : t = u
                      /\ LiveTokens = {} => \E r \in Requests : refresh[r].at = "revoked"
    BY DEF OneLiveToken
  <2>1. TypeOK /\ Shape /\ OneRefresh /\ OneChain
    BY <1>1 DEF IInv, Calm
  <2>2. \A t \in LiveTokens : t = jar.refresh
          \/ \E r \in Requests : refresh[r].at = "answered" /\ refresh[r].new = t
    BY <2>1 DEF OneChain, LiveTokens
  <2>3. \A t, u \in LiveTokens : t = u
    BY <2>1 DEF OneChain, OneRefresh, UnderWay, LiveTokens
  <2>4. ASSUME LiveTokens = {} PROVE \E r \in Requests : refresh[r].at = "revoked"
    <3>1. PICK r \in Requests : refresh[r].at \in {"revoked", "answered"}
      BY <2>1, <2>4 DEF OneChain, LiveTokens
    <3>2. CASE refresh[r].at = "answered"
      <4>1. refresh[r].new \in Tokens
        BY <2>1, <3>2 DEF OneRefresh, Shape
      <4> QED
        BY <2>1, <2>4, <3>2, <4>1 DEF OneChain, LiveTokens
    <3> QED
      BY <3>1, <3>2
  <2> QED
    BY <2>2, <2>3, <2>4
<1> QED
  BY <1>1, Invariance, PTL

\* No tab is sent to "/" by the expiry of the access cookie alone, however many calls
\* of however many tabs meet it at once (api.ts:47).
THEOREM NoBounce == Spec => BounceJustified
<1>1. ASSUME IInv, [Next]_vars
      PROVE  [\A w \in Tabs : page[w] = "dashboard" /\ page'[w] = "/" => excused]_vars
  <2> SUFFICES ASSUME ~excused, NEW w \in Tabs, page[w] = "dashboard", page'[w] = "/"
               PROVE  FALSE
    OBVIOUS
  <2>1. TypeOK /\ Shape /\ Calm
    BY <1>1 DEF IInv
  <2>2. page' = page
    BY <1>1, <2>1, CalmForbids
    DEF Next, vars, RequestSteps, RefreshSteps, LogoutSteps, Ask, Serve, Pass, AwaitRefresh,
        ReadToken, CheckUser, RevokeOld, IssueTokenPair, RefreshOk, FailRefresh, Logout,
        Expire, LoseAccount
  <2> QED
    BY <2>2
<1> QED
  BY <1>1, Invariance, PTL DEF Spec, BounceJustified
=============================================================================
