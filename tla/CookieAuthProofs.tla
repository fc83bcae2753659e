-------------------------- MODULE CookieAuthProofs --------------------------
(***************************************************************************)
(* Theorems about CookieAuth, for any number of workers, calls and         *)
(* sessions.  Inv is inductive: who holds authMU, and what the history     *)
(* counts.  SessionInv adds that a session under way to the jar is new.    *)
(***************************************************************************)
EXTENDS CookieAuth, TLAPS

\* authMU is held from the decision to log in until the POST has returned.
LockHeld ==
    \A w \in Workers :
        /\ authMU = w <=> (pc[w] = "post" \/ nested[w])
        /\ nested[w] => pc[w] \in {"auth", "wire", "served", "drop", "adopt"}
        /\ pc[w] = "adopt" => nested[w]

\* An answer that sets a session is a success; only a 401 leads to drop.
ReplyShape ==
    \A w \in Workers :
        /\ pc[w] = "drop" => reply[w].status = "unauthorized"
        /\ pc[w] = "served" /\ reply[w].sets # None => reply[w].status = "ok"

\* A login whose outcome is not counted yet.
LoginOpen == authMU # None /\ pc[authMU] # "adopt"

LoginsCounted ==
    logins <= failed + lost + (IF jar # None \/ LoginOpen THEN 1 ELSE 0)

Inv == TypeOK /\ LockHeld /\ ReplyShape /\ LoginsCounted

-----------------------------------------------------------------------------
\* What a worker's step to another place does to pc.
LEMMA GotoEffect ==
    ASSUME NEW w \in Workers, NEW place, pc \in [Workers -> Places], Goto(w, place)
    PROVE  /\ pc'[w] = place
           /\ \A v \in Workers : v # w => pc'[v] = pc[v]
           /\ place \in Places => pc' \in [Workers -> Places]
  BY DEF Goto

\* What the end of RoundTrip leaves has its declared shape.
LEMMA ReturnTyped ==
    ASSUME TypeOK, NEW w \in Workers, Return(w)
    PROVE  /\ pc' \in [Workers -> Places]
           /\ cookie' \in [Workers -> Cookie]
           /\ reply' \in [Workers -> Replies]
           /\ failed' \in Nat
  <1>1. pc' \in [Workers -> Places]
    <2>1. (IF nested[w] THEN "adopt" ELSE "idle") \in Places
      BY DEF Places
    <2> QED BY <2>1, GotoEffect DEF TypeOK, Return
  <1>2. cookie' \in [Workers -> Cookie]
    BY DEF TypeOK, Return, Cookie
  <1>3. reply' \in [Workers -> Replies]
    <2>1. NoReply \in Replies
      BY DEF NoReply, Replies, Statuses, Cookie
    <2> QED BY <2>1 DEF TypeOK, Return
  <1>4. failed' \in Nat
    BY DEF TypeOK, Return
  <1> QED BY <1>1, <1>2, <1>3, <1>4

\* So has what the removal of the cookie leaves.
LEMMA ForgetTyped ==
    ASSUME TypeOK, ForgetCookie
    PROVE  /\ jar' \in Cookie /\ expiring' \in BOOLEAN /\ ~expiring'
           /\ lost' \in Nat
  <1>1. jar' \in Cookie /\ lost' \in Nat
    BY DEF TypeOK, ForgetCookie, Cookie
  <1>2. expiring' = FALSE
    BY Zenon DEF ForgetCookie
  <1> QED BY <1>1, <1>2

\* The state always has its declared shape.
LEMMA TypeStep == TypeOK /\ [Next]_vars => TypeOK'
  <1> SUFFICES ASSUME TypeOK, [Next]_vars PROVE TypeOK'
    OBVIOUS
  <1> USE NoneAssumption DEF TypeOK, Cookie, Session, Replies, Statuses,
                             callVars, serverVars, history
  <1>1. ASSUME NEW w \in Workers, Send(w) PROVE TypeOK'
    BY <1>1 DEF Send, Goto, Places
  <1>2. ASSUME NEW w \in Workers, Authenticate(w) PROVE TypeOK'
    BY <1>2 DEF Authenticate, Goto, Places
  <1>3. ASSUME NEW w \in Workers, UseOthersLogin(w) PROVE TypeOK'
    BY <1>3 DEF UseOthersLogin, Goto, Places
  <1>4. ASSUME NEW w \in Workers, BeginLogin(w) PROVE TypeOK'
    BY <1>4 DEF BeginLogin, Goto, Places
  <1>5. ASSUME NEW w \in Workers, PostSession(w) PROVE TypeOK'
    BY <1>5 DEF PostSession, Goto, Places
  <1>6. ASSUME NEW w \in Workers, Returned(w) PROVE TypeOK'
    BY <1>6 DEF Returned, Goto, Places
  <1>7. ASSUME NEW w \in Workers, Drop(w) PROVE TypeOK'
    <2>1. Return(w)
      BY <1>7 DEF Drop
    <2>2. /\ pc' \in [Workers -> Places] /\ cookie' \in [Workers -> Cookie]
          /\ reply' \in [Workers -> Replies]
          /\ failed' \in Nat
      BY <2>1, ReturnTyped
    <2>3. refused' \in SUBSET Session
      BY <1>7 DEF Drop
    <2>4. CASE ForgetCookie
      BY <1>7, <2>2, <2>3, <2>4, ForgetTyped DEF Drop
    <2>5. CASE UNCHANGED <<jar, expiring, lost>>
      BY <1>7, <2>2, <2>3, <2>5 DEF Drop
    <2> QED BY <1>7, <2>4, <2>5 DEF Drop
  <1>8. ASSUME NEW w \in Workers, Receive(w) PROVE TypeOK'
    <2>1. (reply[w].status = "unauthorized") \in BOOLEAN /\ reply[w].sets \in Cookie
      OBVIOUS
    <2>2. Return(w)
      BY <1>8 DEF Receive
    <2>3. /\ pc' \in [Workers -> Places] /\ cookie' \in [Workers -> Cookie]
          /\ reply' \in [Workers -> Replies]
          /\ failed' \in Nat
      BY <2>1, <2>2, ReturnTyped
    <2>4. /\ jar' \in Cookie /\ expiring' \in BOOLEAN /\ (expiring' => jar' # None)
          /\ refused' \in SUBSET Session
      BY <1>8, <2>1 DEF Receive
    <2> QED BY <1>8, <2>3, <2>4 DEF Receive
  <1>9. ASSUME NEW w \in Workers, Adopt(w) PROVE TypeOK'
    <2>1. NoReply \in Replies
      BY DEF NoReply
    <2>2. reply' \in [Workers -> Replies]
      BY <1>9, <2>1 DEF Adopt
    <2>3. pc' \in [Workers -> Places] /\ cookie' \in [Workers -> Cookie]
      BY <1>9 DEF Adopt, Goto, Places
    <2>4. authMU' \in Workers \cup {None} /\ nested' \in [Workers -> BOOLEAN]
      BY <1>9 DEF Adopt
    <2> QED BY <1>9, <2>2, <2>3, <2>4 DEF Adopt
  <1>10. ASSUME NEW w \in Workers, Server(w) PROVE TypeOK'
    <2>1. CASE GrantSession(w)
      BY <2>1 DEF GrantSession, Answer, Goto, Places
    <2>2. CASE Accept(w)
      BY <2>2 DEF Accept, Answer, Goto, Places
    <2>3. CASE Refuse(w)
      BY <2>3 DEF Refuse, Answer, Goto, Places
    <2>4. CASE Fail(w)
      BY <2>4 DEF Fail, Answer, Goto, Places
    <2> QED BY <1>10, <2>1, <2>2, <2>3, <2>4 DEF Server
  <1>11. CASE Revoke
    BY <1>11 DEF Revoke
  <1>12. CASE ComeNearExpiry
    BY <1>12 DEF ComeNearExpiry
  <1>13. CASE Expire
    BY <1>13, ForgetTyped DEF Expire
  <1>14. CASE UNCHANGED vars
    BY <1>14 DEF vars
  <1> QED
    BY <1>1, <1>2, <1>3, <1>4, <1>5, <1>6, <1>7, <1>8, <1>9, <1>10, <1>11,
       <1>12, <1>13, <1>14 DEF Next, RoundTrip

\* The initial state has the declared shape.
LEMMA TypeInit == Init => TypeOK
  <1>1. NoReply \in Replies
    BY DEF NoReply, Replies, Statuses, Cookie
  <1> SUFFICES ASSUME Init PROVE TypeOK
    OBVIOUS
  <1>2. ~expiring /\ valid \in SUBSET (1 .. issued) /\ refused \in SUBSET Session
    BY DEF Init
  <1> QED BY <1>1, <1>2 DEF Init, TypeOK, Cookie, Session, Places

\* The type invariant of CookieAuth.
THEOREM TypeCorrect == Spec => []TypeOK
  BY TypeInit, TypeStep, PTL DEF Spec

\* authMU is released by the worker that took it, once its POST has returned.
LEMMA LockStep == TypeOK /\ LockHeld /\ [Next]_vars => LockHeld'
  <1> SUFFICES ASSUME TypeOK, LockHeld, [Next]_vars PROVE LockHeld'
    OBVIOUS
  <1> USE NoneAssumption DEF TypeOK, LockHeld, Goto
  <1>1. ASSUME NEW w \in Workers, Send(w) PROVE LockHeld'
    BY <1>1 DEF Send
  <1>2. ASSUME NEW w \in Workers, Authenticate(w) PROVE LockHeld'
    BY <1>2 DEF Authenticate
  <1>3. ASSUME NEW w \in Workers, UseOthersLogin(w) PROVE LockHeld'
    BY <1>3 DEF UseOthersLogin
  <1>4. ASSUME NEW w \in Workers, BeginLogin(w) PROVE LockHeld'
    BY <1>4 DEF BeginLogin
  <1>5. ASSUME NEW w \in Workers, PostSession(w) PROVE LockHeld'
    BY <1>5 DEF PostSession
  <1>6. ASSUME NEW w \in Workers, Returned(w) PROVE LockHeld'
    BY <1>6 DEF Returned
  <1>7. ASSUME NEW w \in Workers, Drop(w) PROVE LockHeld'
    BY <1>7 DEF Drop, Return
  <1>8. ASSUME NEW w \in Workers, Receive(w) PROVE LockHeld'
    BY <1>8 DEF Receive, Return
  <1>9. ASSUME NEW w \in Workers, Adopt(w) PROVE LockHeld'
    BY <1>9 DEF Adopt
  <1>10. ASSUME NEW w \in Workers, Server(w) PROVE LockHeld'
    BY <1>10 DEF Server, GrantSession, Accept, Refuse, Fail, Answer
  <1>11. CASE Revoke \/ ComeNearExpiry \/ Expire \/ UNCHANGED vars
    BY <1>11 DEF Revoke, ComeNearExpiry, Expire, vars, callVars
  <1> QED
    BY <1>1, <1>2, <1>3, <1>4, <1>5, <1>6, <1>7, <1>8, <1>9, <1>10, <1>11
    DEF Next, RoundTrip

\* An answer keeps its meaning until the call that got it returns.
LEMMA ReplyStep == TypeOK /\ ReplyShape /\ [Next]_vars => ReplyShape'
  <1> SUFFICES ASSUME TypeOK, ReplyShape, [Next]_vars PROVE ReplyShape'
    OBVIOUS
  <1> USE NoneAssumption DEF TypeOK, ReplyShape, Goto
  <1>1. ASSUME NEW w \in Workers, Send(w) PROVE ReplyShape'
    BY <1>1 DEF Send
  <1>2. ASSUME NEW w \in Workers, Authenticate(w) PROVE ReplyShape'
    BY <1>2 DEF Authenticate
  <1>3. ASSUME NEW w \in Workers, UseOthersLogin(w) PROVE ReplyShape'
    BY <1>3 DEF UseOthersLogin
  <1>4. ASSUME NEW w \in Workers, BeginLogin(w) PROVE ReplyShape'
    BY <1>4 DEF BeginLogin
  <1>5. ASSUME NEW w \in Workers, PostSession(w) PROVE ReplyShape'
    BY <1>5 DEF PostSession
  <1>6. ASSUME NEW w \in Workers, Returned(w) PROVE ReplyShape'
    BY <1>6 DEF Returned
  <1>7. ASSUME NEW w \in Workers, Drop(w) PROVE ReplyShape'
    BY <1>7 DEF Drop, Return
  <1>8. ASSUME NEW w \in Workers, Receive(w) PROVE ReplyShape'
    BY <1>8 DEF Receive, Return
  <1>9. ASSUME NEW w \in Workers, Adopt(w) PROVE ReplyShape'
    BY <1>9 DEF Adopt
  <1>10. ASSUME NEW w \in Workers, Server(w) PROVE ReplyShape'
    BY <1>10 DEF Server, GrantSession, Accept, Refuse, Fail, Answer
  <1>11. CASE Revoke \/ ComeNearExpiry \/ Expire \/ UNCHANGED vars
    BY <1>11 DEF Revoke, ComeNearExpiry, Expire, vars, callVars
  <1> QED
    BY <1>1, <1>2, <1>3, <1>4, <1>5, <1>6, <1>7, <1>8, <1>9, <1>10, <1>11
    DEF Next, RoundTrip

\* Each login but one is paid for by a loss or a failure, also while it is open.
LEMMA CountStep == Inv /\ [Next]_vars => LoginsCounted'
  <1> SUFFICES ASSUME TypeOK, LockHeld, ReplyShape, LoginsCounted, [Next]_vars
               PROVE  LoginsCounted'
    BY DEF Inv
  <1> USE NoneAssumption DEF TypeOK, LoginsCounted, LoginOpen
  <1>1. ASSUME logins' = logins, failed' = failed, lost' = lost, jar' = jar,
               LoginOpen => LoginOpen'
        PROVE  LoginsCounted'
    BY <1>1
  <1>2. ASSUME NEW w \in Workers, Send(w) PROVE LoginsCounted'
    BY <1>2, <1>1 DEF Send, Goto, history
  <1>3. ASSUME NEW w \in Workers, Authenticate(w) PROVE LoginsCounted'
    BY <1>3, <1>1 DEF Authenticate, Goto, history
  <1>4. ASSUME NEW w \in Workers, UseOthersLogin(w) PROVE LoginsCounted'
    BY <1>4, <1>1 DEF UseOthersLogin, Goto, history
  <1>5. ASSUME NEW w \in Workers, BeginLogin(w) PROVE LoginsCounted'
    BY <1>5 DEF BeginLogin, Goto
  <1>6. ASSUME NEW w \in Workers, PostSession(w) PROVE LoginsCounted'
    BY <1>6, <1>1 DEF PostSession, Goto, history
  <1>7. ASSUME NEW w \in Workers, Returned(w) PROVE LoginsCounted'
    BY <1>7, <1>1 DEF Returned, Goto, history
  <1>8. ASSUME NEW w \in Workers, Drop(w) PROVE LoginsCounted'
    BY <1>8 DEF Drop, Return, ForgetCookie, Goto, LockHeld, ReplyShape
  <1>9. ASSUME NEW w \in Workers, Receive(w) PROVE LoginsCounted'
    BY <1>9 DEF Receive, Return, Goto, LockHeld, ReplyShape
  <1>10. ASSUME NEW w \in Workers, Adopt(w) PROVE LoginsCounted'
    BY <1>10 DEF Adopt, Goto, history, LockHeld
  <1>11. ASSUME NEW w \in Workers, Server(w) PROVE LoginsCounted'
    BY <1>11, <1>1 DEF Server, GrantSession, Accept, Refuse, Fail, Answer, Goto, history
  <1>12. CASE Expire
    BY <1>12 DEF Expire, ForgetCookie, callVars
  <1>13. CASE Revoke \/ ComeNearExpiry \/ UNCHANGED vars
    BY <1>13, <1>1 DEF Revoke, ComeNearExpiry, vars, callVars, history
  <1> QED
    BY <1>2, <1>3, <1>4, <1>5, <1>6, <1>7, <1>8, <1>9, <1>10, <1>11, <1>12, <1>13
    DEF Next, RoundTrip

\* The inductive invariant holds from the start and is kept.
LEMMA Invariant == Spec => []Inv
  <1>1. Init => Inv
    <2> SUFFICES ASSUME Init PROVE Inv
      OBVIOUS
    <2>1. TypeOK
      BY TypeInit
    <2>2. LockHeld /\ ReplyShape
      BY NoneAssumption DEF Init, LockHeld, ReplyShape
    <2>3. LoginsCounted
      BY DEF Init, LoginsCounted
    <2> QED BY <2>1, <2>2, <2>3 DEF Inv
  <1>2. Inv /\ [Next]_vars => Inv'
    BY TypeStep, LockStep, ReplyStep, CountStep DEF Inv
  <1> QED BY <1>1, <1>2, PTL DEF Spec

\* For any number of goroutines and calls, each login but the first is owed to
\* a session lost or a login failed: the second look at the jar under authMU
\* (cookieauth.go:120) keeps goroutines from logging in one after the other.
THEOREM LoginsAreJustified == Spec => []LoginsJustified
  <1>1. Inv => LoginsJustified
    BY DEF Inv, TypeOK, LoginsCounted, LoginOpen, LoginsJustified
  <1> QED BY <1>1, Invariant, PTL

-----------------------------------------------------------------------------
\* A worker has an answer that sets a session and has not passed it on.
Carries(w) == pc[w] = "served" /\ reply[w].sets # None

\* A session on its way to the jar is unknown to everybody else.
Fresh ==
    \A w \in Workers : Carries(w) =>
        /\ reply[w].sets \notin refused
        /\ jar # reply[w].sets
        /\ \A v \in Workers :
              /\ cookie[v] # reply[w].sets
              /\ Carries(v) /\ v # w => reply[v].sets # reply[w].sets

\* All sessions the client knows were handed out.
HandedOut ==
    /\ jar # None => jar \in 1 .. issued
    /\ refused \subseteq 1 .. issued
    /\ \A w \in Workers :
          /\ cookie[w] # None => cookie[w] \in 1 .. issued
          /\ reply[w].sets # None => reply[w].sets \in 1 .. issued

\* The server's numbers only grow, so what was handed out stays so.
LEMMA HandedOutStep == TypeOK /\ HandedOut /\ [Next]_vars => HandedOut'
  <1> SUFFICES ASSUME TypeOK, HandedOut, [Next]_vars PROVE HandedOut'
    OBVIOUS
  <1> USE NoneAssumption DEF TypeOK, HandedOut, Cookie, Session, Replies
  <1>1. ASSUME NEW w \in Workers, Send(w) PROVE HandedOut'
    BY <1>1 DEF Send, serverVars, history
  <1>2. ASSUME NEW w \in Workers, Authenticate(w) PROVE HandedOut'
    BY <1>2 DEF Authenticate, serverVars, history
  <1>3. ASSUME NEW w \in Workers, UseOthersLogin(w) PROVE HandedOut'
    BY <1>3 DEF UseOthersLogin, serverVars, history
  <1>4. ASSUME NEW w \in Workers, BeginLogin(w) PROVE HandedOut'
    BY <1>4 DEF BeginLogin, serverVars
  <1>5. ASSUME NEW w \in Workers, PostSession(w) PROVE HandedOut'
    BY <1>5 DEF PostSession, serverVars, history
  <1>6. ASSUME NEW w \in Workers, Returned(w) PROVE HandedOut'
    BY <1>6 DEF Returned, serverVars, history
  <1>7. ASSUME NEW w \in Workers, Drop(w) PROVE HandedOut'
    BY <1>7 DEF Drop, Return, ForgetCookie, serverVars, NoReply
  <1>8. ASSUME NEW w \in Workers, Receive(w) PROVE HandedOut'
    BY <1>8 DEF Receive, Return, serverVars, NoReply
  <1>9. ASSUME NEW w \in Workers, Adopt(w) PROVE HandedOut'
    BY <1>9 DEF Adopt, serverVars, history, NoReply
  <1>10. ASSUME NEW w \in Workers, Server(w) PROVE HandedOut'
    <2>1. CASE GrantSession(w)
      BY <2>1 DEF GrantSession, Answer, history
    <2>2. CASE Accept(w) \/ Refuse(w) \/ Fail(w)
      <3>1. issued' = issued /\ jar' = jar /\ cookie' = cookie /\ refused' = refused
        BY <2>2 DEF Accept, Refuse, Fail, Answer, serverVars, history
      <3>2. \A v \in Workers : reply'[v].sets = reply[v].sets \/ reply'[v].sets = None
        BY <2>2 DEF Accept, Refuse, Fail, Answer
      <3> QED BY <3>1, <3>2
    <2> QED BY <1>10, <2>1, <2>2 DEF Server
  <1>11. CASE Revoke \/ ComeNearExpiry \/ UNCHANGED vars
    BY <1>11 DEF Revoke, ComeNearExpiry, vars, callVars, serverVars, history
  <1>12. CASE Expire
    BY <1>12 DEF Expire, ForgetCookie, callVars, serverVars
  <1> QED
    BY <1>1, <1>2, <1>3, <1>4, <1>5, <1>6, <1>7, <1>8, <1>9, <1>10, <1>11, <1>12
    DEF Next, RoundTrip

SessionInv == TypeOK /\ ReplyShape /\ HandedOut /\ Fresh /\ RefusedForgotten

\* Only the answer that brings a session moves it into the jar, and only there
\* do the other requests find it.
LEMMA FreshStep == SessionInv /\ [Next]_vars => Fresh'
  <1> SUFFICES ASSUME TypeOK, ReplyShape, HandedOut, Fresh, RefusedForgotten, [Next]_vars
               PROVE  Fresh'
    BY DEF SessionInv
  <1> USE NoneAssumption DEF TypeOK, Fresh, Carries, Cookie, Session, Replies, Goto
  <1>1. ASSUME NEW w \in Workers, Send(w) PROVE Fresh'
    BY <1>1 DEF Send, history
  <1>2. ASSUME NEW w \in Workers, Authenticate(w) PROVE Fresh'
    BY <1>2 DEF Authenticate, history
  <1>3. ASSUME NEW w \in Workers, UseOthersLogin(w) PROVE Fresh'
    BY <1>3 DEF UseOthersLogin, history
  <1>4. ASSUME NEW w \in Workers, BeginLogin(w) PROVE Fresh'
    BY <1>4 DEF BeginLogin
  <1>5. ASSUME NEW w \in Workers, PostSession(w) PROVE Fresh'
    BY <1>5 DEF PostSession, history
  <1>6. ASSUME NEW w \in Workers, Returned(w) PROVE Fresh'
    BY <1>6 DEF Returned, history
  <1>7. ASSUME NEW w \in Workers, Drop(w) PROVE Fresh'
    BY <1>7 DEF Drop, Return, ForgetCookie, NoReply
  <1>8. ASSUME NEW w \in Workers, Receive(w) PROVE Fresh'
    BY <1>8 DEF Receive, Return, NoReply, ReplyShape
  <1>9. ASSUME NEW w \in Workers, Adopt(w) PROVE Fresh'
    BY <1>9 DEF Adopt, history, NoReply
  <1>10. ASSUME NEW w \in Workers, Server(w) PROVE Fresh'
    <2>1. CASE GrantSession(w)
      BY <2>1 DEF GrantSession, Answer, history, HandedOut
    <2>2. CASE Accept(w) \/ Refuse(w) \/ Fail(w)
      BY <2>2 DEF Accept, Refuse, Fail, Answer, history
    <2> QED BY <1>10, <2>1, <2>2 DEF Server
  <1>11. CASE Revoke \/ ComeNearExpiry \/ UNCHANGED vars
    BY <1>11 DEF Revoke, ComeNearExpiry, vars, callVars, history
  <1>12. CASE Expire
    BY <1>12 DEF Expire, ForgetCookie, callVars
  <1> QED
    BY <1>1, <1>2, <1>3, <1>4, <1>5, <1>6, <1>7, <1>8, <1>9, <1>10, <1>11, <1>12
    DEF Next, RoundTrip

\* The jar is emptied by the step that records a refusal, and refilled only
\* with a session nobody was refused with.
LEMMA ForgottenStep ==
    ASSUME CookiePathMatches
    PROVE  SessionInv /\ [Next]_vars => RefusedForgotten'
  <1> SUFFICES ASSUME SessionInv, [Next]_vars PROVE RefusedForgotten'
    OBVIOUS
  <1> USE NoneAssumption DEF SessionInv, TypeOK, RefusedForgotten, Session
  <1>1. ASSUME NEW w \in Workers, Receive(w) PROVE RefusedForgotten'
    <2>1. CASE reply[w].sets = None
      BY <1>1, <2>1 DEF Receive
    <2>2. CASE reply[w].sets # None
      <3>1. reply[w].status = "ok" /\ reply[w].sets \notin refused
        BY <1>1, <2>2 DEF Receive, ReplyShape, Fresh, Carries
      <3> QED BY <1>1, <2>2, <3>1 DEF Receive
    <2> QED BY <2>1, <2>2
  <1>2. ASSUME NEW w \in Workers, Drop(w) PROVE RefusedForgotten'
    BY <1>2 DEF Drop, ForgetCookie, Cookie
  <1>3. CASE Expire
    BY <1>3 DEF Expire, ForgetCookie
  <1>4. ASSUME jar' = jar, refused' = refused PROVE RefusedForgotten'
    BY <1>4
  <1>5. ASSUME NEW w \in Workers,
               \/ Send(w) \/ Authenticate(w) \/ UseOthersLogin(w) \/ BeginLogin(w)
               \/ PostSession(w) \/ Returned(w) \/ Adopt(w) \/ Server(w)
        PROVE  RefusedForgotten'
    BY <1>4, <1>5 DEF Send, Authenticate, UseOthersLogin, BeginLogin, PostSession,
                      Returned, Adopt, Server, GrantSession, Accept, Refuse, Fail,
                      Answer, history
  <1>6. CASE Revoke \/ ComeNearExpiry \/ UNCHANGED vars
    BY <1>4, <1>6 DEF Revoke, ComeNearExpiry, vars, history
  <1> QED
    BY <1>1, <1>2, <1>3, <1>5, <1>6 DEF Next, RoundTrip

\* Where the server's cookie path is the jar's default path, a session whose
\* 401 was handled (cookieauth.go:100-106) is never in the jar again.
THEOREM RefusedIsForgotten ==
    ASSUME CookiePathMatches
    PROVE  Spec => []RefusedForgotten
  <1>1. Init => SessionInv
    <2> SUFFICES ASSUME Init PROVE SessionInv
      OBVIOUS
    <2>1. TypeOK
      BY TypeInit
    <2>2. ReplyShape /\ Fresh /\ HandedOut /\ RefusedForgotten
      BY NoneAssumption DEF Init, ReplyShape, Fresh, Carries, HandedOut,
                            RefusedForgotten, NoReply
    <2> QED BY <2>1, <2>2 DEF SessionInv
  <1>2. SessionInv /\ [Next]_vars => SessionInv'
    BY TypeStep, ReplyStep, HandedOutStep, FreshStep, ForgottenStep DEF SessionInv
  <1>3. SessionInv => RefusedForgotten
    BY DEF SessionInv
  <1> QED BY <1>1, <1>2, <1>3, PTL DEF Spec

-----------------------------------------------------------------------------
\* CookieAuth implements SharedSession: one login at a time, only without a
\* session, whatever the workers, the server and the clock do.
THEOREM Refinement == Spec => SharesSession
  <1>1. Init => Shared!Init
    BY DEF Init, Shared!Init
  <1>2. Inv /\ [Next]_vars => [Shared!Next]_(Shared!vars)
    <2> SUFFICES ASSUME TypeOK, LockHeld, [Next]_vars
                 PROVE  [Shared!Next]_(Shared!vars)
      BY DEF Inv
    <2> USE NoneAssumption DEF TypeOK, Cookie, Session, Shared!vars
    <2>1. ASSUME jar' = jar, authMU' = authMU PROVE UNCHANGED Shared!vars
      BY <2>1
    <2>2. ASSUME jar' = None, authMU' = authMU
          PROVE  Shared!Lose \/ UNCHANGED Shared!vars
      BY <2>2 DEF Shared!Lose
    <2>3. ASSUME NEW w \in Workers, BeginLogin(w) PROVE Shared!BeginLogin(w)
      BY <2>3 DEF BeginLogin, Shared!BeginLogin
    <2>4. ASSUME NEW w \in Workers, Adopt(w) PROVE Shared!EndLogin(w)
      BY <2>4 DEF Adopt, LockHeld, Shared!EndLogin
    <2>5. ASSUME NEW w \in Workers, Receive(w)
          PROVE  Shared!Obtain \/ UNCHANGED Shared!vars
      BY <2>5 DEF Receive, Replies, Shared!Obtain
    <2>6. ASSUME NEW w \in Workers, Drop(w)
          PROVE  Shared!Lose \/ UNCHANGED Shared!vars
      BY <2>1, <2>2, <2>6 DEF Drop, ForgetCookie
    <2>7. CASE Expire
      BY <2>2, <2>7 DEF Expire, ForgetCookie, Shared!Next
    <2>8. ASSUME NEW w \in Workers,
                 \/ Send(w) \/ Authenticate(w) \/ UseOthersLogin(w)
                 \/ PostSession(w) \/ Returned(w) \/ Server(w)
          PROVE  UNCHANGED Shared!vars
      BY <2>1, <2>8 DEF Send, Authenticate, UseOthersLogin, PostSession, Returned,
                        Server, GrantSession, Accept, Refuse, Fail, Answer
    <2>9. CASE Revoke \/ ComeNearExpiry \/ UNCHANGED vars
      BY <2>1, <2>9 DEF Revoke, ComeNearExpiry, vars
    <2> QED
      BY <2>3, <2>4, <2>5, <2>6, <2>7, <2>8, <2>9
      DEF Next, RoundTrip, Shared!Next
  <1> QED BY <1>1, <1>2, Invariant, PTL DEF Spec, SharesSession, Shared!Spec
=============================================================================
