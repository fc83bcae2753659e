----------------------------- MODULE CookieAuth -----------------------------
(***************************************************************************)
(* chttp/cookieauth.go: cookie authentication of a client that several     *)
(* goroutines share.  CookieAuth is the client's http.RoundTripper: the    *)
(* requests it sends pass through RoundTrip, and so does the POST /_session*)
(* that RoundTrip itself sends to log in, through the same client, with    *)
(* the context key authInProgress to tell it apart.                        *)
(*                                                                         *)
(* A worker is a goroutine that calls the client.  Its pc is               *)
(*   idle    no call under way                                             *)
(*   auth    http.Client built the request, RoundTrip begins               *)
(*   lock    shouldAuth returned true, waiting for client.authMU           *)
(*   post    authMU held, POST /_session about to be sent                  *)
(*   wire    the request (nested = it is the POST) is with the server      *)
(*   served  the transport returned, the 401 check of RoundTrip is next    *)
(*   drop    a 401 was seen and a cookie read, SetCookies is next          *)
(*   adopt   the nested POST returned, authMU still held                   *)
(***************************************************************************)
EXTENDS Naturals, FiniteSets

CONSTANTS
    Workers,            \* goroutines that share the client
    MaxCalls,           \* bound: calls the application makes
    MaxSessions,        \* bound: sessions the server hands out
    None,               \* no cookie, nobody
    CookiePathMatches,  \* the server's Path for the cookie is the jar's default
                        \* path for the DSN, as it is for a DSN without a path
    JarShowsExpires     \* the jar returns Expires: net/http/cookiejar does not,
                        \* a jar of the application's may

ASSUME NoneAssumption == None \notin Nat /\ None \notin Workers
ASSUME ConstAssumption ==
    /\ MaxCalls \in Nat /\ MaxSessions \in Nat
    /\ CookiePathMatches \in BOOLEAN
    /\ JarShowsExpires \in BOOLEAN

VARIABLES
    jar,       \* the session cookie client.Jar returns for the DSN, or None
    expiring,  \* that cookie expires within a minute
    authMU,    \* the worker that holds client.authMU, or None
    pc,        \* where each worker is
    nested,    \* the worker's request is the POST: its context has authInProgress
    cookie,    \* the session in the request's Cookie header, or None
    reply,     \* what came back: its status and the session it sets, or None
    calls,     \* calls begun
    issued,    \* the server: sessions 1..issued were handed out
    valid,     \* the server: those it accepts
    logins,    \* history: logins begun
    failed,    \* history: logins that ended without a session
    lost,      \* history: sessions the jar lost, expired or dropped
    refused    \* history: sessions whose 401 RoundTrip has handled

callVars   == <<pc, nested, cookie, reply, calls>>
serverVars == <<issued, valid>>
history    == <<logins, failed, lost, refused>>
vars == <<jar, expiring, authMU, callVars, serverVars, history>>

Session  == Nat
Cookie   == Session \cup {None}
Statuses == {"none", "ok", "unauthorized", "neterr"}
NoReply  == [status |-> "none", sets |-> None]
Replies  == [status : Statuses, sets : Cookie]
Places   == {"idle", "auth", "lock", "post", "wire", "served", "drop", "adopt"}

TypeOK ==
    /\ jar \in Cookie
    /\ expiring \in BOOLEAN /\ (expiring => jar # None)
    /\ authMU \in Workers \cup {None}
    /\ pc \in [Workers -> Places]
    /\ nested \in [Workers -> BOOLEAN]
    /\ cookie \in [Workers -> Cookie]
    /\ reply \in [Workers -> Replies]
    /\ calls \in Nat
    /\ issued \in Nat
    /\ valid \in SUBSET (1 .. issued)
    /\ logins \in Nat /\ failed \in Nat /\ lost \in Nat
    /\ refused \in SUBSET Session

Init ==
    /\ jar = None /\ expiring = FALSE
    /\ authMU = None
    /\ pc = [w \in Workers |-> "idle"]
    /\ nested = [w \in Workers |-> FALSE]
    /\ cookie = [w \in Workers |-> None]
    /\ reply = [w \in Workers |-> NoReply]
    /\ calls = 0
    /\ issued = 0 /\ valid = {}
    /\ logins = 0 /\ failed = 0 /\ lost = 0
    /\ refused = {}

Goto(w, place) == pc' = [pc EXCEPT ![w] = place]

\* A possible bug: the next session inherits the expiry of the last one.
ForgetCookieOnly ==
    /\ jar' = None
    /\ UNCHANGED expiring
    /\ lost' = IF jar = None THEN lost ELSE lost + 1

\* The jar's entry is removed; a history variable counts the loss.
ForgetCookie ==
    /\ jar' = None
    /\ expiring' = FALSE
    /\ lost' = IF jar = None THEN lost ELSE lost + 1

-----------------------------------------------------------------------------
(* One action per step of a call.                                          *)

\* chttp.DoReq calls http.Client.Do, which copies the jar's cookies to the
\* request before it calls RoundTrip.
Send(w) ==
    /\ pc[w] = "idle" /\ calls < MaxCalls
    /\ calls' = calls + 1
    /\ cookie' = [cookie EXCEPT ![w] = jar]
    /\ Goto(w, "auth")
    /\ UNCHANGED <<jar, expiring, authMU, nested, reply, serverVars, history>>

ShouldAuth(w) ==
    /\ cookie[w] = None
    /\ jar = None \/ (JarShowsExpires /\ expiring)

\* A possible bug: the nested POST is not told apart.
AuthenticateAll(w) ==
    /\ pc[w] = "auth"
    /\ IF ~ShouldAuth(w) THEN Goto(w, "wire") ELSE Goto(w, "lock")
    /\ UNCHANGED <<jar, expiring, authMU, nested, cookie, reply, calls,
                   serverVars, history>>

\* authenticate, up to the request for the lock.
Authenticate(w) ==
    /\ pc[w] = "auth"
    /\ IF nested[w] \/ ~ShouldAuth(w) THEN Goto(w, "wire") ELSE Goto(w, "lock")
    /\ UNCHANGED <<jar, expiring, authMU, nested, cookie, reply, calls,
                   serverVars, history>>

\* The lock is free and someone else has logged in: lock, take the cookie,
\* unlock.
UseOthersLogin(w) ==
    /\ pc[w] = "lock" /\ authMU = None
    /\ jar # None
    /\ cookie' = [cookie EXCEPT ![w] = jar]
    /\ Goto(w, "wire")
    /\ UNCHANGED <<jar, expiring, authMU, nested, reply, calls, serverVars, history>>

\* A possible bug: no second look at the jar under the lock.
BeginLoginUnchecked(w) ==
    /\ pc[w] = "lock" /\ authMU = None
    /\ authMU' = w
    /\ logins' = logins + 1
    /\ Goto(w, "post")
    /\ UNCHANGED <<jar, expiring, nested, cookie, reply, calls, serverVars,
                   failed, lost, refused>>

\* A possible bug: the lock is not taken.
BeginLoginUnlocked(w) ==
    /\ pc[w] = "lock" /\ jar = None
    /\ authMU' = w
    /\ logins' = logins + 1
    /\ Goto(w, "post")
    /\ UNCHANGED <<jar, expiring, nested, cookie, reply, calls, serverVars,
                   failed, lost, refused>>

\* The lock is free and there is still no cookie: keep the lock and log in.
BeginLogin(w) ==
    /\ pc[w] = "lock" /\ authMU = None
    /\ jar = None
    /\ authMU' = w
    /\ logins' = logins + 1
    /\ Goto(w, "post")
    /\ UNCHANGED <<jar, expiring, nested, cookie, reply, calls, serverVars,
                   failed, lost, refused>>

\* client.DoError(POST /_session): a request of the same client, so the jar's
\* cookie, should one have arrived since, goes with it.
PostSession(w) ==
    /\ pc[w] = "post"
    /\ nested' = [nested EXCEPT ![w] = TRUE]
    /\ cookie' = [cookie EXCEPT ![w] = jar]
    /\ Goto(w, "auth")
    /\ UNCHANGED <<jar, expiring, authMU, reply, calls, serverVars, history>>

\* The original transport returned a 401, and there is a cookie to drop.
Returned(w) ==
    /\ pc[w] = "served"
    /\ reply[w].status = "unauthorized" /\ jar # None
    /\ Goto(w, "drop")
    /\ UNCHANGED <<jar, expiring, authMU, nested, cookie, reply, calls,
                   serverVars, history>>

\* Where a worker goes when http.Client.Do returns, and what history records.
Return(w) ==
    /\ Goto(w, IF nested[w] THEN "adopt" ELSE "idle")
    /\ cookie' = [cookie EXCEPT ![w] = None]
    /\ reply' = IF nested[w] THEN reply ELSE [reply EXCEPT ![w] = NoReply]
    /\ failed' = IF nested[w] /\ (reply[w].status # "ok" \/ reply[w].sets = None)
                 THEN failed + 1 ELSE failed

\* SetCookies with yesterday's date: cookiejar removes the entry of that name,
\* domain and path, whatever session it holds by now.
Drop(w) ==
    /\ pc[w] = "drop"
    /\ IF CookiePathMatches THEN ForgetCookie ELSE UNCHANGED <<jar, expiring, lost>>
    /\ Return(w)
    /\ refused' = refused \cup ({cookie[w]} \ {None})
    /\ UNCHANGED <<authMU, nested, calls, serverVars, logins>>

\* A possible bug: an answer with status 401 is treated as any other.
ReceiveUnchecked(w) ==
    /\ pc[w] = "served"
    /\ IF reply[w].sets # None
       THEN jar' = reply[w].sets /\ expiring' = FALSE
       ELSE UNCHANGED <<jar, expiring>>
    /\ Return(w)
    /\ refused' = IF reply[w].status = "unauthorized"
                  THEN refused \cup ({cookie[w]} \ {None}) ELSE refused
    /\ UNCHANGED <<authMU, nested, calls, serverVars, logins, lost>>

\* No cookie to drop: RoundTrip returns and http.Client stores the cookies
\* the answer sets.
Receive(w) ==
    /\ pc[w] = "served"
    /\ reply[w].status = "unauthorized" => jar = None
    /\ IF reply[w].sets # None
       THEN jar' = reply[w].sets /\ expiring' = FALSE
       ELSE UNCHANGED <<jar, expiring>>
    /\ Return(w)
    /\ refused' = IF reply[w].status = "unauthorized"
                  THEN refused \cup ({cookie[w]} \ {None}) ELSE refused
    /\ UNCHANGED <<authMU, nested, calls, serverVars, logins, lost>>

\* authenticate after the POST: the deferred Unlock, and either an error for
\* the caller or the outer request with the jar's cookie.
Adopt(w) ==
    /\ pc[w] = "adopt"
    /\ authMU' = None
    /\ nested' = [nested EXCEPT ![w] = FALSE]
    /\ IF reply[w].status = "ok"
       THEN /\ cookie' = [cookie EXCEPT ![w] = jar]
            /\ Goto(w, "wire")
       ELSE UNCHANGED cookie /\ Goto(w, "idle")
    /\ reply' = [reply EXCEPT ![w] = NoReply]
    /\ UNCHANGED <<jar, expiring, calls, serverVars, history>>

-----------------------------------------------------------------------------
(* The server, modelled from what the code expects of it.                  *)

Answer(w, status, sets) ==
    /\ reply' = [reply EXCEPT ![w] = [status |-> status, sets |-> sets]]
    /\ Goto(w, "served")
    /\ UNCHANGED <<jar, expiring, authMU, nested, cookie, calls, history>>

\* A session is handed out: a login succeeds, or CouchDB renews the cookie of
\* a request it accepts.
GrantSession(w) ==
    /\ pc[w] = "wire"
    /\ nested[w] \/ cookie[w] \in valid
    /\ issued < MaxSessions
    /\ issued' = issued + 1
    /\ valid' = valid \cup {issued'}
    /\ Answer(w, "ok", issued')

\* Success and no Set-Cookie; anonymous requests may succeed too.
Accept(w) ==
    /\ pc[w] = "wire"
    /\ nested[w] \/ cookie[w] \in valid \cup {None}
    /\ Answer(w, "ok", None)
    /\ UNCHANGED serverVars

Refuse(w) ==
    /\ pc[w] = "wire"
    /\ nested[w] \/ cookie[w] \notin valid
    /\ Answer(w, "unauthorized", None)
    /\ UNCHANGED serverVars

\* No answer: a network error, or the caller's context ended.
Fail(w) ==
    /\ pc[w] = "wire"
    /\ Answer(w, "neterr", None)
    /\ UNCHANGED serverVars

\* The server ends a session: its timeout, a restart, a changed password.
Revoke ==
    /\ \E s \in valid : valid' = valid \ {s}
    /\ UNCHANGED <<jar, expiring, authMU, callVars, issued, history>>

\* Time passes: the cookie comes within a minute of its Expires, then the
\* jar no longer returns it.
ComeNearExpiry ==
    /\ jar # None /\ ~expiring
    /\ expiring' = TRUE
    /\ UNCHANGED <<jar, authMU, callVars, serverVars, history>>

Expire ==
    /\ expiring
    /\ ForgetCookie
    /\ UNCHANGED <<authMU, callVars, serverVars, logins, failed, refused>>

-----------------------------------------------------------------------------
RoundTrip(w) ==
    \/ Authenticate(w) \/ UseOthersLogin(w) \/ BeginLogin(w) \/ PostSession(w)
    \/ Returned(w) \/ Drop(w) \/ Receive(w) \/ Adopt(w)

Server(w) == GrantSession(w) \/ Accept(w) \/ Refuse(w) \/ Fail(w)

AllDone == \A w \in Workers : pc[w] = "idle" /\ calls = MaxCalls

Next ==
    \/ \E w \in Workers : Send(w) \/ RoundTrip(w) \/ Server(w)
    \/ Revoke \/ ComeNearExpiry \/ Expire
    \/ AllDone /\ UNCHANGED vars

\* Every goroutine keeps running, and every exchange ends (transports time
\* out or their context ends).  No fairness is asked of the lock beyond that:
\* the other workers make finitely many calls.
Fairness == \A w \in Workers : WF_vars(RoundTrip(w)) /\ WF_vars(Server(w))

Spec     == Init /\ [][Next]_vars
FairSpec == Spec /\ Fairness

-----------------------------------------------------------------------------
(* What the workers may rely on.                                           *)

\* Goroutines that find no session together do not log in together: however
\* they interleave between shouldAuth and the lock, each login but the first
\* is owed to a session that was lost or to a login that brought none.
LoginsJustified ==
    logins <= failed + lost + (IF jar # None \/ authMU # None THEN 1 ELSE 0)

\* Once RoundTrip has handled the 401 of a session, the jar does not return
\* that session again ("drops the auth cookie if we receive a 401 response to
\* ensure that follow up requests can try to authenticate again").
RefusedForgotten == jar \notin refused

\* A call returns: the POST sent with authMU held does not wait for authMU
\* itself, and no path leaves the lock held.
CallsComplete == \A w \in Workers : pc[w] # "idle" ~> pc[w] = "idle"

\* One login at a time, and only when there is no session.
Shared == INSTANCE SharedSession WITH session <- jar, busy <- authMU
SharesSession == Shared!Spec
=============================================================================
