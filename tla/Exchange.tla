------------------------------ MODULE Exchange ------------------------------
(***************************************************************************)
(* One operation of a client, from the call to what it returns: DoReq and  *)
(* what is built on it (chttp/chttp.go: DoJSON, DoError, DecodeJSON), the  *)
(* chain of authenticators, net/http with its own retries, the trace       *)
(* hooks (chttp/trace.go), and what each kind of operation makes of the    *)
(* answer.  The login of CookieAuth is one step here: CookieAuth has it.   *)
(***************************************************************************)
EXTENDS Authenticators, Operations

CONSTANTS Statuses,       \* the server's answers to an operation
          LoginStatuses,  \* and to POST /_session
          MaxProcessed    \* bound: times the server processes the request

ASSUME StatusAssumption ==
    /\ Statuses \subseteq Nat \ {0} /\ LoginStatuses \subseteq Nat \ {0}
    /\ MaxProcessed \in Nat \ {0}
    /\ None \notin Operations

VARIABLES
    op,         \* the operation
    traced,     \* the context has a ClientTrace with both body hooks
    encodable,  \* the request's body can be read to its end
    compressed, \* and goes through the pipe of compressBody
    session,    \* the jar has a session
    pc,         \* where the call is
    at,         \* the transport that has the request
    passed,     \* the authenticators that have had it
    body,       \* Request.Body: none, source (Options.Body), pipe (of compressBody),
                \* or replay (of the trace)
    open,       \* the bodies not closed yet, nor in the hands of http.Transport
    sends,      \* it ends as a whole one for net/http
    processed,  \* times the server has processed the request
    answer,     \* the status of the answer, or 0
    arrival,    \* of the answer's body: none, arriving; value, when a value came of it
                \* even if it broke behind that; broken, when none did
    conn,       \* the body net/http gave us: none, open, closed
    cancelled,  \* the caller's context has ended
    result      \* what the operation returned: a value, and an error's status

call == <<op, traced, encodable, compressed>>
net  == <<processed, answer, arrival, conn>>
vars == <<authVars, call, session, pc, at, passed, body, open, sends, net, cancelled, result>>

Returned(value, err) == [value |-> value, err |-> err]

TypeOK ==
    /\ AuthTypeOK
    /\ op \in Operations \cup {None}
    /\ pc # "idle" => op # None
    /\ traced \in BOOLEAN /\ encodable \in BOOLEAN /\ compressed \in BOOLEAN
    /\ session \in BOOLEAN
    /\ pc \in {"idle", "args", "trace", "chain", "lock", "login", "sent", "processed",
               "answered", "check", "done"}
    /\ at \in Authenticator \cup Base \cup {None}
    /\ pc \in {"chain", "lock", "login"} => at # None
    /\ passed \subseteq Wrapper
    /\ body \in {"none", "source", "pipe", "replay"}
    /\ open \subseteq {"source", "pipe"}
    /\ sends \in BOOLEAN
    /\ processed \in 0 .. MaxProcessed
    /\ answer \in Statuses \cup {0}
    /\ arrival \in {"none", "arriving", "value", "broken"}
    /\ conn \in {"none", "open", "closed"}
    /\ cancelled \in BOOLEAN
    /\ result \in [value : {"none", "ok", "no", "rows", "panic"}, err : Nat]

Init ==
    /\ AuthInit
    /\ op = None /\ traced = FALSE /\ encodable = TRUE /\ compressed = FALSE
    /\ session = FALSE
    /\ pc = "idle" /\ at = None /\ passed = {}
    /\ body = "none" /\ open = {} /\ sends = TRUE
    /\ processed = 0 /\ answer = 0 /\ arrival = "none" /\ conn = "none"
    /\ cancelled = FALSE
    /\ result = Returned("none", 0)

-----------------------------------------------------------------------------
(* What an operation makes of its error, 0 for none.  A panic is the use of *)
(* an answer there is none of.                                              *)

\* A possible bug: any error is taken for "there is no such database".
OutcomeHasty(err) ==
    IF op.end = "exists" /\ err # 0 THEN {Returned("no", 0)}
    ELSE {Returned(IF err = 0 THEN "ok" ELSE "none", err)}

Outcome(err) ==
    CASE op.end \in {"exists", "ping"} /\ err = 404 -> {Returned("no", 0)}
      [] op.end = "ping" /\ err = 400 ->
             IF answer = 0 THEN {Returned("panic", 0)}
             ELSE {Returned("ok", 0), Returned("no", 0)}
      [] op.end = "bulk" /\ err = 417 /\ arrival = "value" -> {Returned("ok", 417)}
      [] err = 0 -> {Returned("ok", 0)}
      [] OTHER -> {Returned("none", err)}

Return(err) ==
    /\ pc' = "done"
    /\ result' \in Outcome(err)
    /\ UNCHANGED <<authVars, call, at, passed, body, sends, cancelled>>

\* A possible bug: DoReq leaves closing to net/http.
KeepSource == UNCHANGED open

\* DoReq's deferred Close is of Options.Body, whatever became Request.Body.
CloseSource == open' = open \ {"source"}

\* netError keeps a status that the error came with.
NetError(status) == IF status = 500 THEN 502 ELSE status

\* http.Client.Do has failed.
Fail(status) ==
    /\ Return(NetError(status)) /\ CloseSource
    /\ UNCHANGED <<session, net>>

-----------------------------------------------------------------------------
(* The call, up to http.Client.Do.                                          *)

Call ==
    /\ pc = "idle" /\ ready
    /\ op' \in Operations
    /\ traced' \in BOOLEAN
    /\ session' \in IF installed \cap Cookie = {} THEN {FALSE} ELSE BOOLEAN
    /\ encodable' \in IF op'.body = "none" THEN {TRUE} ELSE BOOLEAN
    /\ compressed' \in IF op'.body = "none" THEN {FALSE} ELSE BOOLEAN
    /\ pc' = "args"
    /\ UNCHANGED <<authVars, at, passed, body, open, sends, net, cancelled, result>>

Reject ==
    /\ pc = "args" /\ op.checks
    /\ Return(400)
    /\ UNCHANGED <<session, open, net>>

Prepare ==
    /\ pc = "args"
    /\ pc' = IF traced THEN "trace" ELSE "chain"
    /\ at' = First
    /\ IF op.body = "none"
       THEN UNCHANGED <<body, open>>
       ELSE /\ body' = IF compressed THEN "pipe" ELSE "source"
            /\ open' = {"source", body'}
    /\ sends' = encodable
    /\ UNCHANGED <<authVars, call, session, passed, net, cancelled, result>>

\* httpRequestBody reads and closes the body; net/http gets a replay of it.  What
\* the caller gave us to read may block, and no context ends that.
TraceRequest ==
    /\ pc = "trace"
    /\ pc' = "chain"
    /\ body' = IF body = "none" THEN "none" ELSE "replay"
    /\ open' = open \ {body}
    /\ UNCHANGED <<authVars, call, session, at, passed, sends, net, cancelled, result>>

-----------------------------------------------------------------------------
(* The chain of transports.                                                 *)

PassOn ==
    /\ pc' = "chain"
    /\ passed' = passed \cup {at}
    /\ at' = next[at]
    /\ UNCHANGED <<authVars, call, body, open, sends, net, cancelled, result>>

\* Each sets its header, CookieAuth with a session nothing.
RoundTrip ==
    /\ pc = "chain" /\ at \in Wrapper
    /\ at \in Cookie => session
    /\ PassOn
    /\ UNCHANGED session

\* authMU.Lock, with whoever else has authMU.
MustLogin ==
    /\ pc = "chain" /\ at \in Cookie /\ ~session
    /\ pc' = "lock"
    /\ UNCHANGED <<authVars, call, session, at, passed, body, open, sends, net, cancelled, result>>

\* When authMU is free somebody else may have logged in.
HasLock ==
    /\ pc = "lock"
    /\ \/ session' = TRUE /\ PassOn
       \/ /\ pc' = "login"
          /\ UNCHANGED <<authVars, call, session, at, passed, body, open, sends, net,
                         cancelled, result>>

\* The server need not set a session.
LoggedIn ==
    /\ pc = "login" /\ \E s \in LoginStatuses : s < 400
    /\ session' \in BOOLEAN
    /\ PassOn

\* RoundTrip returns without closing Request.Body.
LoginFails == pc = "login" /\ \E s \in LoginStatuses \cup {502} : s >= 400 /\ Fail(s)

\* http.Transport closes the body it is given, soon or late, as RoundTripper says.
Send ==
    /\ pc = "chain" /\ at \in Base
    /\ pc' = "sent"
    /\ open' = open \ {body}
    /\ UNCHANGED <<authVars, call, session, at, passed, body, sends, net, cancelled, result>>

-----------------------------------------------------------------------------
(* net/http and the server.                                                 *)

Process ==
    /\ pc = "sent" /\ sends
    /\ processed < MaxProcessed
    /\ processed' = processed + 1
    /\ pc' = "processed"
    /\ UNCHANGED <<authVars, call, session, at, passed, body, open, sends, answer, arrival,
                   conn, cancelled, result>>

\* The request does not arrive; sending it again, if it can be, changes nothing.
RequestLost == pc = "sent" /\ Fail(502)

\* Reading the body fails, with EncodeBody's status or with none.
BodyFails ==
    /\ pc = "sent" /\ ~sends
    /\ Fail(IF op.body = "Content" THEN 502 ELSE 400)

AnswerLost ==
    /\ pc = "processed"
    /\ \/ Fail(502)
       \/ /\ Replayable(op) /\ processed < MaxProcessed
          /\ pc' = "sent" /\ sends' = encodable
          /\ UNCHANGED <<authVars, call, session, at, passed, body, open, net, cancelled,
                         result>>

\* A 401 makes CookieAuth drop the session on the way back.
Answer ==
    /\ \E s \in Statuses :
           /\ pc = "processed" \/ (pc = "sent" /\ s >= 400)
           /\ answer' = s
           /\ session' = (session /\ ~(s = 401 /\ passed \cap Cookie # {}))
    /\ pc' = "answered"
    /\ arrival' = "arriving" /\ conn' = "open"
    /\ UNCHANGED <<authVars, call, at, passed, body, open, sends, processed, cancelled, result>>

BodyEnds(how) ==
    /\ arrival = "arriving"
    /\ arrival' = how
    /\ UNCHANGED <<authVars, call, session, pc, at, passed, body, open, sends, processed, answer,
                   conn, cancelled, result>>

BodyArrives == \E how \in {"value", "broken"} : BodyEnds(how)

Cancel ==
    /\ pc \notin {"idle", "done"} /\ ~cancelled
    /\ cancelled' = TRUE
    /\ UNCHANGED <<authVars, call, session, pc, at, passed, body, open, sends, net, result>>

\* A possible bug: the login has a context of its own.
AbortedButLogin ==
    /\ cancelled /\ op.ctx
    /\ \/ pc \in {"sent", "processed"} /\ Fail(502)
       \/ BodyEnds("broken")

\* http.Client gives up when the context of the request ends.
Aborted ==
    /\ cancelled /\ op.ctx
    /\ \/ pc \in {"login", "sent", "processed"} /\ Fail(502)
       \/ BodyEnds("broken")

-----------------------------------------------------------------------------
(* The answer.                                                              *)

\* DoReq returns it; httpResponseBody has read it to its end and closed it.
TakeAnswer ==
    /\ pc = "answered"
    /\ traced => arrival # "arriving"
    /\ pc' = "check"
    /\ conn' = IF traced THEN "closed" ELSE conn
    /\ CloseSource
    /\ UNCHANGED <<authVars, call, session, at, passed, body, sends, processed, answer,
                   arrival, cancelled, result>>

HandOver ==
    /\ pc = "check" /\ op.end = "rows" /\ answer < 400
    /\ pc' = "done"
    /\ result' = Returned("rows", 0)
    /\ UNCHANGED <<authVars, call, session, at, passed, body, open, sends, net, cancelled>>

\* ResponseError, then DecodeJSON, which stops behind the value, or GetRev.
Errors ==
    IF answer >= 400 /\ ~(op.end = "bulk" /\ answer = 417) THEN {answer}
    ELSE CASE op.end \in {"json", "bulk"} /\ arrival # "value" -> {502}
           [] op.end = "bulk" /\ answer = 417 /\ arrival = "value" -> {417}
           [] op.end = "rev" -> {0, 500}
           [] OTHER -> {0}

\* CloseBody reads what is left, then closes.
Finish ==
    /\ pc = "check" /\ ~(op.end = "rows" /\ answer < 400)
    /\ arrival # "arriving"
    /\ conn' = "closed"
    /\ \E err \in Errors : Return(err)
    /\ UNCHANGED <<session, open, processed, answer, arrival>>

-----------------------------------------------------------------------------
\* Where a call waits for what no context ends: authMU, which others have, and a
\* body of the caller's that is read for the trace.
Blocked == pc = "lock" \/ (pc = "trace" /\ op.body # "none")

Client ==
    \/ Prepare \/ (~Blocked /\ TraceRequest) \/ RoundTrip \/ MustLogin \/ Send
    \/ Aborted \/ TakeAnswer \/ HandOver \/ Finish

Server == LoggedIn \/ LoginFails \/ Process \/ Answer \/ BodyArrives

Faults == RequestLost \/ BodyFails \/ AnswerLost

Ended == pc = "done" /\ UNCHANGED vars

Next ==
    \/ /\ pc = "idle" /\ Configure
       /\ UNCHANGED <<call, session, pc, at, passed, body, open, sends, net, cancelled, result>>
    \/ Call \/ Reject \/ Client \/ (Blocked /\ TraceRequest) \/ HasLock
    \/ Server \/ Faults \/ Cancel \/ Ended

Spec == Init /\ [][Next]_vars

\* The client runs; neither the server, the network nor the caller need do anything.
FairSpec == Spec /\ WF_vars(Client)

-----------------------------------------------------------------------------
(* What callers rely on.                                                    *)

\* In whatever order authenticators were installed, by New or later, and
\* whatever a failed New left in the http.Client: a request passes through each
\* of them, once, before it is sent.
PassesEachOnce ==
    pc = "chain" => /\ at \notin passed
                    /\ at \in Base => passed = installed \ Xport

\* The server processes no request whose body was cut short, traced or not, and
\* the transport's retries repeat none that may not be processed twice, such as
\* the POST of a new document.
ProcessedRightly ==
    /\ processed > 0 => encodable
    /\ processed > 1 => op.repeats

\* The login failed, and its pipe has no reader: RequestBody has what comes of it.
AbandonedPipe == answer = 0 /\ at \in Cookie /\ body = "pipe"

\* However the operation ends, DoReq has closed Options.Body, whatever was made of
\* it for the request; Request.Body is closed too or has been given to http.Transport,
\* unless it is the compressed one of a failed login, which nobody closes; and the
\* answer's is closed unless an iterator has it.
NothingLeftOpen ==
    pc = "done" =>
        /\ "source" \notin open
        /\ "pipe" \in open => AbandonedPipe
        /\ conn = "open" => result.value = "rows"

\* The error of a failed login passes for the server's own answer to Ping and
\* DBExists.
LoginMistaken == answer = 0 /\ at \in Cookie /\ op.end \in {"exists", "ping"}

\* What is returned is what the server answered to this request: no value without
\* an answer, but where Ping and DBExists mistake the login's for it; no decoded
\* value from part of one, and no success where the server said no but where the
\* operation is defined so (Ping of an old server, rejected documents).
ResultFromAnswer ==
    pc = "done" =>
        /\ result.err = 0 => result.value # "none"
        /\ result.value = "panic" => LoginMistaken
        /\ result.value = "no" =>
               \/ LoginMistaken
               \/ answer = 404 \/ (op.end = "ping" /\ answer = 400)
        /\ result.value \in {"ok", "rows"} => answer # 0
        /\ result.value \in {"ok", "rows"} /\ answer >= 400 =>
               \/ op.end = "ping" /\ answer = 400
               \/ op.end = "bulk" /\ answer = 417 /\ result.err = 417
        /\ result.value = "ok" /\ op.end \in {"json", "bulk"} => arrival = "value"

\* As its comment has it, Ping "queries the /_up endpoint, and returns true if
\* there are no errors, or if a 400 (Bad Request) is returned": it returns, and
\* what it says is from the answer of /_up (client.go, Ping).
PingAsDocumented ==
    pc = "done" /\ op.end = "ping" =>
        /\ result.value # "panic"
        /\ result.value # "none" => answer # 0

\* An operation returns once the caller's context has ended, though the server,
\* the login or the network never answer; unless it waits for ever for authMU or
\* for a body of the caller's, which no context ends.
CancelReturns == []<>~Blocked => (cancelled /\ op.ctx ~> pc = "done")
=============================================================================
