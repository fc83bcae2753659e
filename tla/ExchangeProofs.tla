--------------------------- MODULE ExchangeProofs ---------------------------
(***************************************************************************)
(* Theorems about Exchange, for any authenticators, operations and answers *)
(* of the server: how often a request is processed, that nothing stays     *)
(* open, that results come from answers, and that a request passes through *)
(* every authenticator once.                                               *)
(***************************************************************************)
EXTENDS Exchange, TLAPS

Results == [value : {"none", "ok", "no", "rows", "panic"}, err : Nat]

Installed == installed \ Xport

\* No transport is missing: every authenticator has one behind it.
Linked ==
    /\ transport \in Base \cup {None} \cup Installed
    /\ \A a \in Installed : next[a] \in Base \cup Installed
    /\ pc \in {"trace", "chain", "lock", "login"} => at \in Base \cup Installed
    /\ pc \in {"lock", "login"} => at \in Cookie

TypeInv == TypeOK /\ Linked

-----------------------------------------------------------------------------
(* The operations.                                                          *)

\* What net/http may send again, the server may process again.
LEMMA ReplayableRepeats ==
    ASSUME NEW o \in Operations, Replayable(o) PROVE o.repeats
  BY DEF Operations, Replayable, ClientOps, ClusterOps, ConfigOps, IndexOps, RowsQueries,
         DocumentOps, Session, Version, Stats, PartitionStats, DBsStats, Find, Explain,
         BulkDocs, BulkGet, Changes, CreateDoc, Put, PutAttachment, DeleteAttachment,
         GetReplications, PostReplication, Read, Change,
         Keyed, Plain, Again, Once

\* DBExists and Ping have no body, and nothing of a Ping is refused.
LEMMA ProbesBodyless ==
    ASSUME NEW o \in Operations
    PROVE  /\ o.end \in {"exists", "ping"} => o.body = "none"
           /\ o.end = "ping" => ~o.checks
  BY DEF Operations, ClientOps, ClusterOps, ConfigOps, IndexOps, RowsQueries,
         DocumentOps, Session, Version, Stats, PartitionStats, DBsStats, Find, Explain,
         BulkDocs, BulkGet, Changes, CreateDoc, Put, PutAttachment, DeleteAttachment,
         GetReplications, PostReplication, Read, Change,
         Keyed, Plain, Again, Once

-----------------------------------------------------------------------------
(* Types.                                                                   *)

\* What an operation makes of an error has its declared shape.
LEMMA OutcomeTyped == ASSUME NEW err \in Nat PROVE Outcome(err) \subseteq Results
  <1>1. \A v \in {"none", "ok", "no", "rows", "panic"}, n \in Nat : Returned(v, n) \in Results
    BY DEF Returned, Results
  <1> QED BY <1>1 DEF Outcome

\* What a step of the call that ends it changes.
LEMMA ReturnTyped ==
    ASSUME TypeOK, NEW err \in Nat, Return(err)
    PROVE  /\ pc' = "done" /\ result' \in Results
           /\ UNCHANGED <<authVars, call, at, passed, body, sends, cancelled>>
  BY OutcomeTyped DEF TypeOK, Return

\* The same of an http.Client.Do that failed.
LEMMA FailTyped ==
    ASSUME TypeOK, NEW status \in Nat, Fail(status)
    PROVE  /\ pc' = "done" /\ result' \in Results
           /\ open' = open \ {"source"}
           /\ UNCHANGED <<authVars, call, session, at, passed, body, sends, net, cancelled>>
  <1>1. NetError(status) \in Nat
    BY DEF NetError
  <1> QED BY <1>1, ReturnTyped DEF Fail, CloseSource

\* Installing authenticators: each has a transport behind it.
LEMMA ConfigureTyped ==
    ASSUME TypeInv, pc = "idle", Configure, UNCHANGED <<pc, at>>
    PROVE  AuthTypeOK' /\ Linked'
  <1> USE AuthAssumption DEF Base, Wrapper, Installed
  <1>1. ASSUME NEW a \in Wrapper, Wrap(a)
        PROVE  /\ transport' = a /\ next' \in [Authenticator -> Authenticator \cup Base \cup {None}]
               /\ installed' \subseteq Authenticator
               /\ Linked'
    BY <1>1 DEF TypeInv, TypeOK, AuthTypeOK, Linked, Wrap, First
  <1>2. ASSUME NEW a \in Xport \cup Raw, Replace(a)
        PROVE  /\ transport' = a /\ next' \in [Authenticator -> Authenticator \cup Base \cup {None}]
               /\ installed' \subseteq Authenticator
               /\ Linked'
    BY <1>2 DEF TypeInv, TypeOK, AuthTypeOK, Linked, Replace
  <1>3. ASSUME Refused PROVE Linked' /\ UNCHANGED <<transport, next, installed>>
    BY <1>3 DEF TypeInv, Linked, Refused
  <1>4. CASE NewClient
    <2>1. AuthTypeOK
      BY DEF TypeInv, TypeOK
    <2>2. /\ Linked' /\ transport' \in Authenticator \cup Base \cup {None}
          /\ next' \in [Authenticator -> Authenticator \cup Base \cup {None}]
          /\ installed' \subseteq Authenticator
      BY <1>1, <1>3, <1>4, <2>1 DEF AuthTypeOK, NewClient
    <2>3. ready' \in BOOLEAN /\ auth' \in Authenticator \cup {None}
      BY <1>4, <2>1 DEF AuthTypeOK, NewClient
    <2> QED BY <2>2, <2>3 DEF AuthTypeOK
  <1>5. ASSUME NEW a \in Authenticator, Authenticate(a), UNCHANGED ready
        PROVE  AuthTypeOK' /\ Linked'
    BY <1>1, <1>2, <1>3, <1>5 DEF TypeInv, TypeOK, AuthTypeOK, Authenticate
  <1>6. ASSUME NEW a \in Wrapper, Auth(a), UNCHANGED ready
        PROVE  AuthTypeOK' /\ Linked'
    BY <1>1, <1>3, <1>6 DEF TypeInv, TypeOK, AuthTypeOK, Auth
  <1> QED
    BY <1>4, <1>5, <1>6 DEF Configure

\* Every step keeps the types, and no transport goes missing.
LEMMA TypeStep == TypeInv /\ [Next]_vars => TypeInv'
  <1> SUFFICES ASSUME TypeInv, [Next]_vars PROVE TypeInv'
    OBVIOUS
  <1> USE AuthAssumption, StatusAssumption DEF TypeInv
  <1>0. ASSUME NEW status \in Nat, pc # "idle", Fail(status) PROVE TypeInv'
    <2>1. /\ pc # "idle" /\ pc' = "done" /\ result' \in Results /\ open' \subseteq open
          /\ UNCHANGED <<authVars, call, session, at, passed, body, sends, net, cancelled>>
      BY <1>0, FailTyped
    <2> QED
      BY <2>1 DEF Results, TypeOK, Linked, AuthTypeOK, authVars, call, net, Installed
  <1>1. CASE /\ pc = "idle" /\ Configure
             /\ UNCHANGED <<call, session, pc, at, passed, body, open, sends, net, cancelled,
                          result>>
    BY <1>1, ConfigureTyped DEF TypeOK, call, net
  <1>2. CASE Call
    <2>1. op' \in Operations /\ pc' = "args" /\ traced' \in BOOLEAN /\ session' \in BOOLEAN
      BY <1>2 DEF Call
    <2>2. encodable' \in BOOLEAN /\ compressed' \in BOOLEAN
      BY <1>2 DEF Call
    <2>3. UNCHANGED <<authVars, at, passed, body, open, sends, net, cancelled, result>>
      BY <1>2 DEF Call
    <2> QED
      BY <2>1, <2>2, <2>3 DEF TypeOK, Linked, AuthTypeOK, authVars, net, Installed
  <1>3. CASE Reject
    BY <1>3, ReturnTyped DEF Results, Reject, TypeOK, Linked, AuthTypeOK, authVars, call, net, Installed
  <1>4. CASE Prepare
    <2>1. body' \in {"none", "source", "pipe", "replay"} /\ open' \subseteq {"source", "pipe"}
      BY <1>4 DEF Prepare, TypeOK
    <2>2. /\ pc = "args" /\ pc' \in {"trace", "chain"} /\ at' = First /\ sends' = encodable
          /\ UNCHANGED <<authVars, call, session, passed, net, cancelled, result>>
      BY <1>4 DEF Prepare
    <2> QED
      BY <2>1, <2>2 DEF TypeOK, Linked, AuthTypeOK, authVars, call, net, Installed, First, Base
  <1>5. CASE TraceRequest
    <2>1. /\ body' \in {"none", "replay"} /\ open' \subseteq open
          /\ pc' = "chain" /\ pc = "trace"
      BY <1>5 DEF TraceRequest
    <2>2. UNCHANGED <<authVars, call, session, at, passed, sends, net, cancelled, result>>
      BY <1>5 DEF TraceRequest
    <2> QED
      BY <2>1, <2>2 DEF TypeOK, Linked, AuthTypeOK, authVars, call, net, Installed, Base
  <1>6. CASE RoundTrip
    BY <1>6 DEF RoundTrip, PassOn, TypeOK, Linked, AuthTypeOK, authVars, call, net, Installed, Base, Wrapper
  <1>7. CASE MustLogin
    BY <1>7 DEF MustLogin, TypeOK, Linked, AuthTypeOK, authVars, call, net, Installed
  <1>8. CASE Send
    BY <1>8 DEF Send, TypeOK, Linked, AuthTypeOK, authVars, call, net, Installed
  <1>9. CASE Aborted
    <2>1. CASE BodyEnds("broken")
      BY <2>1 DEF BodyEnds, TypeOK, Linked, AuthTypeOK, authVars, call, Installed
    <2> QED BY <1>0, <1>9, <2>1 DEF Aborted
  <1>10. CASE TakeAnswer
    BY <1>10 DEF TakeAnswer, CloseSource, TypeOK, Linked, AuthTypeOK, authVars, call, net, Installed
  <1>11. CASE HandOver
    <2>1. result' \in Results /\ pc # "idle" /\ pc' = "done"
      BY <1>11 DEF HandOver, Returned, Results
    <2>2. UNCHANGED <<authVars, call, session, at, passed, body, open, sends, net, cancelled>>
      BY <1>11 DEF HandOver
    <2> QED
      BY <2>1, <2>2 DEF Results, TypeOK, Linked, AuthTypeOK, authVars, call, net, Installed
  <1>12. CASE Finish
    <2>1. Errors \subseteq Nat
      BY DEF Errors, TypeOK
    <2>2. /\ pc' = "done" /\ result' \in Results
          /\ UNCHANGED <<authVars, call, at, passed, body, sends, cancelled>>
      BY <1>12, <2>1, ReturnTyped DEF Finish
    <2>3. /\ pc # "idle" /\ conn' = "closed"
          /\ UNCHANGED <<session, open, processed, answer, arrival>>
      BY <1>12 DEF Finish
    <2> QED
      BY <2>2, <2>3 DEF Results, TypeOK, Linked, AuthTypeOK, authVars, call, Installed
  <1>13. CASE LoggedIn
    BY <1>13 DEF LoggedIn, PassOn, TypeOK, Linked, AuthTypeOK, authVars, call, net, Installed, Base, Wrapper
  <1>14. CASE LoginFails
    BY <1>0, <1>14 DEF LoginFails
  <1>15. CASE Process
    BY <1>15 DEF Process, TypeOK, Linked, AuthTypeOK, authVars, call, Installed
  <1>16. CASE Answer
    BY <1>16 DEF Answer, TypeOK, Linked, AuthTypeOK, authVars, call, Installed
  <1>17. CASE BodyArrives
    BY <1>17 DEF BodyArrives, BodyEnds, TypeOK, Linked, AuthTypeOK, authVars, call, Installed
  <1>18. CASE Faults
    <2>1. CASE /\ pc = "processed" /\ pc' = "sent" /\ sends' = encodable
               /\ UNCHANGED <<authVars, call, session, at, passed, body, open, net, cancelled,
                              result>>
      BY <2>1 DEF TypeOK, Linked, AuthTypeOK, authVars, call, net, Installed
    <2> QED BY <1>0, <1>18, <2>1 DEF Faults, RequestLost, BodyFails, AnswerLost
  <1>19. CASE Cancel
    BY <1>19 DEF Cancel, TypeOK, Linked, AuthTypeOK, authVars, call, net, Installed
  <1>20. CASE HasLock
    <2>1. CASE pc = "lock" /\ session' = TRUE /\ PassOn
      BY <2>1 DEF PassOn, TypeOK, Linked, AuthTypeOK, authVars, call, net, Installed, Base, Wrapper
    <2>2. CASE /\ pc = "lock" /\ pc' = "login"
               /\ UNCHANGED <<authVars, call, session, at, passed, body, open, sends, net,
                              cancelled, result>>
      BY <2>2 DEF TypeOK, Linked, AuthTypeOK, authVars, call, net, Installed
    <2> QED BY <1>20, <2>1, <2>2 DEF HasLock
  <1>21. CASE UNCHANGED vars
    BY <1>21 DEF vars, TypeOK, Linked, AuthTypeOK, authVars, call, net, Installed
  <1> QED
    BY <1>1, <1>2, <1>3, <1>4, <1>5, <1>6, <1>7, <1>8, <1>9, <1>10, <1>11, <1>12,
       <1>13, <1>14, <1>15, <1>16, <1>17, <1>18, <1>19, <1>20, <1>21
    DEF Next, Client, Server, Ended

\* The first state has the types.
LEMMA TypeInit == Init => TypeInv
  <1> SUFFICES ASSUME Init PROVE TypeInv
    OBVIOUS
  <1>1. TypeOK
    <2>1. AuthTypeOK
      BY DEF Init, AuthInit, AuthTypeOK, Base
    <2>2. result \in Results
      BY DEF Init, Returned, Results
    <2>3. /\ traced \in BOOLEAN /\ encodable \in BOOLEAN /\ compressed \in BOOLEAN
          /\ session \in BOOLEAN
          /\ sends \in BOOLEAN /\ cancelled \in BOOLEAN
      BY DEF Init
    <2>4. processed \in 0 .. MaxProcessed
      BY StatusAssumption DEF Init
    <2> QED
      BY <2>1, <2>2, <2>3, <2>4 DEF Init, TypeOK, Results
  <1>2. Linked
    BY AuthAssumption DEF Init, AuthInit, Linked, Base, Installed
  <1> QED BY <1>1, <1>2 DEF TypeInv

\* So TypeInv holds always.
LEMMA TypeAlways == Spec => []TypeInv
  BY TypeInit, TypeStep, PTL DEF Spec

\* The types of an operation's state, and of the client's: no authenticator finds
\* that it has no transport behind it, however the client was configured.
THEOREM TypeCorrect == Spec => []TypeOK
  <1>1. TypeInv => TypeOK
    BY DEF TypeInv
  <1> QED BY <1>1, TypeAlways, PTL

-----------------------------------------------------------------------------
(* How often a request is processed.                                        *)

\* What is sent is whole, and what is sent again may be.
ProcessInv ==
    /\ pc # "idle" => op \in Operations
    /\ pc \notin {"idle", "args", "done"} /\ sends => encodable
    /\ pc \in {"idle", "args", "trace", "chain", "lock", "login"} => processed = 0
    /\ pc = "sent" /\ processed > 0 => Replayable(op)
    /\ ProcessedRightly

\* Process counts a request, AnswerLost sends it again; other steps that go on do
\* not touch what ProcessInv is about.
LEMMA ProcessStep == TypeInv /\ ProcessInv /\ [Next]_vars => ProcessInv'
  <1> SUFFICES ASSUME TypeInv, ProcessInv, [Next]_vars PROVE ProcessInv'
    OBVIOUS
  <1>0. processed \in Nat
    BY StatusAssumption DEF TypeInv, TypeOK
  <1> USE <1>0 DEF ProcessInv, ProcessedRightly
  <1>1. ASSUME \/ pc' = pc
               \/ pc \in {"sent", "processed", "answered"} /\ pc' \in {"answered", "check"},
               UNCHANGED <<call, sends, processed>>
        PROVE  ProcessInv'
    BY <1>1 DEF call
  <1>2. CASE Call
    BY <1>2 DEF Call, net
  <1>3. ASSUME pc # "idle", pc' = "done", UNCHANGED <<call, sends, processed>> PROVE ProcessInv'
    BY <1>3 DEF call
  <1>4. CASE Prepare
    <2>1. sends' => encodable
      BY <1>4 DEF Prepare
    <2>2. /\ pc = "args" /\ pc' \in {"trace", "chain"}
          /\ UNCHANGED <<op, encodable, processed>>
      BY <1>4 DEF Prepare, call, net
    <2> QED BY <2>1, <2>2
  <1>5. ASSUME pc \in {"trace", "chain", "lock", "login"},
               pc' \in {"chain", "lock", "login", "sent"},
               UNCHANGED <<call, sends, net>>
        PROVE  ProcessInv'
    BY <1>5 DEF call, net
  <1>6. CASE Process
    <2>1. Replayable(op) => op.repeats
      BY <1>6, ReplayableRepeats DEF Process
    <2> QED BY <1>6, <2>1 DEF Process, call
  <1>7. CASE AnswerLost
    <2>1. CASE Fail(502)
      BY <1>3, <1>7, <2>1 DEF AnswerLost, Fail, Return, net
    <2>2. CASE /\ pc' = "sent" /\ sends' = encodable /\ Replayable(op)
               /\ UNCHANGED <<call, net>>
      BY <1>7, <2>2 DEF AnswerLost, call, net, Replayable
    <2> QED BY <1>7, <2>1, <2>2 DEF AnswerLost
  <1>8. CASE Aborted
    BY <1>1, <1>3, <1>8 DEF Aborted, BodyEnds, Fail, Return, net
  <1>9. CASE Reject \/ LoginFails \/ RequestLost \/ BodyFails \/ HandOver \/ Finish
    BY <1>3, <1>9 DEF Reject, LoginFails, RequestLost, BodyFails, HandOver, Finish, Fail,
                      Return, net
  <1>10. CASE TraceRequest \/ RoundTrip \/ MustLogin \/ HasLock \/ LoggedIn \/ Send
    BY <1>5, <1>10 DEF TraceRequest, RoundTrip, PassOn, MustLogin, HasLock, LoggedIn, Send, net
  <1>11. CASE TakeAnswer \/ Answer \/ BodyArrives \/ Cancel
    BY <1>1, <1>11 DEF TakeAnswer, Answer, BodyArrives, BodyEnds, Cancel, net
  <1>12. CASE UNCHANGED <<call, pc, sends, net>>
    BY <1>1, <1>12 DEF net
  <1> QED
    BY <1>2, <1>4, <1>6, <1>7, <1>8, <1>9, <1>10, <1>11, <1>12
    DEF Next, Client, Server, Faults, Ended, vars

\* However often net/http sends a request: the server processes only whole bodies,
\* and twice only what it may.
THEOREM OnlyWholeOnlyRepeatable == Spec => []ProcessedRightly
  <1>1. Init => ProcessInv
    BY DEF Init, ProcessInv, ProcessedRightly
  <1>2. ProcessInv => ProcessedRightly
    BY DEF ProcessInv
  <1> QED BY <1>1, <1>2, ProcessStep, TypeAlways, PTL DEF Spec

-----------------------------------------------------------------------------
(* What stays open, and what is returned.                                   *)

Unanswered == {"idle", "args", "trace", "chain", "lock", "login", "sent", "processed"}

\* net/http's body is there from the answer on.  Of the request's bodies DoReq has
\* the source until it returns; the pipe is Request.Body, open until the trace or
\* http.Transport has had it.
OpenInv ==
    /\ pc \in Unanswered => conn = "none" /\ answer = 0
    /\ pc \in {"idle", "args"} => open = {}
    /\ pc = "check" => "source" \notin open
    /\ "pipe" \in open =>
           body = "pipe" /\ pc \in {"trace", "chain", "lock", "login", "done"}
    /\ NothingLeftOpen

\* An http.Client.Do that failed: with a pipe in the login only.
LEMMA FailCloses ==
    ASSUME TypeInv, OpenInv, pc \in {"login", "sent", "processed"}, NEW status, Fail(status)
    PROVE  OpenInv'
  <1>1. /\ pc' = "done" /\ open' = open \ {"source"} /\ conn = "none" /\ answer = 0
        /\ UNCHANGED <<at, body, conn, answer>>
    BY DEF Fail, Return, CloseSource, OpenInv, Unanswered, net
  <1>2. "pipe" \in open => body = "pipe" /\ at \in Cookie
    BY DEF OpenInv, TypeInv, Linked
  <1> QED BY <1>1, <1>2 DEF OpenInv, Unanswered, NothingLeftOpen, AbandonedPipe

\* DoReq closes the source, whoever has Request.Body closes that, Finish the answer's.
LEMMA OpenStep == TypeInv /\ OpenInv /\ [Next]_vars => OpenInv'
  <1> SUFFICES ASSUME TypeInv, OpenInv, [Next]_vars PROVE OpenInv'
    OBVIOUS
  <1> USE DEF OpenInv, NothingLeftOpen, AbandonedPipe, Unanswered
  <1>1. ASSUME pc' = pc, UNCHANGED <<at, body, open, conn, answer, result>> PROVE OpenInv'
    BY <1>1
  <1>2. ASSUME pc \in {"chain", "lock", "login"}, pc' \in {"chain", "lock", "login"},
               UNCHANGED <<body, open, net>>
        PROVE  OpenInv'
    BY <1>2 DEF net
  <1>3. CASE Call
    BY <1>3 DEF Call, net
  <1>4. CASE Reject
    BY <1>4 DEF Reject, Return, net
  <1>5. CASE HandOver
    BY <1>5 DEF HandOver, Returned, net
  <1>6. CASE Finish
    BY <1>6 DEF Finish, Return
  <1>7. CASE Answer \/ TakeAnswer
    BY <1>7 DEF Answer, TakeAnswer, CloseSource
  <1>8. CASE Process
    BY <1>8 DEF Process
  <1>9. CASE Prepare \/ TraceRequest \/ Send
    BY <1>9 DEF Prepare, TraceRequest, Send, net
  <1>10. CASE RoundTrip \/ MustLogin \/ HasLock \/ LoggedIn
    BY <1>2, <1>10 DEF RoundTrip, PassOn, MustLogin, HasLock, LoggedIn
  <1>11. CASE LoginFails
    BY <1>11, FailCloses DEF LoginFails
  <1>12. CASE Faults
    <2>1. CASE RequestLost \/ BodyFails
      BY <2>1, FailCloses DEF RequestLost, BodyFails
    <2>2. CASE pc = "processed" /\ pc' = "sent" /\ UNCHANGED <<body, open, net>>
      BY <2>2 DEF net
    <2> QED BY <1>12, <2>1, <2>2, FailCloses DEF Faults, AnswerLost
  <1>13. CASE Aborted
    BY <1>1, <1>13, FailCloses DEF Aborted, BodyEnds
  <1>14. CASE BodyArrives \/ Cancel
    BY <1>1, <1>14 DEF BodyArrives, BodyEnds, Cancel, net
  <1>15. CASE UNCHANGED <<pc, at, body, open, net, result>>
    BY <1>1, <1>15 DEF net
  <1> QED
    BY <1>3, <1>4, <1>5, <1>6, <1>7, <1>8, <1>9, <1>10, <1>11, <1>12, <1>13, <1>14, <1>15
    DEF Next, Client, Server, Ended, vars

\* However the operation ends: Options.Body is closed, and Request.Body given away
\* or closed, unless it is the pipe of a failed login; the answer's body stays open
\* for an iterator only.
THEOREM BodiesClosed == Spec => []NothingLeftOpen
  <1>1. Init => OpenInv
    BY DEF Init, OpenInv, NothingLeftOpen, Unanswered
  <1>2. OpenInv => NothingLeftOpen
    BY DEF OpenInv
  <1> QED BY <1>1, <1>2, OpenStep, TypeAlways, PTL DEF Spec

-----------------------------------------------------------------------------
(* Results.                                                                 *)

ResultInv ==
    /\ pc # "idle" => op \in Operations /\ (op.body = "none" => encodable)
    /\ pc \in Unanswered => answer = 0 /\ arrival = "none"
    /\ pc \in {"answered", "check"} => answer \in Statuses
    /\ pc \in Unanswered \ {"idle", "args"} => (encodable => sends)
    /\ ResultFromAnswer

\* Without an answer there is an error and no value, unless a failed login passes
\* for the answer.
LEMMA NoAnswerNoValue ==
    ASSUME NEW err \in Nat \ {0}, answer = 0, arrival = "none",
           \/ at \in Cookie
           \/ (err = 400 => op.end # "ping") /\ (err = 404 => op.end \notin {"exists", "ping"}),
           result' \in Outcome(err), UNCHANGED <<op, at, answer>>
    PROVE  ResultFromAnswer'
  <1>1. CASE result' = Returned("none", err)
    BY <1>1 DEF Returned, ResultFromAnswer
  <1>2. CASE /\ result' \in {Returned("no", 0), Returned("panic", 0)}
             /\ op.end \in {"exists", "ping"} /\ at \in Cookie
    <2>1. LoginMistaken'
      BY <1>2 DEF LoginMistaken
    <2> QED BY <1>2, <2>1 DEF Returned, ResultFromAnswer
  <1> QED BY <1>1, <1>2 DEF Outcome

\* A failed http.Client.Do.
LEMMA FailStep ==
    ASSUME ResultInv, pc \in Unanswered, pc # "idle", NEW status \in Nat \ {0}, Fail(status),
           \/ at \in Cookie
           \/ /\ status = 400 => op.end # "ping"
              /\ status = 404 => op.end \notin {"exists", "ping"}
    PROVE  ResultInv'
  <1>1. /\ NetError(status) \in Nat \ {0}
        /\ NetError(status) \in {400, 404} => NetError(status) = status
    BY DEF NetError
  <1>2. /\ pc' = "done" /\ result' \in Outcome(NetError(status))
        /\ UNCHANGED <<op, at, encodable, answer, arrival>>
    BY DEF Fail, Return, call, net
  <1>3. ResultFromAnswer'
    BY <1>1, <1>2, NoAnswerNoValue DEF ResultInv
  <1> QED BY <1>2, <1>3 DEF ResultInv, Unanswered

\* Finish turns an answer into the result that belongs to it.
LEMMA FinishStep == ASSUME TypeInv, ResultInv, Finish PROVE ResultInv'
  <1>1. PICK err \in Errors : result' \in Outcome(err)
    BY DEF Finish, Return
  <1>2. /\ pc = "check" /\ pc' = "done"
        /\ UNCHANGED <<op, encodable, answer, arrival>>
        /\ ~(op.end = "rows" /\ answer < 400)
    BY DEF Finish, Return, call
  <1>3. answer \in Nat \ {0}
    BY <1>2, StatusAssumption DEF ResultInv
  <1>4. ResultFromAnswer'
    <2>1. CASE answer >= 400 /\ ~(op.end = "bulk" /\ answer = 417)
      <3>1. err = answer
        BY <1>1, <1>3, <2>1 DEF Errors
      <3>2. \/ result' = Returned("none", answer)
            \/ answer = 404 /\ result' = Returned("no", 0)
            \/ op.end = "ping" /\ answer = 400 /\ result' \in {Returned("ok", 0), Returned("no", 0)}
        BY <1>1, <1>3, <2>1, <3>1 DEF Outcome
      <3> QED BY <1>2, <1>3, <2>1, <3>2 DEF Returned, ResultFromAnswer
    <2>2. CASE op.end = "bulk" /\ answer = 417
      <3>1. \/ arrival = "value" /\ result' = Returned("ok", 417)
            \/ result' = Returned("none", 502)
        BY <1>1, <1>3, <2>2 DEF Errors, Outcome
      <3> QED BY <1>2, <2>2, <3>1 DEF Returned, ResultFromAnswer
    <2>3. CASE answer < 400
      <3>1. \/ err = 0 /\ (op.end \in {"json", "bulk"} => arrival = "value")
            \/ err \in {500, 502}
        BY <1>1, <1>3, <2>3 DEF Errors
      <3>2. \/ result' = Returned("ok", 0) /\ (op.end \in {"json", "bulk"} => arrival = "value")
            \/ result' \in {Returned("none", 500), Returned("none", 502)}
        BY <1>1, <3>1 DEF Outcome
      <3> QED BY <1>2, <1>3, <2>3, <3>2 DEF Returned, ResultFromAnswer
    <2> QED BY <1>3, <2>1, <2>2, <2>3
  <1> QED BY <1>2, <1>4 DEF ResultInv, Unanswered

\* The other steps go on, or leave the result as it is.
LEMMA ResultStep ==
    ASSUME TypeInv, ResultInv, [Next]_vars
    PROVE  ResultInv'
  <1> USE DEF ResultInv, Unanswered
  <1>1. ASSUME pc # "done", pc' # "done",
               pc' \in Unanswered => answer' = 0 /\ arrival' = "none",
               pc' \in {"answered", "check"} => answer' \in Statuses,
               pc' \in Unanswered \ {"idle", "args"} => (encodable' => sends'),
               pc' # "idle" => op' \in Operations /\ (op'.body = "none" => encodable')
        PROVE  ResultInv'
    BY <1>1 DEF ResultFromAnswer
  <1>2. CASE Call
    BY <1>1, <1>2 DEF Call, net
  <1>3. CASE Reject
    <2>1. op.end # "ping" /\ result' \in Outcome(400)
      BY <1>3, ProbesBodyless DEF Reject, Return
    <2>2. /\ pc' = "done" /\ answer = 0 /\ arrival = "none"
          /\ UNCHANGED <<op, at, encodable, answer, arrival>>
      BY <1>3 DEF Reject, Return, call, net
    <2>3. ResultFromAnswer'
      BY <2>1, <2>2, NoAnswerNoValue
    <2> QED BY <2>2, <2>3, <1>3 DEF Reject
  <1>4. CASE Prepare
    BY <1>1, <1>4 DEF Prepare, call, net
  <1>5. CASE TraceRequest \/ RoundTrip \/ MustLogin \/ HasLock \/ LoggedIn \/ Send
    BY <1>1, <1>5
    DEF TraceRequest, RoundTrip, PassOn, MustLogin, HasLock, LoggedIn, Send, call, net
  <1>6. CASE LoginFails
    BY <1>6, FailStep, StatusAssumption DEF LoginFails, TypeInv, Linked
  <1>7. CASE RequestLost
    BY <1>7, FailStep DEF RequestLost
  <1>8. CASE BodyFails
    <2>1. op.end \notin {"exists", "ping"}
      BY <1>8, ProbesBodyless DEF BodyFails
    <2> QED BY <1>8, <2>1, FailStep DEF BodyFails
  <1>9. CASE AnswerLost
    BY <1>1, <1>9, FailStep DEF AnswerLost, call, net
  <1>10. CASE Process
    BY <1>1, <1>10 DEF Process, call
  <1>11. CASE Answer
    BY <1>1, <1>11 DEF Answer, call
  <1>12. ASSUME NEW how, BodyEnds(how) PROVE ResultInv'
    BY <1>12 DEF BodyEnds, call, ResultFromAnswer, LoginMistaken
  <1>13. CASE Aborted
    BY <1>12, <1>13, FailStep DEF Aborted
  <1>14. CASE TakeAnswer
    BY <1>1, <1>14 DEF TakeAnswer, call
  <1>15. CASE HandOver
    <2>1. answer \in Nat \ {0}
      BY <1>15, StatusAssumption DEF HandOver
    <2> QED
      BY <1>15, <2>1 DEF HandOver, Returned, call, net, ResultFromAnswer
  <1>16. CASE UNCHANGED <<call, pc, at, sends, answer, arrival, result>>
    BY <1>16 DEF call, ResultFromAnswer, LoginMistaken
  <1> QED
    BY <1>2, <1>3, <1>4, <1>5, <1>6, <1>7, <1>8, <1>9, <1>10, <1>11, <1>12, <1>13,
       <1>14, <1>15, <1>16, FinishStep
    DEF Next, Client, Server, Faults, BodyArrives, Cancel, Ended, vars, net

\* Whatever the server answers, to the operation and to the login: results are what
\* it answered, but where Ping and DBExists take the login's failure for it.
THEOREM ResultsFromAnswers == Spec => []ResultFromAnswer
  <1>1. Init => ResultInv
    BY DEF Init, ResultInv, ResultFromAnswer, Unanswered
  <1>2. ResultInv => ResultFromAnswer
    BY DEF ResultInv
  <1>3. TypeInv /\ ResultInv /\ [Next]_vars => ResultInv'
    BY ResultStep
  <1> QED BY <1>1, <1>2, <1>3, TypeAlways, PTL DEF Spec

-----------------------------------------------------------------------------
(* The way through the chain, when no authenticator is given to a client    *)
(* twice.  b says which authenticators each has behind it, near or far.     *)

Chain(b) ==
    /\ b \in [Wrapper -> SUBSET Wrapper]
    /\ transport \in Wrapper => Installed = b[transport] \cup {transport}
    /\ transport \notin Wrapper => Installed = {}
    /\ \A a \in Installed :
           /\ b[a] \subseteq Installed /\ a \notin b[a]
           /\ next[a] \in Base => b[a] = {}
           /\ next[a] \in Installed => b[a] = b[next[a]] \cup {next[a]}

\* A request has passed those that are not at or behind its place.
Way(b) ==
    /\ pc \in {"idle", "args", "trace"} => passed = {}
    /\ pc = "trace" => at = First
    /\ pc \in {"chain", "lock", "login"} /\ at \in Installed => passed = Installed \ (b[at] \cup {at})
    /\ pc \in {"chain", "lock", "login"} /\ at \in Base => passed = Installed

WayInv == \E b \in [Wrapper -> SUBSET Wrapper] : Chain(b) /\ Way(b)

\* Base and Wrapper have nothing in common.
LEMMA BaseNotWrapper == Base \cap Wrapper = {} /\ None \notin Base /\ None \notin Wrapper
  BY AuthAssumption DEF Base, Wrapper

\* An authenticator that is installed in front has all the others behind it.
LEMMA WrapChain ==
    ASSUME TypeInv, NEW b, Chain(b), NEW a \in Wrapper, a \notin installed, Wrap(a)
    PROVE  \E c \in [Wrapper -> SUBSET Wrapper] : Chain(c)'
  <1> USE AuthAssumption, BaseNotWrapper
  <1>1. /\ Installed \subseteq Wrapper /\ a \notin Installed
        /\ Installed' = Installed \cup {a}
        /\ transport' = a
        /\ next' = [next EXCEPT ![a] = First]
        /\ next \in [Authenticator -> Authenticator \cup Base \cup {None}]
        /\ Wrapper \subseteq Authenticator
    BY DEF TypeInv, TypeOK, AuthTypeOK, Wrap, Installed, Wrapper
  <1>2. PICK c \in [Wrapper -> SUBSET Wrapper] :
            c[a] = Installed /\ \A d \in Installed : c[d] = b[d]
    <2> DEFINE c == [b EXCEPT ![a] = Installed]
    <2>1. c \in [Wrapper -> SUBSET Wrapper]
      BY <1>1 DEF Chain
    <2>2. c[a] = Installed /\ \A d \in Installed : c[d] = b[d]
      BY <1>1 DEF Chain
    <2> HIDE DEF c
    <2> QED BY <2>1, <2>2
  <1>3. /\ next'[a] = First
        /\ \A d \in Installed : next'[d] = next[d] /\ next[d] \in Base \cup Installed
    BY <1>1 DEF TypeInv, Linked
  <1>4. /\ First \in Base => Installed = {}
        /\ First \in Installed => Installed = b[First] \cup {First}
        /\ First \in Base \cup Installed
    BY <1>1 DEF Chain, First, TypeInv, Linked, Base
  <1>5. \A d \in Installed : c[d] \subseteq Installed' /\ d \notin c[d]
                            /\ (next'[d] \in Base => c[d] = {})
                            /\ (next'[d] \in Installed' => c[d] = c[next'[d]] \cup {next'[d]})
    BY <1>1, <1>2, <1>3 DEF Chain
  <1>6. /\ c[a] \subseteq Installed' /\ a \notin c[a]
        /\ next'[a] \in Base => c[a] = {}
        /\ next'[a] \in Installed' => c[a] = c[next'[a]] \cup {next'[a]}
    BY <1>1, <1>2, <1>3, <1>4
  <1>7. Chain(c)'
    BY <1>1, <1>2, <1>5, <1>6 DEF Chain
  <1> QED BY <1>7

\* The other ways to change the chain put nothing behind anything.
LEMMA OtherChain ==
    ASSUME TypeInv, NEW b, Chain(b),
           Refused \/ \E a \in Xport : Replace(a) \/ UNCHANGED <<transport, next, installed>>
    PROVE  Chain(b)'
  <1>1. CASE UNCHANGED <<transport, next, installed>>
    BY <1>1 DEF Chain, Installed
  <1>2. ASSUME NEW a \in Xport, Replace(a) PROVE Chain(b)'
    <2>1. transport = None /\ transport' = a /\ next' = next /\ installed' = installed \cup {a}
      BY <1>2, AuthAssumption DEF Replace
    <2>2. Installed = {} /\ Installed' = {} /\ a \notin Wrapper
      BY <2>1, BaseNotWrapper DEF Chain, Installed, Base
    <2> QED BY <2>1, <2>2 DEF Chain
  <1> QED BY <1>1, <1>2 DEF Refused

\* SetCookie is a Wrap where there is nothing to wrap.
LEMMA ReplaceWraps == ASSUME NEW a \in Raw, Replace(a) PROVE Wrap(a)
  BY AuthAssumption DEF Replace, Wrap, First

\* Configuring the client keeps the chain a chain.
LEMMA ConfigureChain ==
    ASSUME Reinstall = FALSE, TypeInv, NEW b, Chain(b), b \in [Wrapper -> SUBSET Wrapper], Configure
    PROVE  \E c \in [Wrapper -> SUBSET Wrapper] : Chain(c)'
  <1> USE AuthAssumption
  <1>1. Chain(b)' => \E c \in [Wrapper -> SUBSET Wrapper] : Chain(c)'
    OBVIOUS
  <1>2. CASE NewClient
    BY <1>1, <1>2, WrapChain, OtherChain DEF NewClient, MayInstall, Wrapper
  <1>3. ASSUME NEW a \in Authenticator, Authenticate(a)
        PROVE  \E c \in [Wrapper -> SUBSET Wrapper] : Chain(c)'
    <2>1. a \notin installed
      BY <1>3 DEF Authenticate, MayInstall
    <2>2. CASE a \in Xport
      BY <1>1, <1>3, <2>2, OtherChain DEF Authenticate
    <2>3. CASE a \notin Xport
      BY <1>1, <1>3, <2>1, <2>3, WrapChain, OtherChain, ReplaceWraps DEF Authenticate, Wrapper
    <2> QED BY <2>2, <2>3
  <1>4. ASSUME NEW a \in Wrapper, Auth(a)
        PROVE  \E c \in [Wrapper -> SUBSET Wrapper] : Chain(c)'
    BY <1>1, <1>4, WrapChain, OtherChain DEF Auth, MayInstall
  <1> QED BY <1>2, <1>3, <1>4 DEF Configure

\* A transport passes the request on to the one behind it.
LEMMA PassOnWay ==
    ASSUME TypeInv, NEW b, Chain(b), Way(b), pc \in {"chain", "lock", "login"}, at \in Wrapper,
           PassOn
    PROVE  Way(b)'
  <1>1. at \in Installed /\ passed = Installed \ (b[at] \cup {at})
    BY BaseNotWrapper DEF TypeInv, Linked, Way
  <1>2. /\ pc' = "chain" /\ passed' = passed \cup {at} /\ at' = next[at]
        /\ Installed' = Installed
    BY DEF PassOn, authVars, Installed
  <1>3. passed' = Installed \ b[at]
    BY <1>1, <1>2 DEF Chain
  <1>4. at' \in Base => passed' = Installed
    BY <1>1, <1>2, <1>3 DEF Chain
  <1>5. at' \in Installed => passed' = Installed \ (b[at'] \cup {at'})
    BY <1>1, <1>2, <1>3 DEF Chain
  <1> QED BY <1>2, <1>4, <1>5 DEF Way, Base

\* Every step keeps to the way.
LEMMA WayStep ==
    ASSUME Reinstall = FALSE, TypeInv, WayInv, [Next]_vars
    PROVE  WayInv'
  <1> PICK b \in [Wrapper -> SUBSET Wrapper] : Chain(b) /\ Way(b)
    BY DEF WayInv
  <1>1. ASSUME Chain(b)', Way(b)' PROVE WayInv'
    BY <1>1 DEF WayInv, Wrapper
  <1>2. UNCHANGED authVars => Chain(b)'
    BY DEF authVars, Chain, Installed
  <1>3. CASE pc = "idle" /\ Configure /\ UNCHANGED <<pc, at, passed>>
    <2>1. PICK c \in [Wrapper -> SUBSET Wrapper] : Chain(c)'
      BY <1>3, ConfigureChain
    <2>2. Way(c)'
      BY <1>3 DEF Way
    <2> QED BY <2>1, <2>2 DEF WayInv, Wrapper
  <1>4. ASSUME UNCHANGED <<authVars, at, passed>>,
               \/ pc' \notin {"trace", "chain", "lock", "login"} \cup {"idle", "args"}
               \/ pc' = pc
               \/ pc = "chain" /\ pc' = "lock"
               \/ pc = "lock" /\ pc' = "login"
               \/ pc = "idle" /\ pc' = "args"
        PROVE  WayInv'
    <2>1. Way(b)'
      BY <1>4 DEF Way, authVars, Installed, First, Base
    <2> QED BY <1>1, <1>2, <1>4, <2>1
  <1>5. CASE Prepare
    <2>1. /\ at' = First /\ passed = {} /\ UNCHANGED <<authVars, passed>>
          /\ pc' \in {"trace", "chain"}
      BY <1>5 DEF Prepare, Way
    <2>2. First' = First /\ Installed' = Installed
      BY <2>1 DEF First, Installed, authVars
    <2>3. /\ First \in Base => Installed = {}
          /\ First \in Installed => Installed = b[First] \cup {First}
      BY BaseNotWrapper DEF Chain, First, TypeInv, Linked, Base, TypeOK, AuthTypeOK, Installed, Wrapper
    <2>4. Way(b)'
      BY <2>1, <2>2, <2>3 DEF Way, Base
    <2> QED BY <1>1, <1>2, <2>1, <2>4
  <1>6. CASE TraceRequest
    <2>1. /\ at' = First /\ passed = {} /\ UNCHANGED <<authVars, passed>>
          /\ pc' = "chain"
      BY <1>6 DEF TraceRequest, Way
    <2>2. First' = First /\ Installed' = Installed
      BY <2>1 DEF First, Installed, authVars
    <2>3. /\ First \in Base => Installed = {}
          /\ First \in Installed => Installed = b[First] \cup {First}
      BY BaseNotWrapper DEF Chain, First, TypeInv, Linked, Base, TypeOK, AuthTypeOK, Installed, Wrapper
    <2>4. Way(b)'
      BY <2>1, <2>2, <2>3 DEF Way, Base
    <2> QED BY <1>1, <1>2, <2>1, <2>4
  <1>7. CASE RoundTrip
    <2>1. Way(b)' /\ UNCHANGED authVars
      BY <1>7, PassOnWay DEF RoundTrip, PassOn
    <2> QED BY <1>1, <1>2, <2>1
  <1>8. ASSUME pc \in {"lock", "login"}, PassOn PROVE WayInv'
    <2>1. at \in Wrapper
      BY <1>8, AuthAssumption DEF TypeInv, Linked, Wrapper
    <2>2. Way(b)' /\ UNCHANGED authVars
      BY <1>8, <2>1, PassOnWay DEF PassOn
    <2> QED BY <1>1, <1>2, <2>2
  <1>9. CASE Call \/ MustLogin \/ Send \/ UNCHANGED vars
    BY <1>4, <1>9 DEF Call, MustLogin, Send, vars
  <1>10. ASSUME NEW status, Fail(status) PROVE WayInv'
    BY <1>4, <1>10 DEF Fail, Return
  <1>11. CASE Reject \/ LoginFails \/ RequestLost \/ BodyFails \/ HandOver \/ Finish
    BY <1>4, <1>10, <1>11 DEF Reject, LoginFails, RequestLost, BodyFails, HandOver, Finish, Return
  <1>12. ASSUME NEW how, BodyEnds(how) PROVE WayInv'
    BY <1>4, <1>12 DEF BodyEnds
  <1>13. CASE Process \/ AnswerLost \/ Answer \/ BodyArrives \/ Aborted \/ TakeAnswer \/ Cancel
    BY <1>4, <1>10, <1>12, <1>13
    DEF Process, AnswerLost, Answer, BodyArrives, Aborted, TakeAnswer, Cancel
  <1>14. CASE HasLock \/ LoggedIn
    BY <1>4, <1>8, <1>14 DEF HasLock, LoggedIn
  <1> QED
    BY <1>3, <1>5, <1>6, <1>7, <1>9, <1>11, <1>13, <1>14
    DEF Next, Client, Server, Faults, Ended

\* However many authenticators a client was given, in whatever order, by New or
\* later: a request passes through each of them once.
THEOREM EachOnce ==
    ASSUME Reinstall = FALSE
    PROVE  Spec => []PassesEachOnce
  <1>1. Init => WayInv
    <2> SUFFICES ASSUME Init PROVE WayInv
      OBVIOUS
    <2> DEFINE b == [a \in Wrapper |-> {}]
    <2>1. Installed = {} /\ transport \notin Wrapper
      BY BaseNotWrapper DEF Init, AuthInit, Installed, Base
    <2>2. b \in [Wrapper -> SUBSET Wrapper]
      OBVIOUS
    <2> HIDE DEF b
    <2>3. Chain(b) /\ Way(b)
      BY <2>1, <2>2 DEF Init, Chain, Way
    <2> QED BY <2>2, <2>3 DEF WayInv
  <1>2. TypeInv /\ WayInv => PassesEachOnce
    <2> SUFFICES ASSUME TypeInv, WayInv, pc = "chain"
                 PROVE  at \notin passed /\ (at \in Base => passed = Installed)
      BY DEF PassesEachOnce, Installed
    <2>1. PICK b \in [Wrapper -> SUBSET Wrapper] : Way(b)
      BY DEF WayInv
    <2>2. Installed \subseteq Wrapper /\ at \in Base \cup Installed
      BY DEF TypeInv, Linked, TypeOK, AuthTypeOK, Installed, Wrapper
    <2> QED BY <2>1, <2>2, BaseNotWrapper DEF Way
  <1>3. TypeInv /\ WayInv /\ [Next]_vars => WayInv'
    BY WayStep
  <1> QED BY <1>1, <1>2, <1>3, TypeAlways, PTL DEF Spec
=============================================================================
