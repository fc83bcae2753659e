---------------------------- MODULE Replication ----------------------------
(***************************************************************************)
(* replication.go and scheduler.go: goroutines that share a client and one *)
(* replication of it.  The client finds out once whether the server has    *)
(* the replication scheduler.  Replicate then posts a document and returns *)
(* an object for it, which Update brings up to date: from the _replicator  *)
(* document and _active_tasks of an old server (kind "legacy"), or from    *)
(* _scheduler/docs (kind "scheduler"), whose object has no mutex.          *)
(*                                                                         *)
(* A worker's pc is idle or                                                *)
(*   detect   schedulerSupported waits for client.sdMU                     *)
(*   head     sdMU held, HEAD /_scheduler/jobs                             *)
(*   post     Replicate: POST /_replicator                                 *)
(*   list     GetReplications: the answer is known                         *)
(*   get      GET of the document                                          *)
(*   apply    the document is here, its fields are to be copied            *)
(*   state, reason    the times, and the state, were copied                *)
(*   check    updateMain is over                                           *)
(*   tasks    GET /_active_tasks                                           *)
(*   delete   GetRev is over, DELETE is next                               *)
(***************************************************************************)
EXTENDS Naturals, Sequences

CONSTANTS Workers,      \* goroutines that share the client
          MaxCalls,     \* bound: calls they make
          MaxVersions,  \* bound: versions of the document
          MaxBugs,      \* bound: answers of CouchDB 2.1 with its issue 1000
          None

ASSUME NoneAssumption == None \notin Workers \cup {"yes", "no"}
ASSUME BoundsAssumption ==
    MaxCalls \in Nat /\ MaxVersions \in Nat \ {0} /\ MaxBugs \in Nat

VARIABLES
    sdMU,      \* who holds client.sdMU, or None
    detected,  \* client.schedulerDetected: None, "yes" or "no"
    pc,
    call,      \* what each worker called last
    answer,    \* what schedulerSupported returned to it
    copy,      \* the version of the document it fetched
    result,    \* how its call ended: none, ok or error
    progress,  \* the Progress its Update reported
    calls,     \* calls begun
    made,      \* Replicate has returned the object
    kind,      \* legacy or scheduler
    mu,        \* the writer that holds the object's mu, or None
    rep,       \* the fields of the object
    versions,  \* server: the states of the document, empty before POST
    listed,    \* server: the scheduler knows the document
    deleted,   \* server: the document is gone
    bugs       \* server: answers with the bug given

detection == <<sdMU, detected, answer>>
server    == <<versions, listed, deleted, bugs>>
object    == <<made, kind, mu, rep>>
ended     == <<result, progress>>
vars == <<detection, pc, call, copy, ended, calls, object, server>>

States == {"notStarted", "triggered", "completed", "error"}
Times  == 0 .. MaxVersions
Calls  == {"Replicate", "GetReplications", "Update", "Delete"}
Places == {"idle", "detect", "head", "post", "list", "get", "apply", "state",
           "reason", "check", "tasks", "delete"}

TypeOK ==
    /\ sdMU \in Workers \cup {None}
    /\ detected \in {None, "yes", "no"}
    /\ pc \in [Workers -> Places]
    /\ call \in [Workers -> Calls \cup {None}]
    /\ answer \in [Workers -> {None, "yes", "no"}]
    /\ copy \in [Workers -> Times]
    /\ result \in [Workers -> {"none", "ok", "error"}]
    /\ progress \in [Workers -> {0, 100}]
    /\ calls \in 0 .. MaxCalls
    /\ made \in BOOLEAN
    /\ kind \in {None, "legacy", "scheduler"}
    /\ mu \in Workers \cup {None}
    /\ rep \in [state : States, startTime : Times, endTime : Times, err : BOOLEAN,
                known : BOOLEAN]
    /\ versions \in Seq(States) /\ Len(versions) <= MaxVersions
    /\ listed \in BOOLEAN /\ deleted \in BOOLEAN
    /\ bugs \in 0 .. MaxBugs

Init ==
    /\ sdMU = None /\ detected = None
    /\ pc = [w \in Workers |-> "idle"]
    /\ call = [w \in Workers |-> None]
    /\ answer = [w \in Workers |-> None]
    /\ copy = [w \in Workers |-> 0]
    /\ result = [w \in Workers |-> "none"]
    /\ progress = [w \in Workers |-> 0]
    /\ calls = 0
    /\ made = FALSE /\ kind = None /\ mu = None
    /\ rep = [state |-> "notStarted", startTime |-> 0, endTime |-> 0, err |-> FALSE,
              known |-> FALSE]
    /\ versions = <<>> /\ listed = FALSE /\ deleted = FALSE /\ bugs = 0

Goto(w, place) == pc' = [pc EXCEPT ![w] = place]

\* The call ends; r is "error", or "ok" with Progress p.
Ends(w, r, p) ==
    /\ Goto(w, "idle")
    /\ result' = [result EXCEPT ![w] = r]
    /\ progress' = [progress EXCEPT ![w] = p]

Fails(w) == Ends(w, "error", 0)

\* The call begins.
Calling(w, c, place) ==
    /\ pc[w] = "idle" /\ calls < MaxCalls
    /\ calls' = calls + 1
    /\ call' = [call EXCEPT ![w] = c]
    /\ result' = [result EXCEPT ![w] = "none"]
    /\ progress' = [progress EXCEPT ![w] = 0]
    /\ Goto(w, place)
    /\ UNCHANGED <<detection, copy, object, server>>

-----------------------------------------------------------------------------
(* The calls.  One goroutine replicates; all share what it gets.            *)

Replicate(w) ==
    /\ versions = <<>>
    /\ \A v \in Workers : call[v] = "Replicate" => pc[v] = "idle"
    /\ Calling(w, "Replicate", "detect")

GetReplications(w) == Calling(w, "GetReplications", "detect")

Update(w) == made /\ Calling(w, "Update", "get")

\* GetRev: HEAD of the document, its revision is that of the version.
Delete(w) ==
    /\ made /\ ~deleted
    /\ pc[w] = "idle" /\ calls < MaxCalls
    /\ calls' = calls + 1
    /\ call' = [call EXCEPT ![w] = "Delete"]
    /\ copy' = [copy EXCEPT ![w] = Len(versions)]
    /\ result' = [result EXCEPT ![w] = "none"]
    /\ progress' = [progress EXCEPT ![w] = 0]
    /\ Goto(w, "delete")
    /\ UNCHANGED <<detection, object, server>>

-----------------------------------------------------------------------------
(* schedulerSupported.                                                      *)

AfterDetection(w) == IF call[w] = "Replicate" THEN "post" ELSE "list"

\* A possible bug: the mutex guards the request and not the look at the cache.
AskAnyway(w) ==
    /\ pc[w] = "detect" /\ sdMU = None
    /\ sdMU' = w
    /\ Goto(w, "head")
    /\ UNCHANGED <<detected, answer, call, copy, ended, calls, object, server>>

\* sdMU is free and nothing is cached: keep the lock and ask.
Ask(w) ==
    /\ pc[w] = "detect" /\ sdMU = None
    /\ detected = None
    /\ sdMU' = w
    /\ Goto(w, "head")
    /\ UNCHANGED <<detected, answer, call, copy, ended, calls, object, server>>

UseDetected(w) ==
    /\ pc[w] = "detect" /\ sdMU = None
    /\ detected # None
    /\ answer' = [answer EXCEPT ![w] = detected]
    /\ Goto(w, AfterDetection(w))
    /\ UNCHANGED <<sdMU, detected, call, copy, ended, calls, object, server>>

\* 200 and 401 mean yes; 400, 404 and any status besides mean no, so that the
\* same server may give either answer.  It is cached for good.
Detect(w) ==
    /\ pc[w] = "head"
    /\ detected' \in {"yes", "no"}
    /\ answer' = [answer EXCEPT ![w] = detected']
    /\ sdMU' = None
    /\ Goto(w, AfterDetection(w))
    /\ UNCHANGED <<call, copy, ended, calls, object, server>>

\* A possible bug: an early return without Unlock.
DetectFailsLocked(w) ==
    /\ pc[w] = "head"
    /\ Fails(w)
    /\ UNCHANGED <<sdMU, detected, answer, call, copy, calls, object, server>>

\* No answer: nothing is cached.
DetectFails(w) ==
    /\ pc[w] = "head"
    /\ sdMU' = None
    /\ Fails(w)
    /\ UNCHANGED <<detected, answer, call, copy, calls, object, server>>

\* GetReplications reads the list and makes objects of its own.
List(w) ==
    /\ pc[w] = "list"
    /\ Ends(w, "ok", 0) \/ Fails(w)
    /\ UNCHANGED <<detection, call, copy, calls, object, server>>

\* The document is created, and the object for it; but for the document alone when
\* the reply is lost, and for neither when the request is.
Post(w) ==
    /\ pc[w] = "post"
    /\ \/ /\ versions' = <<"notStarted">>
          /\ kind' = IF answer[w] = "yes" THEN "scheduler" ELSE "legacy"
          /\ Goto(w, "get")
          /\ UNCHANGED <<made, ended>>
       \/ /\ versions' \in {versions, <<"notStarted">>}
          /\ Fails(w) /\ UNCHANGED <<made, kind>>
    /\ UNCHANGED <<detection, call, copy, calls, mu, rep, listed, deleted, bugs>>

-----------------------------------------------------------------------------
(* updateMain and the scheduler's update.                                   *)

Readable == ~deleted /\ (kind = "scheduler" => listed)

Get(w) ==
    /\ pc[w] = "get" /\ Readable
    /\ copy' = [copy EXCEPT ![w] = Len(versions)]
    /\ Goto(w, "apply")
    /\ UNCHANGED <<detection, call, ended, calls, object, server>>

\* isBug1000: the recursive call of update asks again.
GetAgain(w) ==
    /\ pc[w] = "get" /\ kind = "scheduler" /\ bugs < MaxBugs
    /\ bugs' = bugs + 1
    /\ UNCHANGED <<detection, pc, call, copy, ended, calls, object, versions, listed, deleted>>

\* 404, a failed request, or a body that is no JSON.  Replicate of the legacy
\* kind returns its object nevertheless; of the other it fails.
GetFails(w) ==
    /\ pc[w] = "get"
    /\ IF call[w] = "Replicate" /\ kind = "legacy"
       THEN made' = TRUE /\ Ends(w, "ok", 0)
       ELSE Fails(w) /\ UNCHANGED made
    /\ UNCHANGED <<detection, call, copy, calls, kind, mu, rep, server>>

State(w) == versions[copy[w]]

\* A possible bug: mu is not taken.
SetTimesUnlocked(w) ==
    /\ pc[w] = "apply" /\ kind = "legacy"
    /\ rep' = CASE State(w) = "triggered" -> [rep EXCEPT !.startTime = copy[w]]
                [] State(w) \in {"error", "completed"} -> [rep EXCEPT !.endTime = copy[w]]
                [] OTHER -> rep
    /\ UNCHANGED mu
    /\ Goto(w, "state")
    /\ UNCHANGED <<detection, call, copy, ended, calls, made, kind, server>>

\* A possible bug: the time of the next version is taken.
SetTimesLate(w) ==
    /\ pc[w] = "apply" /\ kind = "legacy" /\ mu = None
    /\ rep' = CASE State(w) = "triggered" -> [rep EXCEPT !.startTime = copy[w] + 1]
                [] State(w) \in {"error", "completed"} -> [rep EXCEPT !.endTime = copy[w] + 1]
                [] OTHER -> rep
    /\ mu' = w
    /\ Goto(w, "state")
    /\ UNCHANGED <<detection, call, copy, ended, calls, made, kind, server>>

\* setFromReplicatorDoc, with mu from here to the end.
SetTimes(w) ==
    /\ pc[w] = "apply" /\ kind = "legacy" /\ mu = None
    /\ rep' = CASE State(w) = "triggered" -> [rep EXCEPT !.startTime = copy[w]]
                [] State(w) \in {"error", "completed"} -> [rep EXCEPT !.endTime = copy[w]]
                [] OTHER -> rep
    /\ mu' = w
    /\ Goto(w, "state")
    /\ UNCHANGED <<detection, call, copy, ended, calls, made, kind, server>>

\* setFromDoc, without a mutex: what does not change is copied until a source is
\* known, and a new document may be listed without one.
SetIdentity(w) ==
    /\ pc[w] = "apply" /\ kind = "scheduler"
    /\ \E source \in BOOLEAN :
          /\ source \/ State(w) = "notStarted"
          /\ rep' = IF rep.known THEN rep
                    ELSE [rep EXCEPT !.startTime = copy[w], !.known = source]
    /\ Goto(w, "state")
    /\ UNCHANGED <<detection, call, copy, ended, calls, made, kind, mu, server>>

\* The state.  For the scheduler kind endTime stands for lastUpdated, which
\* EndTime returns once the replication is over.
SetState(w) ==
    /\ pc[w] = "state"
    /\ rep' = [rep EXCEPT !.state = State(w),
                          !.endTime = IF kind = "scheduler" THEN copy[w] ELSE @]
    /\ Goto(w, "reason")
    /\ UNCHANGED <<detection, call, copy, ended, calls, made, kind, mu, server>>

\* The error, and the source, target and replicationID still unknown.
SetReason(w) ==
    /\ pc[w] = "reason"
    /\ rep' = [rep EXCEPT !.err = (State(w) = "error"),
                          !.known = (@ \/ kind = "legacy")]
    /\ mu' = None
    /\ Goto(w, "check")
    /\ UNCHANGED <<detection, call, copy, ended, calls, made, kind, server>>

\* Replicate returns the object, but asks the scheduler until it knows a source.
\* Update of the scheduler kind is over.
Created(w) ==
    /\ pc[w] = "check" /\ (call[w] = "Replicate" \/ kind = "scheduler")
    /\ IF call[w] = "Replicate" /\ kind = "scheduler" /\ ~rep.known
       THEN Goto(w, "get") /\ UNCHANGED <<ended, made>>
       ELSE Ends(w, "ok", 0) /\ made' = TRUE
    /\ UNCHANGED <<detection, call, copy, calls, kind, mu, rep, server>>

\* r.State() == "complete", read under mu.
Check(w) ==
    /\ pc[w] = "check" /\ call[w] = "Update" /\ kind = "legacy" /\ mu = None
    /\ IF rep.state = "complete" THEN Ends(w, "ok", 100)
       ELSE Goto(w, "tasks") /\ UNCHANGED ended
    /\ UNCHANGED <<detection, call, copy, calls, object, server>>

\* Found or not, the call succeeds, unless the request failed.
Tasks(w) ==
    /\ pc[w] = "tasks"
    /\ Ends(w, "ok", 0) \/ Fails(w)
    /\ UNCHANGED <<detection, call, copy, calls, object, server>>

\* DELETE with the revision GetRev saw: a conflict if there is another by now.  The
\* reply may be lost.
Remove(w) ==
    /\ pc[w] = "delete"
    /\ \/ /\ copy[w] = Len(versions) /\ ~deleted
          /\ deleted' = TRUE
          /\ Ends(w, "ok", 0) \/ Fails(w)
       \/ Fails(w) /\ UNCHANGED deleted
    /\ UNCHANGED <<detection, call, copy, calls, object, versions, listed, bugs>>

-----------------------------------------------------------------------------
(* The server, modelled from the answers the code handles.                  *)

Schedule ==
    /\ versions # <<>> /\ ~listed
    /\ listed' = TRUE
    /\ UNCHANGED <<detection, pc, call, copy, ended, calls, object, versions, deleted, bugs>>

NextStates(s) == CASE s = "notStarted" -> {"triggered", "error"}
                   [] s = "triggered" -> {"completed", "error"}
                   [] s = "error" -> {"triggered"}
                   [] OTHER -> {}

Advance ==
    /\ versions # <<>> /\ ~deleted /\ Len(versions) < MaxVersions
    /\ \E s \in NextStates(versions[Len(versions)]) : versions' = Append(versions, s)
    /\ UNCHANGED <<detection, pc, call, copy, ended, calls, object, listed, deleted, bugs>>

-----------------------------------------------------------------------------
Call(w) == Replicate(w) \/ GetReplications(w) \/ Update(w) \/ Delete(w)

Step(w) ==
    \/ Ask(w) \/ UseDetected(w) \/ Detect(w) \/ DetectFails(w) \/ List(w) \/ Post(w)
    \/ Get(w) \/ GetAgain(w) \/ GetFails(w) \/ SetTimes(w) \/ SetIdentity(w)
    \/ SetState(w) \/ SetReason(w) \/ Created(w) \/ Check(w) \/ Tasks(w) \/ Remove(w)

AllDone == (\A w \in Workers : pc[w] = "idle") /\ UNCHANGED vars

Next == (\E w \in Workers : Call(w) \/ Step(w)) \/ Schedule \/ Advance \/ AllDone

\* Goroutines keep running and requests end; the server gets on with its work.
Fairness == /\ \A w \in Workers : WF_vars(Step(w))
            /\ WF_vars(Schedule) /\ WF_vars(Advance)

Spec     == Init /\ [][Next]_vars
FairSpec == Spec /\ Fairness

-----------------------------------------------------------------------------
(* What the callers rely on.                                                *)

\* All callers see the same server, whatever it answers to a second HEAD: the
\* client never mixes the two kinds of replication.
SameAnswer ==
    \A v, w \in Workers : answer[v] # None /\ answer[w] # None => answer[v] = answer[w]

\* What is read under one RLock of mu is of one version of the document, though
\* Updates of several goroutines apply different ones.  Two getters one after the
\* other take it twice, and an Update may come in between.
ReadsOneVersion ==
    kind = "legacy" /\ mu = None =>
        /\ rep.err <=> rep.state = "error"
        /\ rep.state = "triggered" => versions[rep.startTime] = "triggered"
        /\ rep.state \in {"error", "completed"} => versions[rep.endTime] = rep.state

\* Every call returns: nobody keeps sdMU or mu, and Replicate does not wait for
\* the scheduler for ever.
CallsReturn == \A w \in Workers : pc[w] # "idle" ~> pc[w] = "idle"
=============================================================================
