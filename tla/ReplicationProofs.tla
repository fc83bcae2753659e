-------------------------- MODULE ReplicationProofs --------------------------
(***************************************************************************)
(* For any number of goroutines: all callers of schedulerSupported get the *)
(* same answer.  Its mutex makes the look at the cache and the request one *)
(* step, so that nobody asks a server again once somebody has an answer.   *)
(* And the getters of a legacy replication see one version of its          *)
(* document, because mu is held from the first field to the last.          *)
(***************************************************************************)
EXTENDS Replication, TLAPS

DetectionType ==
    /\ sdMU \in Workers \cup {None}
    /\ detected \in {None, "yes", "no"}
    /\ pc \in [Workers -> Places]
    /\ answer \in [Workers -> {None, "yes", "no"}]

\* Who asks the server holds the lock, and nothing is cached yet.
AskerAlone == \A w \in Workers : pc[w] = "head" => sdMU = w /\ detected = None

\* Every answer given is the cached one.
AnswersCached == \A w \in Workers : answer[w] # None => answer[w] = detected

DInv == DetectionType /\ AskerAlone /\ AnswersCached

\* A step that leaves detection alone and does not begin a request.
Quiet == /\ UNCHANGED detection
         /\ \/ UNCHANGED pc
            \/ \E w \in Workers, place \in Places \ {"head"} : Goto(w, place)

-----------------------------------------------------------------------------
(* The steps that matter, one by one.                                       *)

\* Nothing is cached and nobody asks at first.
LEMMA InitDInv == Init => DInv
  <1> SUFFICES ASSUME Init PROVE DInv
    OBVIOUS
  <1> QED
    BY NoneAssumption DEF Init, DInv, DetectionType, AskerAlone, AnswersCached, Places

\* Most steps of the client and all of the server are quiet.
LEMMA QuietStep == DInv /\ Quiet => DInv'
  <1> SUFFICES ASSUME DInv, Quiet PROVE DInv'
    OBVIOUS
  <1>1. pc' \in [Workers -> Places] /\ \A v \in Workers : pc'[v] = "head" => pc[v] = "head"
    BY DEF DInv, DetectionType, Quiet, Goto
  <1>2. UNCHANGED <<sdMU, detected, answer>>
    BY DEF Quiet, detection
  <1> QED
    BY <1>1, <1>2 DEF DInv, DetectionType, AskerAlone, AnswersCached

\* Ask: the lock was free, so nobody else is asking, and nothing is cached.
LEMMA AskStep == ASSUME DInv, NEW w \in Workers, Ask(w) PROVE DInv'
  <1>1. /\ sdMU = None /\ detected = None /\ sdMU' = w
        /\ UNCHANGED <<detected, answer>>
        /\ pc' = [pc EXCEPT ![w] = "head"]
    BY DEF Ask, Goto
  <1>2. "head" \in Places
    BY DEF Places
  <1>3. \A v \in Workers : pc[v] # "head"
    BY <1>1, NoneAssumption DEF DInv, AskerAlone
  <1> QED
    BY <1>1, <1>2, <1>3 DEF DInv, DetectionType, AskerAlone, AnswersCached

\* UseDetected: the answer is the cached one.
LEMMA UseDetectedStep == ASSUME DInv, NEW w \in Workers, UseDetected(w) PROVE DInv'
  <1>1. /\ UNCHANGED <<sdMU, detected>>
        /\ answer' = [answer EXCEPT ![w] = detected]
    BY DEF UseDetected
  <1>2. PICK place \in {"post", "list"} : pc' = [pc EXCEPT ![w] = place]
    BY DEF UseDetected, Goto, AfterDetection
  <1>3. /\ pc' \in [Workers -> Places]
        /\ \A v \in Workers : pc'[v] = "head" => pc[v] = "head"
    BY <1>2 DEF DInv, DetectionType, Places
  <1> QED
    BY <1>1, <1>3 DEF DInv, DetectionType, AskerAlone, AnswersCached

\* Detect: as nothing was cached, nobody has an answer that could differ.
LEMMA DetectStep == ASSUME DInv, NEW w \in Workers, Detect(w) PROVE DInv'
  <1>1. PICK d \in {"yes", "no"} : detected' = d
    BY DEF Detect
  <1>2. /\ pc[w] = "head" /\ sdMU' = None
        /\ answer' = [answer EXCEPT ![w] = d]
    BY <1>1 DEF Detect
  <1>3. PICK place \in {"post", "list"} : pc' = [pc EXCEPT ![w] = place]
    BY DEF Detect, Goto, AfterDetection
  <1>4. pc' \in [Workers -> Places]
    BY <1>3 DEF DInv, DetectionType, Places
  <1>5. \A v \in Workers : pc[v] = "head" => v = w
    BY <1>2 DEF DInv, AskerAlone
  <1>6. \A v \in Workers : pc'[v] # "head"
    BY <1>3, <1>5 DEF DInv, DetectionType
  <1>7. \A v \in Workers : answer[v] = None
    BY <1>2 DEF DInv, AskerAlone, AnswersCached
  <1>8. AnswersCached'
    BY <1>1, <1>2, <1>7 DEF DInv, DetectionType, AnswersCached
  <1>9. DetectionType'
    BY <1>1, <1>2, <1>4 DEF DInv, DetectionType
  <1> QED
    BY <1>6, <1>8, <1>9 DEF DInv, AskerAlone

\* DetectFails: the lock is free again, and nothing is cached still.
LEMMA DetectFailsStep == ASSUME DInv, NEW w \in Workers, DetectFails(w) PROVE DInv'
  <1>1. /\ pc[w] = "head" /\ sdMU' = None
        /\ UNCHANGED <<detected, answer>>
        /\ pc' = [pc EXCEPT ![w] = "idle"]
    BY DEF DetectFails, Fails, Ends, Goto
  <1>2. "idle" \in Places
    BY DEF Places
  <1>3. \A v \in Workers : pc[v] = "head" => v = w
    BY <1>1 DEF DInv, AskerAlone
  <1>4. \A v \in Workers : pc'[v] # "head"
    BY <1>1, <1>3 DEF DInv, DetectionType
  <1> QED
    BY <1>1, <1>2, <1>4 DEF DInv, DetectionType, AskerAlone, AnswersCached

-----------------------------------------------------------------------------
(* The others are quiet.                                                    *)

\* A call begins somewhere else.
LEMMA CallIsQuiet == ASSUME NEW w \in Workers, Call(w) PROVE Quiet
  <1>1. CASE Replicate(w)
    BY <1>1 DEF Replicate, Calling, Quiet, Places
  <1>2. CASE GetReplications(w)
    BY <1>2 DEF GetReplications, Calling, Quiet, Places
  <1>3. CASE Update(w)
    BY <1>3 DEF Update, Calling, Quiet, Places
  <1>4. CASE Delete(w)
    BY <1>4 DEF Delete, Quiet, Places
  <1> QED
    BY <1>1, <1>2, <1>3, <1>4 DEF Call

\* Behind detection nothing looks at it but Post.
LEMMA OtherStepsAreQuiet ==
    ASSUME NEW w \in Workers,
           \/ List(w) \/ Post(w) \/ Get(w) \/ GetAgain(w) \/ GetFails(w)
           \/ SetTimes(w) \/ SetIdentity(w) \/ SetState(w) \/ SetReason(w)
           \/ Created(w) \/ Check(w) \/ Tasks(w) \/ Remove(w)
    PROVE  Quiet
  <1> USE DEF Quiet, Ends, Fails, Places
  <1>1. CASE List(w)
    BY <1>1 DEF List
  <1>2. CASE Post(w)
    BY <1>2 DEF Post
  <1>3. CASE Get(w)
    BY <1>3 DEF Get
  <1>4. CASE GetAgain(w)
    BY <1>4 DEF GetAgain
  <1>5. CASE GetFails(w)
    BY <1>5 DEF GetFails
  <1>6. CASE SetTimes(w)
    BY <1>6 DEF SetTimes
  <1>7. CASE SetIdentity(w)
    BY <1>7 DEF SetIdentity
  <1>8. CASE SetState(w)
    BY <1>8 DEF SetState
  <1>9. CASE SetReason(w)
    BY <1>9 DEF SetReason
  <1>10. CASE Created(w)
    BY <1>10 DEF Created
  <1>11. CASE Check(w)
    BY <1>11 DEF Check
  <1>12. CASE Tasks(w)
    BY <1>12 DEF Tasks
  <1>13. CASE Remove(w)
    BY <1>13 DEF Remove
  <1> QED
    BY <1>1, <1>2, <1>3, <1>4, <1>5, <1>6, <1>7, <1>8, <1>9, <1>10, <1>11,
       <1>12, <1>13

\* The server knows nothing of the client's fields.
LEMMA ServerIsQuiet == Schedule \/ Advance \/ AllDone \/ UNCHANGED vars => Quiet
  <1>1. Schedule => Quiet
    BY DEF Schedule, Quiet
  <1>2. Advance => Quiet
    BY DEF Advance, Quiet
  <1>3. UNCHANGED vars => Quiet
    BY DEF vars, Quiet
  <1> QED
    BY <1>1, <1>2, <1>3 DEF AllDone

-----------------------------------------------------------------------------
\* DInv is inductive.
LEMMA NextDInv == DInv /\ [Next]_vars => DInv'
  <1> SUFFICES ASSUME DInv, [Next]_vars PROVE DInv'
    OBVIOUS
  <1>1. ASSUME NEW w \in Workers, Call(w) PROVE DInv'
    BY <1>1, CallIsQuiet, QuietStep
  <1>2. ASSUME NEW w \in Workers, Step(w) PROVE DInv'
    <2>1. CASE Ask(w)
      BY <2>1, AskStep
    <2>2. CASE UseDetected(w)
      BY <2>2, UseDetectedStep
    <2>3. CASE Detect(w)
      BY <2>3, DetectStep
    <2>4. CASE DetectFails(w)
      BY <2>4, DetectFailsStep
    <2>5. CASE \/ List(w) \/ Post(w) \/ Get(w) \/ GetAgain(w) \/ GetFails(w)
               \/ SetTimes(w) \/ SetIdentity(w) \/ SetState(w) \/ SetReason(w)
               \/ Created(w) \/ Check(w) \/ Tasks(w) \/ Remove(w)
      BY <2>5, OtherStepsAreQuiet, QuietStep
    <2> QED
      BY <1>2, <2>1, <2>2, <2>3, <2>4, <2>5 DEF Step
  <1>3. CASE Schedule \/ Advance \/ AllDone \/ UNCHANGED vars
    BY <1>3, ServerIsQuiet, QuietStep
  <1> QED
    BY <1>1, <1>2, <1>3 DEF Next

\* schedulerSupported gives all goroutines the same answer, whatever the server
\* would say to a second request: a client uses one kind of replication.
THEOREM OneAnswer == Spec => []SameAnswer
  <1>1. DInv => SameAnswer
    BY DEF DInv, AnswersCached, SameAnswer
  <1> QED
    BY <1>1, InitDInv, NextDInv, PTL DEF Spec

-----------------------------------------------------------------------------
(* Types.                                                                   *)

\* Before the document is posted nobody deals with it.
Unposted ==
    versions = <<>> =>
        /\ ~made /\ mu = None /\ rep.state = "notStarted" /\ ~rep.err
        /\ \A w \in Workers : pc[w] \in {"idle", "detect", "head", "post", "list"}

\* A version that was fetched is one there is.
Fetched ==
    \A w \in Workers : pc[w] \in {"apply", "state", "reason"} => copy[w] \in 1 .. Len(versions)

\* One goroutine is on its way to post, and nothing is posted yet.
Posting(w) == call[w] = "Replicate" /\ pc[w] \in {"detect", "head", "post"}

PostsAlone ==
    \A w \in Workers :
        /\ Posting(w) => versions = <<>> /\ \A v \in Workers : Posting(v) => v = w
        /\ pc[w] = "post" => call[w] = "Replicate"

TypeInv == TypeOK /\ Unposted /\ Fetched /\ PostsAlone

\* The types hold at first.
LEMMA InitTypeInv == Init => TypeInv
  <1> SUFFICES ASSUME Init PROVE TypeInv
    OBVIOUS
  <1>1. versions \in Seq(States) /\ Len(versions) = 0
    BY DEF Init
  <1>2. rep \in [state : States, startTime : Times, endTime : Times, err : BOOLEAN,
                 known : BOOLEAN]
    BY BoundsAssumption DEF Init, Times, States
  <1>3. /\ pc \in [Workers -> Places] /\ copy \in [Workers -> Times]
        /\ call \in [Workers -> Calls \cup {None}]
        /\ answer \in [Workers -> {None, "yes", "no"}]
        /\ result \in [Workers -> {"none", "ok", "error"}]
        /\ progress \in [Workers -> {0, 100}]
    BY BoundsAssumption DEF Init, Places, Times
  <1>4. /\ sdMU = None /\ detected = None /\ kind = None /\ mu = None
        /\ calls \in 0 .. MaxCalls /\ bugs \in 0 .. MaxBugs /\ Len(versions) <= MaxVersions
        /\ made = FALSE /\ listed = FALSE /\ deleted = FALSE
    BY <1>1, BoundsAssumption DEF Init
  <1>5. TypeOK
    BY <1>1, <1>2, <1>3, <1>4 DEF TypeOK
  <1> QED
    BY <1>1, <1>5 DEF Init, TypeInv, Unposted, Fetched, PostsAlone, Posting

\* There is a version to fetch once the document is posted.
LEMMA VersionsCounted ==
    ASSUME TypeInv
    PROVE  /\ Len(versions) \in Times
           /\ versions # <<>> => Len(versions) \in 1 .. MaxVersions
  BY BoundsAssumption DEF TypeInv, TypeOK, Times

\* What a worker has fetched and its state.
LEMMA CopyTyped ==
    ASSUME TypeInv, NEW w \in Workers, pc[w] \in {"apply", "state", "reason"}
    PROVE  /\ versions # <<>> /\ copy[w] \in 1 .. Len(versions)
           /\ copy[w] \in Times /\ State(w) \in States
  <1>1. versions \in Seq(States) /\ Len(versions) <= MaxVersions /\ Len(versions) \in Nat
    BY DEF TypeInv, TypeOK
  <1>2. versions # <<>> /\ copy[w] \in 1 .. Len(versions)
    BY DEF TypeInv, Unposted, Fetched
  <1>3. versions[copy[w]] \in States
    BY <1>1, <1>2
  <1> QED
    BY <1>1, <1>2, <1>3, BoundsAssumption DEF State, Times

\* The end of a call.
LEMMA EndsTyped ==
    ASSUME TypeOK, NEW w \in Workers,
           Ends(w, "ok", 0) \/ Ends(w, "ok", 100) \/ Fails(w)
    PROVE  /\ pc' = [pc EXCEPT ![w] = "idle"] /\ pc' \in [Workers -> Places]
           /\ result' \in [Workers -> {"none", "ok", "error"}]
           /\ progress' \in [Workers -> {0, 100}]
  <1>1. PICK r \in {"ok", "error"}, p \in {0, 100} : Ends(w, r, p)
    BY DEF Fails
  <1>2. pc' = [pc EXCEPT ![w] = "idle"] /\ pc' \in [Workers -> Places]
    BY <1>1 DEF TypeOK, Ends, Goto, Places
  <1>3. result' \in [Workers -> {"none", "ok", "error"}]
    BY <1>1 DEF TypeOK, Ends
  <1>4. progress' \in [Workers -> {0, 100}]
    BY <1>1 DEF TypeOK, Ends
  <1> QED BY <1>2, <1>3, <1>4

\* The document and the object for it.
LEMMA PostTyped ==
    ASSUME TypeOK, NEW w \in Workers, Post(w)
    PROVE  /\ versions' = versions \/ (versions' # <<>> /\ Len(versions') = 1)
           /\ versions' \in Seq(States) /\ Len(versions') <= MaxVersions
           /\ kind' \in {None, "legacy", "scheduler"}
           /\ pc[w] = "post"
           /\ \/ /\ pc' = [pc EXCEPT ![w] = "get"] /\ UNCHANGED <<made, ended>>
                 /\ versions' # <<>>
              \/ Fails(w) /\ UNCHANGED <<made, kind>>
           /\ UNCHANGED <<detection, call, copy, calls, mu, rep, listed, deleted, bugs>>
  <1>1. <<"notStarted">> \in Seq(States) /\ Len(<<"notStarted">>) = 1 /\ <<"notStarted">> # <<>>
    BY DEF States
  <1>2. /\ UNCHANGED <<detection, call, copy, calls, mu, rep, listed, deleted, bugs>>
        /\ pc[w] = "post" /\ Len(versions) <= MaxVersions /\ versions \in Seq(States)
        /\ kind \in {None, "legacy", "scheduler"}
    BY DEF Post, TypeOK
  <1>3. CASE /\ versions' = <<"notStarted">>
             /\ kind' = IF answer[w] = "yes" THEN "scheduler" ELSE "legacy"
             /\ Goto(w, "get") /\ UNCHANGED <<made, ended>>
    BY <1>1, <1>2, <1>3, BoundsAssumption DEF Goto
  <1>4. CASE Fails(w) /\ versions' \in {versions, <<"notStarted">>} /\ UNCHANGED <<made, kind>>
    <2>1. CASE versions' = versions
      BY <1>2, <1>4, <2>1
    <2>2. CASE versions' = <<"notStarted">>
      BY <1>1, <1>2, <1>4, <2>2, BoundsAssumption
    <2> QED BY <1>4, <2>1, <2>2
  <1> QED
    BY <1>3, <1>4 DEF Post

\* A worker's step keeps the types.
LEMMA WorkerTyped ==
    ASSUME TypeInv, NEW w \in Workers, Call(w) \/ Step(w) PROVE TypeOK'
  <1> USE BoundsAssumption DEF TypeInv, TypeOK, Places, Calls, Goto,
          detection, object, server, ended
  <1>1. CASE Replicate(w)
    BY <1>1 DEF Replicate, Calling
  <1>2. CASE GetReplications(w)
    BY <1>2 DEF GetReplications, Calling
  <1>3. CASE Update(w)
    BY <1>3 DEF Update, Calling
  <1>4. CASE Delete(w)
    BY <1>4, VersionsCounted DEF Delete
  <1>5. CASE Ask(w)
    BY <1>5 DEF Ask
  <1>6. CASE UseDetected(w)
    BY <1>6 DEF UseDetected, AfterDetection
  <1>7. CASE Detect(w)
    BY <1>7 DEF Detect, AfterDetection
  <1>8. CASE DetectFails(w)
    BY <1>8, EndsTyped DEF DetectFails
  <1>9. CASE List(w)
    BY <1>9, EndsTyped DEF List
  <1>10. CASE Post(w)
    <2>1. made' = made
      BY <1>10, PostTyped
    <2>2. CASE pc' = [pc EXCEPT ![w] = "get"] /\ UNCHANGED ended
      BY <1>10, <2>1, <2>2, PostTyped
    <2>3. CASE Fails(w)
      BY <1>10, <2>1, <2>3, PostTyped, EndsTyped
    <2> QED BY <1>10, <2>2, <2>3, PostTyped
  <1>11. CASE Get(w)
    BY <1>11, VersionsCounted DEF Get
  <1>12. CASE GetAgain(w)
    BY <1>12 DEF GetAgain
  <1>13. CASE GetFails(w)
    <2>1. made' \in BOOLEAN
      BY <1>13 DEF GetFails
    <2>2. Ends(w, "ok", 0) \/ Fails(w)
      BY <1>13 DEF GetFails
    <2> QED BY <1>13, <2>1, <2>2, EndsTyped DEF GetFails
  <1>14. CASE SetTimes(w)
    <2>1. rep' \in [state : States, startTime : Times, endTime : Times, err : BOOLEAN,
                    known : BOOLEAN]
      BY <1>14, CopyTyped DEF SetTimes
    <2>2. pc' \in [Workers -> Places]
      BY <1>14 DEF SetTimes
    <2> QED BY <1>14, <2>1, <2>2 DEF SetTimes
  <1>15. CASE SetIdentity(w)
    <2>1. pc' \in [Workers -> Places]
      BY <1>15 DEF SetIdentity
    <2>2. rep' \in [state : States, startTime : Times, endTime : Times, err : BOOLEAN,
                    known : BOOLEAN]
      <3>1. copy[w] \in Times
        BY <1>15, CopyTyped DEF SetIdentity
      <3>2. PICK source \in BOOLEAN :
              rep' = IF rep.known THEN rep
                     ELSE [rep EXCEPT !.startTime = copy[w], !.known = source]
        BY <1>15 DEF SetIdentity
      <3> QED BY <3>1, <3>2
    <2> QED BY <1>15, <2>1, <2>2 DEF SetIdentity
  <1>16. CASE SetState(w)
    <2>1. rep' \in [state : States, startTime : Times, endTime : Times, err : BOOLEAN,
                    known : BOOLEAN]
      BY <1>16, CopyTyped DEF SetState
    <2>2. pc' \in [Workers -> Places]
      BY <1>16 DEF SetState
    <2> QED BY <1>16, <2>1, <2>2 DEF SetState
  <1>17. CASE SetReason(w)
    <2>1. rep' \in [state : States, startTime : Times, endTime : Times, err : BOOLEAN,
                    known : BOOLEAN]
      BY <1>17, CopyTyped DEF SetReason
    <2>2. pc' \in [Workers -> Places]
      BY <1>17 DEF SetReason
    <2> QED BY <1>17, <2>1, <2>2 DEF SetReason
  <1>18. CASE Created(w)
    <2>1. CASE Goto(w, "get") /\ UNCHANGED <<ended, made>>
      BY <1>18, <2>1 DEF Created
    <2>2. CASE Ends(w, "ok", 0) /\ made' = TRUE
      BY <1>18, <2>2, EndsTyped DEF Created
    <2> QED BY <1>18, <2>1, <2>2 DEF Created
  <1>19. CASE Check(w)
    BY <1>19, EndsTyped DEF Check
  <1>20. CASE Tasks(w)
    BY <1>20, EndsTyped DEF Tasks
  <1>21. CASE Remove(w)
    <2>1. deleted' \in BOOLEAN
      BY <1>21 DEF Remove
    <2>2. Ends(w, "ok", 0) \/ Fails(w)
      BY <1>21 DEF Remove
    <2> QED BY <1>21, <2>1, <2>2, EndsTyped DEF Remove
  <1> QED
    BY <1>1, <1>2, <1>3, <1>4, <1>5, <1>6, <1>7, <1>8, <1>9, <1>10, <1>11,
       <1>12, <1>13, <1>14, <1>15, <1>16, <1>17, <1>18, <1>19, <1>20, <1>21
    DEF Call, Step

\* It deals with the document when there is one.
LEMMA WorkerUnposted ==
    ASSUME TypeInv, NEW w \in Workers, Call(w) \/ Step(w) PROVE Unposted'
  <1> USE DEF TypeInv, TypeOK, Unposted, Goto, detection, object, server, ended
  <1>1. CASE Replicate(w)
    BY <1>1 DEF Replicate, Calling
  <1>2. CASE GetReplications(w)
    BY <1>2 DEF GetReplications, Calling
  <1>3. CASE Update(w)
    BY <1>3 DEF Update, Calling
  <1>4. CASE Delete(w)
    BY <1>4, VersionsCounted DEF Delete
  <1>5. CASE Ask(w)
    BY <1>5 DEF Ask
  <1>6. CASE UseDetected(w)
    BY <1>6 DEF UseDetected, AfterDetection
  <1>7. CASE Detect(w)
    BY <1>7 DEF Detect, AfterDetection
  <1>8. CASE DetectFails(w)
    BY <1>8, EndsTyped DEF DetectFails
  <1>9. CASE List(w)
    BY <1>9, EndsTyped DEF List
  <1>10. CASE Post(w)
    BY <1>10, PostTyped, EndsTyped DEF TypeOK
  <1>11. CASE Get(w)
    BY <1>11, VersionsCounted DEF Get
  <1>12. CASE GetAgain(w)
    BY <1>12 DEF GetAgain
  <1>13. CASE GetFails(w)
    BY <1>13, EndsTyped DEF GetFails
  <1>14. CASE SetTimes(w)
    BY <1>14, CopyTyped DEF SetTimes
  <1>15. CASE SetIdentity(w)
    BY <1>15, CopyTyped DEF SetIdentity
  <1>16. CASE SetState(w)
    BY <1>16, CopyTyped DEF SetState
  <1>17. CASE SetReason(w)
    BY <1>17, CopyTyped DEF SetReason
  <1>18. CASE Created(w)
    BY <1>18, EndsTyped DEF Created
  <1>19. CASE Check(w)
    BY <1>19, EndsTyped DEF Check
  <1>20. CASE Tasks(w)
    BY <1>20, EndsTyped DEF Tasks
  <1>21. CASE Remove(w)
    BY <1>21, EndsTyped DEF Remove
  <1> QED
    BY <1>1, <1>2, <1>3, <1>4, <1>5, <1>6, <1>7, <1>8, <1>9, <1>10, <1>11,
       <1>12, <1>13, <1>14, <1>15, <1>16, <1>17, <1>18, <1>19, <1>20, <1>21
    DEF Call, Step

\* It has a version when it fetched one.
LEMMA WorkerFetched ==
    ASSUME TypeInv, NEW w \in Workers, Call(w) \/ Step(w) PROVE Fetched'
  <1> USE DEF TypeInv, TypeOK, Unposted, Fetched, Goto, detection, object, server, ended
  <1>1. CASE Replicate(w)
    BY <1>1 DEF Replicate, Calling
  <1>2. CASE GetReplications(w)
    BY <1>2 DEF GetReplications, Calling
  <1>3. CASE Update(w)
    BY <1>3 DEF Update, Calling
  <1>4. CASE Delete(w)
    BY <1>4, VersionsCounted DEF Delete
  <1>5. CASE Ask(w)
    BY <1>5 DEF Ask
  <1>6. CASE UseDetected(w)
    BY <1>6 DEF UseDetected, AfterDetection
  <1>7. CASE Detect(w)
    BY <1>7 DEF Detect, AfterDetection
  <1>8. CASE DetectFails(w)
    BY <1>8, EndsTyped DEF DetectFails
  <1>9. CASE List(w)
    BY <1>9, EndsTyped DEF List
  <1>10. CASE Post(w)
    <2>1. copy' = copy /\ pc[w] = "post"
      BY <1>10, PostTyped
    <2>2. \A v \in Workers : pc'[v] = pc[v] \/ pc'[v] \in {"get", "idle"}
      BY <1>10, PostTyped, EndsTyped DEF TypeOK
    <2>3. CASE versions' = versions
      BY <2>1, <2>2, <2>3
    <2>4. CASE versions' # versions
      <3>1. versions' # <<>>
        BY <1>10, <2>4, PostTyped
      <3>2. \A v \in Workers : pc[v] \in {"idle", "detect", "head", "post", "list"}
        BY <2>1 DEF PostsAlone, Posting
      <3> QED BY <2>2, <3>2
    <2> QED BY <2>3, <2>4
  <1>11. CASE Get(w)
    BY <1>11, VersionsCounted DEF Get
  <1>12. CASE GetAgain(w)
    BY <1>12 DEF GetAgain
  <1>13. CASE GetFails(w)
    BY <1>13, EndsTyped DEF GetFails
  <1>14. CASE SetTimes(w)
    BY <1>14, CopyTyped DEF SetTimes
  <1>15. CASE SetIdentity(w)
    BY <1>15, CopyTyped DEF SetIdentity
  <1>16. CASE SetState(w)
    BY <1>16, CopyTyped DEF SetState
  <1>17. CASE SetReason(w)
    BY <1>17, CopyTyped DEF SetReason
  <1>18. CASE Created(w)
    BY <1>18, EndsTyped DEF Created
  <1>19. CASE Check(w)
    BY <1>19, EndsTyped DEF Check
  <1>20. CASE Tasks(w)
    BY <1>20, EndsTyped DEF Tasks
  <1>21. CASE Remove(w)
    BY <1>21, EndsTyped DEF Remove
  <1> QED
    BY <1>1, <1>2, <1>3, <1>4, <1>5, <1>6, <1>7, <1>8, <1>9, <1>10, <1>11,
       <1>12, <1>13, <1>14, <1>15, <1>16, <1>17, <1>18, <1>19, <1>20, <1>21
    DEF Call, Step

\* Nobody else goes to post.
LEMMA WorkerPostsAlone ==
    ASSUME TypeInv, NEW w \in Workers, Call(w) \/ Step(w) PROVE PostsAlone'
  <1> USE DEF TypeInv, TypeOK, PostsAlone, Posting, Goto, detection, object, server, ended
  <1>1. CASE Replicate(w)
    <2>1. versions = <<>> /\ versions' = versions
      BY <1>1 DEF Replicate, Calling
    <2>2. \A v \in Workers : ~Posting(v)
      BY <1>1 DEF Replicate
    <2>3. \A v \in Workers \ {w} : call'[v] = call[v] /\ pc'[v] = pc[v]
      BY <1>1 DEF Replicate, Calling
    <2>4. pc'[w] = "detect" /\ call'[w] = "Replicate"
      BY <1>1 DEF Replicate, Calling, Calls
    <2> QED BY <2>1, <2>2, <2>3, <2>4
  <1>2. CASE GetReplications(w)
    BY <1>2 DEF GetReplications, Calling
  <1>3. CASE Update(w)
    BY <1>3 DEF Update, Calling
  <1>4. CASE Delete(w)
    BY <1>4, VersionsCounted DEF Delete
  <1>5. CASE Ask(w)
    BY <1>5 DEF Ask
  <1>6. CASE UseDetected(w)
    BY <1>6 DEF UseDetected, AfterDetection
  <1>7. CASE Detect(w)
    BY <1>7 DEF Detect, AfterDetection
  <1>8. CASE DetectFails(w)
    BY <1>8, EndsTyped DEF DetectFails
  <1>9. CASE List(w)
    BY <1>9, EndsTyped DEF List
  <1>10. CASE Post(w)
    <2>1. call' = call /\ pc[w] = "post"
      BY <1>10, PostTyped
    <2>2. pc'[w] \in {"get", "idle"} /\ \A v \in Workers \ {w} : pc'[v] = pc[v]
      BY <1>10, PostTyped, EndsTyped DEF TypeOK
    <2>3. \A v \in Workers \ {w} : ~Posting(v)
      BY <2>1
    <2> QED BY <2>1, <2>2, <2>3
  <1>11. CASE Get(w)
    BY <1>11, VersionsCounted DEF Get
  <1>12. CASE GetAgain(w)
    BY <1>12 DEF GetAgain
  <1>13. CASE GetFails(w)
    BY <1>13, EndsTyped DEF GetFails
  <1>14. CASE SetTimes(w)
    BY <1>14, CopyTyped DEF SetTimes
  <1>15. CASE SetIdentity(w)
    BY <1>15, CopyTyped DEF SetIdentity
  <1>16. CASE SetState(w)
    BY <1>16, CopyTyped DEF SetState
  <1>17. CASE SetReason(w)
    BY <1>17, CopyTyped DEF SetReason
  <1>18. CASE Created(w)
    BY <1>18, EndsTyped DEF Created
  <1>19. CASE Check(w)
    BY <1>19, EndsTyped DEF Check
  <1>20. CASE Tasks(w)
    BY <1>20, EndsTyped DEF Tasks
  <1>21. CASE Remove(w)
    BY <1>21, EndsTyped DEF Remove
  <1> QED
    BY <1>1, <1>2, <1>3, <1>4, <1>5, <1>6, <1>7, <1>8, <1>9, <1>10, <1>11,
       <1>12, <1>13, <1>14, <1>15, <1>16, <1>17, <1>18, <1>19, <1>20, <1>21
    DEF Call, Step

\* The server's steps.
LEMMA ServerTyped ==
    ASSUME TypeInv, Schedule \/ Advance \/ AllDone \/ UNCHANGED vars PROVE TypeInv'
  <1> USE DEF TypeInv, TypeOK, Unposted, Fetched, PostsAlone, Posting, detection, ended, object
  <1>1. CASE Schedule
    BY <1>1 DEF Schedule
  <1>2. CASE Advance
    <2>1. PICK s \in NextStates(versions[Len(versions)]) : versions' = Append(versions, s)
      BY <1>2 DEF Advance
    <2>2. s \in States
      BY DEF NextStates, States
    <2>3. versions \in Seq(States) /\ Len(versions) < MaxVersions /\ MaxVersions \in Nat
      BY <1>2, BoundsAssumption DEF Advance
    <2>4. /\ versions' \in Seq(States) /\ Len(versions') = Len(versions) + 1
          /\ versions' # <<>> /\ Len(versions') <= MaxVersions
      BY <2>1, <2>2, <2>3
    <2>5. TypeOK'
      BY <1>2, <2>4 DEF Advance
    <2>6. Unposted' /\ Fetched' /\ PostsAlone'
      BY <1>2, <2>3, <2>4 DEF Advance
    <2> QED BY <2>5, <2>6
  <1>3. CASE UNCHANGED vars
    BY <1>3 DEF vars, server
  <1> QED BY <1>1, <1>2, <1>3 DEF AllDone

\* TypeInv is inductive.
LEMMA NextTypeInv == TypeInv /\ [Next]_vars => TypeInv'
  <1> SUFFICES ASSUME TypeInv, [Next]_vars PROVE TypeInv'
    OBVIOUS
  <1>1. ASSUME NEW w \in Workers, Call(w) \/ Step(w) PROVE TypeInv'
    BY <1>1, WorkerTyped, WorkerUnposted, WorkerFetched, WorkerPostsAlone
       DEF TypeInv
  <1>2. CASE Schedule \/ Advance \/ AllDone \/ UNCHANGED vars
    BY <1>2, ServerTyped
  <1> QED
    BY <1>1, <1>2 DEF Next

\* The types, for any number of goroutines, calls and versions.
THEOREM TypeCorrect == Spec => []TypeOK
  <1> QED
    BY InitTypeInv, NextTypeInv, PTL DEF Spec, TypeInv

-----------------------------------------------------------------------------
(* One version.                                                             *)

\* Who holds mu of a legacy replication is between SetTimes and SetReason.
Holder == \A w \in Workers : pc[w] \in {"state", "reason"} <=> mu = w

\* The time that SetTimes has taken from the version w fetched.
Timed(w) ==
    /\ State(w) = "triggered" => rep.startTime = copy[w]
    /\ State(w) \in {"error", "completed"} => rep.endTime = copy[w]

\* The fields while mu is held, and when it is not.
Midway ==
    \A w \in Workers :
        /\ pc[w] \in {"state", "reason"} => Timed(w)
        /\ pc[w] = "reason" => rep.state = State(w)

Settled ==
    mu = None =>
        /\ rep.err <=> rep.state = "error"
        /\ rep.state = "triggered" =>
               rep.startTime \in 1 .. Len(versions) /\ versions[rep.startTime] = "triggered"
        /\ rep.state \in {"error", "completed"} =>
               rep.endTime \in 1 .. Len(versions) /\ versions[rep.endTime] = rep.state

VInv == kind = "legacy" => Holder /\ Midway /\ Settled

\* A step beside the fields, that neither takes mu nor lets it go.
Aside(w) ==
    /\ UNCHANGED <<kind, mu, rep, versions>>
    /\ pc[w] \notin {"state", "reason"} /\ pc'[w] \notin {"state", "reason"}
    /\ \A v \in Workers \ {w} : pc'[v] = pc[v] /\ copy'[v] = copy[v]

\* It leaves everything as it was.
LEMMA AsideStep == ASSUME VInv, NEW w \in Workers, Aside(w) PROVE VInv'
  <1> SUFFICES ASSUME kind = "legacy" PROVE Holder' /\ Midway' /\ Settled'
    BY DEF VInv, Aside
  <1> USE DEF VInv, Aside
  <1>1. Holder'
    BY DEF Holder
  <1>2. Midway'
    <2>1. \A v \in Workers \ {w} : (Timed(v) <=> Timed(v)') /\ State(v)' = State(v)
      BY DEF Timed, State
    <2> QED BY <2>1 DEF Midway
  <1>3. Settled'
    BY DEF Settled
  <1> QED BY <1>1, <1>2, <1>3

\* Most steps of a worker are beside the fields.
LEMMA WorkersAside ==
    ASSUME TypeInv, NEW w \in Workers,
           \/ Replicate(w) \/ GetReplications(w) \/ Update(w) \/ Delete(w)
           \/ Ask(w) \/ UseDetected(w) \/ Detect(w) \/ DetectFails(w) \/ List(w)
           \/ Get(w) \/ GetFails(w) \/ Created(w) \/ Check(w)
           \/ Tasks(w) \/ Remove(w)
    PROVE  Aside(w)
  <1> USE DEF TypeInv, TypeOK, Aside, Goto, object, server
  <1>1. CASE Replicate(w)
    BY <1>1 DEF Replicate, Calling
  <1>2. CASE GetReplications(w)
    BY <1>2 DEF GetReplications, Calling
  <1>3. CASE Update(w)
    BY <1>3 DEF Update, Calling
  <1>4. CASE Delete(w)
    BY <1>4 DEF Delete
  <1>5. CASE Ask(w)
    BY <1>5 DEF Ask
  <1>6. CASE UseDetected(w)
    BY <1>6 DEF UseDetected, AfterDetection
  <1>7. CASE Detect(w)
    BY <1>7 DEF Detect, AfterDetection
  <1>8. CASE DetectFails(w)
    BY <1>8, EndsTyped DEF DetectFails
  <1>9. CASE List(w)
    BY <1>9, EndsTyped DEF List
  <1>10. CASE Get(w)
    BY <1>10 DEF Get
  <1>11. CASE GetFails(w)
    BY <1>11, EndsTyped DEF GetFails
  <1>12. CASE Created(w)
    BY <1>12, EndsTyped DEF Created
  <1>13. CASE Check(w)
    BY <1>13, EndsTyped DEF Check
  <1>14. CASE Tasks(w)
    BY <1>14, EndsTyped DEF Tasks
  <1>15. CASE Remove(w)
    BY <1>15, EndsTyped DEF Remove
  <1> QED
    BY <1>1, <1>2, <1>3, <1>4, <1>5, <1>6, <1>7, <1>8, <1>9, <1>10, <1>11,
       <1>12, <1>13, <1>14, <1>15

\* The document is posted: the object is new.
LEMMA PostOne == ASSUME TypeInv, VInv, NEW w \in Workers, Post(w) PROVE VInv'
  <1>1. /\ UNCHANGED <<copy, mu, rep>> /\ pc[w] = "post" /\ versions = <<>>
    BY PostTyped DEF TypeInv, PostsAlone, Posting
  <1>2. /\ \A v \in Workers : pc[v] \in {"idle", "detect", "head", "post", "list"}
        /\ mu = None /\ rep.state = "notStarted" /\ ~rep.err
    BY <1>1 DEF TypeInv, Unposted
  <1>3. \E place \in {"get", "idle"} : pc' = [pc EXCEPT ![w] = place]
    BY PostTyped, EndsTyped DEF TypeInv
  <1>4. \A v \in Workers : pc'[v] \notin {"state", "reason"}
    BY <1>2, <1>3 DEF TypeInv, TypeOK
  <1> QED
    BY <1>1, <1>2, <1>4, NoneAssumption DEF VInv, Holder, Midway, Settled

\* The times, with mu taken.
LEMMA SetTimesOne == ASSUME TypeInv, VInv, NEW w \in Workers, SetTimes(w) PROVE VInv'
  <1>1. /\ kind = "legacy" /\ mu = None /\ mu' = w /\ UNCHANGED <<kind, copy, versions>>
        /\ pc' = [pc EXCEPT ![w] = "state"] /\ State(w)' = State(w)
    BY DEF SetTimes, Goto, server, State
  <1>2. \A v \in Workers : pc[v] \notin {"state", "reason"}
    BY <1>1, NoneAssumption DEF VInv, Holder
  <1>3. \A v \in Workers : pc'[v] \in {"state", "reason"} <=> v = w
    BY <1>1, <1>2 DEF TypeInv, TypeOK
  <1>4. Timed(w)'
    BY <1>1 DEF SetTimes, TypeInv, TypeOK, Timed
  <1>5. pc'[w] = "state" /\ mu' # None
    BY <1>1, NoneAssumption DEF TypeInv, TypeOK
  <1> QED
    BY <1>1, <1>3, <1>4, <1>5 DEF VInv, Holder, Midway, Settled

\* The state, by the holder of mu.
LEMMA SetStateOne == ASSUME TypeInv, VInv, NEW w \in Workers, SetState(w) PROVE VInv'
  <1> SUFFICES ASSUME kind = "legacy" PROVE Holder' /\ Midway' /\ Settled'
    BY DEF VInv, SetState
  <1>1. /\ UNCHANGED <<mu, copy, versions>> /\ pc[w] = "state" /\ State(w)' = State(w)
        /\ pc' = [pc EXCEPT ![w] = "reason"] /\ rep' = [rep EXCEPT !.state = State(w)]
    BY DEF SetState, Goto, server, State, TypeInv, TypeOK
  <1>2. mu = w /\ \A v \in Workers : pc[v] \in {"state", "reason"} <=> v = w
    BY <1>1 DEF VInv, Holder
  <1>3. \A v \in Workers : pc'[v] \in {"state", "reason"} <=> v = w
    BY <1>1, <1>2 DEF TypeInv, TypeOK
  <1>4. Timed(w)' /\ rep'.state = State(w)'
    BY <1>1 DEF VInv, Midway, Timed, TypeInv, TypeOK
  <1> QED
    BY <1>1, <1>2, <1>3, <1>4, NoneAssumption DEF Holder, Midway, Settled

\* The error, and mu is let go: the fields are those of the version.
LEMMA SetReasonOne == ASSUME TypeInv, VInv, NEW w \in Workers, SetReason(w) PROVE VInv'
  <1> SUFFICES ASSUME kind = "legacy" PROVE Holder' /\ Midway' /\ Settled'
    BY DEF VInv, SetReason
  <1>1. /\ mu' = None /\ UNCHANGED <<copy, versions>> /\ pc[w] = "reason"
        /\ pc' = [pc EXCEPT ![w] = "check"]
        /\ rep'.err <=> State(w) = "error"
        /\ rep'.state = rep.state /\ rep'.startTime = rep.startTime /\ rep'.endTime = rep.endTime
    BY DEF SetReason, Goto, server, TypeInv, TypeOK
  <1>2. \A v \in Workers : pc[v] \in {"state", "reason"} <=> v = w
    BY <1>1 DEF VInv, Holder
  <1>3. \A v \in Workers : pc'[v] \notin {"state", "reason"}
    BY <1>1, <1>2 DEF TypeInv, TypeOK
  <1>4. Timed(w) /\ rep.state = State(w) /\ copy[w] \in 1 .. Len(versions)
    BY <1>1, CopyTyped DEF VInv, Midway
  <1>5. Settled'
    BY <1>1, <1>4 DEF Settled, Timed, State
  <1> QED
    BY <1>1, <1>3, <1>5, NoneAssumption DEF Holder, Midway

\* A version more leaves those there are.
LEMMA AdvanceOne == ASSUME TypeInv, VInv, Advance PROVE VInv'
  <1> SUFFICES ASSUME kind = "legacy" PROVE Holder' /\ Midway' /\ Settled'
    BY DEF VInv, Advance, object
  <1>1. UNCHANGED <<pc, copy, mu, rep>>
    BY DEF Advance, object
  <1>2. PICK s : versions' = Append(versions, s)
    BY DEF Advance
  <1>3. /\ Len(versions) \in Nat /\ Len(versions') = Len(versions) + 1
        /\ \A i \in 1 .. Len(versions) : versions'[i] = versions[i]
    BY <1>2 DEF TypeInv, TypeOK
  <1>4. \A w \in Workers : pc[w] \in {"state", "reason"} =>
            State(w)' = State(w) /\ (Timed(w)' <=> Timed(w))
    BY <1>1, <1>3 DEF TypeInv, Fetched, State, Timed
  <1>5. Holder' /\ Midway'
    BY <1>1, <1>4 DEF VInv, Holder, Midway
  <1>6. Settled'
    BY <1>1, <1>3 DEF VInv, Settled
  <1> QED BY <1>5, <1>6

\* VInv is inductive.
LEMMA NextVInv == TypeInv /\ VInv /\ [Next]_vars => VInv'
  <1> SUFFICES ASSUME TypeInv, VInv, [Next]_vars PROVE VInv'
    OBVIOUS
  <1>1. ASSUME NEW w \in Workers, Call(w) PROVE VInv'
    BY <1>1, WorkersAside, AsideStep DEF Call
  <1>2. ASSUME NEW w \in Workers, Step(w) PROVE VInv'
    <2>1. CASE Post(w)
      BY <2>1, PostOne
    <2>2. CASE SetTimes(w)
      BY <2>2, SetTimesOne
    <2>3. CASE SetIdentity(w)
      BY <2>3 DEF SetIdentity, VInv
    <2>4. CASE SetState(w)
      BY <2>4, SetStateOne
    <2>5. CASE SetReason(w)
      BY <2>5, SetReasonOne
    <2>6. CASE GetAgain(w)
      BY <2>6 DEF GetAgain, object, VInv, Holder, Midway, Settled, Timed, State
    <2> QED
      BY <1>2, <2>1, <2>2, <2>3, <2>4, <2>5, <2>6, WorkersAside, AsideStep DEF Step
  <1>3. CASE Schedule \/ UNCHANGED vars
    BY <1>3 DEF Schedule, vars, server, object, VInv, Holder, Midway, Settled, Timed, State
  <1>4. CASE Advance
    BY <1>4, AdvanceOne
  <1> QED
    BY <1>1, <1>2, <1>3, <1>4 DEF Next, AllDone

\* However many goroutines update a legacy replication, and with whatever versions:
\* while nobody holds mu its fields are those of one version.
THEOREM OneVersionRead == Spec => []ReadsOneVersion
  <1>1. Init => VInv
    BY NoneAssumption DEF Init, VInv, Holder, Midway, Settled
  <1>2. VInv => ReadsOneVersion
    BY DEF VInv, Settled, ReadsOneVersion
  <1> QED
    BY <1>1, <1>2, InitTypeInv, NextTypeInv, NextVInv, PTL DEF Spec
=============================================================================
