--------------------------- MODULE DocumentsProofs ---------------------------
(***************************************************************************)
(* Theorems about Documents, for any attachments, members and responses:   *)
(* who has the body of a response, in what turn the goroutines of a Put    *)
(* use the attachments, what a Put stores and what a Get brings back.      *)
(***************************************************************************)
EXTENDS Documents, MultipartPutProofs, TLAPS

-----------------------------------------------------------------------------
(* The body of a response.                                                  *)

\* While the driver or the caller has a response, nobody has closed its body.
BodyInv ==
    /\ get \in {"status", "type", "rev", "related", "decode", "held"} => body = "open"
    /\ get \in {"idle", "wait"} => body = "none"
    /\ get = "done" /\ body = "open" => outcome = "unusable"

\* Every step of a Get, and those of a Put, which leave the response alone.
LEMMA BodyStep == BodyInv /\ [Next]_vars => BodyInv'
  <1> SUFFICES ASSUME BodyInv, [Next]_vars PROVE BodyInv'
    OBVIOUS
  <1> USE DEF BodyInv
  <1>1. CASE UNCHANGED getVars
    BY <1>1 DEF getVars
  <1>2. CASE GetNext
    <2>1. CASE \E o \in Ops : Call(o)
      BY <2>1 DEF Call
    <2>2. CASE \E header \in Headers : Serve(header)
      BY <2>2 DEF Serve
    <2>3. CASE NoAnswer
      BY <2>3 DEF NoAnswer
    <2>4. CASE StatusError \/ TypeUnusable \/ RevUnknown \/ RelatedBroken \/ DecodeFails
      BY <2>4 DEF StatusError, TypeUnusable, RevUnknown, RelatedBroken, DecodeFails, Fail, End
    <2>5. CASE StatusOK \/ TypeKnown \/ Decode
      BY <2>5 DEF StatusOK, TypeKnown, Decode, Proceed
    <2>6. CASE RevFromETag \/ RevFromBody
      BY <2>6 DEF RevFromETag, RevFromBody
    <2>7. CASE Related
      BY <2>7 DEF Related
    <2>8. CASE ReadBody \/ NextPartFails \/ NextPartEnds \/ CloseEarly
      BY <2>8 DEF ReadBody, NextPartFails, NextPartEnds, CloseEarly, Fail, End
    <2>9. CASE NextPart
      BY <2>9 DEF NextPart
    <2> QED
      BY <1>2, <2>1, <2>2, <2>3, <2>4, <2>5, <2>6, <2>7, <2>8, <2>9 DEF GetNext
  <1> QED
    BY <1>1, <1>2 DEF Next, Putting, Getting, vars

\* For any responses: the body is open while the caller reads it, and closed when the
\* operation is over, unless the driver could not use a good answer.
THEOREM BodyHasOneOwner == Spec => []BodyOwned
  <1>1. Init => BodyInv
    BY DEF Init, GetInit, BodyInv
  <1>2. BodyInv => BodyOwned
    BY DEF BodyInv, BodyOwned
  <1> QED
    BY <1>1, <1>2, BodyStep, PTL DEF Spec

-----------------------------------------------------------------------------
(* The goroutines of a Put.                                                 *)

\* The stubber measures between OpenDoc and its own next steps, which come before
\* attJSON ends; createMultipart waits for that, and Put for createMultipart.
TurnInv ==
    /\ stubber = "measure" => put = "build" /\ multi = "doc" /\ attEnd = None
    /\ multi = "open" /\ put = "build" => stubber = "off" /\ attEnd = None

\* Every step of a Put.
LEMMA TurnStep == TurnInv /\ [Next]_vars => TurnInv'
  <1> SUFFICES ASSUME TurnInv, [Next]_vars PROVE TurnInv'
    OBVIOUS
  <1> USE DEF TurnInv
  <1>1. CASE UNCHANGED putVars
    BY <1>1 DEF putVars, callVars, stubVars, copyVars, fileVars
  <1>2. CASE PutNext
    <2>1. CASE Extract
      BY <2>1 DEF Extract
    <2>2. CASE NoTempFile \/ Built \/ FileReady \/ Request
      BY <2>2 DEF NoTempFile, Built, FileReady, Request, LengthDiffers, StoreDoc, NotStored,
                  Become, stubVars, copyVars, fileVars
    <2>3. CASE Stubber
      <3>1. CASE \E n \in Names : Measure(n) \/ MeasureFails(n)
        BY <2>3, <3>1 DEF Stubber, callVars, Measure, MeasureFails, fileVars
      <3>2. CASE AllMeasured \/ Fetch \/ FetchFails \/ BufferCopied \/ DocumentEnds \/ CloseAttJSON
        BY <2>3, <3>2 DEF Stubber, callVars, AllMeasured, Fetch, FetchFails, BufferCopied,
                          DocumentEnds, CloseAttJSON, fileVars
      <3>3. CASE CopyMember \/ CopyBuffered \/ CopyRest
        BY <2>3, <3>3 DEF Stubber, callVars, CopyMember, CopyBuffered, CopyRest, HandOn
      <3> QED
        BY <2>3, <3>1, <3>2, <3>3 DEF Stubber
    <2>4. CASE CreateMultipart
      <3>1. UNCHANGED <<put, attEnd>>
        BY <2>4 DEF CreateMultipart, callVars
      <3>2. CASE OpenDoc
        BY <2>4, <3>1, <3>2 DEF OpenDoc
      <3>3. CASE DocRead \/ CopyFile \/ CopyFileFails \/ FilesCopied \/ CloseIn
        BY <2>4, <3>1, <3>3 DEF DocRead, CopyFile, CopyFileFails, FilesCopied, CloseIn
      <3> QED
        BY <2>4, <3>2, <3>3 DEF CreateMultipart
    <2> QED
      BY <1>2, <2>1, <2>2, <2>3, <2>4 DEF PutNext
  <1> QED
    BY <1>1, <1>2 DEF Next, Putting, Getting, vars

\* For any number of attachments: they are never measured while their contents are
\* copied, or after the Put.
THEOREM AttachmentsInTurn == Spec => []ContentsInTurn
  <1>1. Init => TurnInv
    BY DEF Init, PutInit, TurnInv
  <1>2. TurnInv => ContentsInTurn
    BY DEF TurnInv, ContentsInTurn
  <1> QED
    BY <1>1, <1>2, TurnStep, PTL DEF Spec

-----------------------------------------------------------------------------
(* What a Put stores.                                                       *)

\* A step of the system is one of the Put, or leaves it alone.
LEMMA StepsOfPut == [Next]_vars => PutStep
  BY DEF Next, Putting, Getting, vars, PutStep

\* The invariant of MultipartPut holds whatever else the caller does.
LEMMA PutInvariant == Spec => []PutInv
  <1>1. Init => PutInv
    BY PutInvInit DEF Init
  <1>2. PutInv /\ [Next]_vars => PutInv'
    BY StepsOfPut, PutInvStep
  <1> QED BY <1>1, <1>2, PTL DEF Spec

\* The first Put takes the caller's attachments, and a later one finds none.
GivenInv ==
    /\ puts = 0 => callers = original /\ put = "idle" /\ result # "ok"
    /\ puts > 0 => callers = << >>
    /\ puts = 1 => given = original
    /\ puts > 1 => given = << >>

\* Extract alone touches them.
LEMMA GivenStep == PutInv /\ GivenInv /\ [Next]_vars => GivenInv'
  <1> SUFFICES ASSUME PutInv, GivenInv, [Next]_vars PROVE GivenInv'
    OBVIOUS
  <1> USE DEF GivenInv
  <1>0. puts \in Nat
    BY PutAssumption DEF PutInv, PutTypeOK
  <1>1. original' = original
    BY DEF Next, Putting, Getting, vars
  <1>2. CASE Extract
    <2>1. puts' = puts + 1 /\ given' = callers /\ callers' = << >>
      BY <1>2 DEF Extract
    <2>2. CASE puts = 0
      BY <1>1, <2>1, <2>2
    <2>3. CASE puts > 0
      BY <1>0, <1>1, <2>1, <2>3
    <2> QED BY <1>0, <2>2, <2>3
  <1>3. CASE NoTempFile \/ Built \/ FileReady \/ Request
    <2>1. put # "idle" /\ UNCHANGED <<puts, given, callers>>
      BY <1>3 DEF NoTempFile, Built, FileReady, Request, LengthDiffers, StoreDoc, NotStored,
                  Become
    <2> QED BY <1>1, <2>1
  <1>4. CASE Stubber \/ CreateMultipart \/ UNCHANGED <<putVars, stored>>
    <2>1. UNCHANGED callVars
      BY <1>4 DEF Stubber, CreateMultipart, putVars
    <2> QED BY <1>1, <2>1 DEF callVars
  <1> QED BY <1>2, <1>3, <1>4, StepsOfPut DEF PutStep, PutNext

\* For any attachments and order of the members: the first Put, when it succeeds, has
\* stored each content the caller gave, whole, under its own name, and a later one
\* none; beside a document that lost no member, though a name in front of its
\* attachments may have lost its escapes.
THEOREM SuccessIsStored == Spec => []StoredAsGiven
  <1>1. Init => GivenInv
    BY NoneIsNoError DEF Init, PutInit, GivenInv
  <1>2. PutInv /\ GivenInv => StoredAsGiven
    <2> SUFFICES ASSUME PutInv, GivenInv, result = "ok" PROVE StoredAsGiven
      BY DEF StoredAsGiven
    <2>1. puts \in Nat /\ puts # 0
      BY PutAssumption DEF PutInv, PutTypeOK, GivenInv
    <2>2. given = IF puts = 1 THEN original ELSE << >>
      BY <2>1 DEF GivenInv
    <2> QED BY <2>2, PutPromises DEF StoredAsGiven
  <1> QED BY <1>1, <1>2, GivenStep, PutInvariant, PTL DEF Spec

\* Whatever fails before the request, no part of a document is sent without the rest.
THEOREM NothingHalfSent == Spec => []SentWhole
  BY PutInvariant, PutPromises, PTL

\* A Put that succeeds leaves open only contents that it replaced by a buffer.
THEOREM SuccessCloses == Spec => []ContentsClosed
  BY PutInvariant, PutPromises, PTL

-----------------------------------------------------------------------------
(* What the server has while a Get is under way.                            *)

\* Whatever was put is of the caller's document, and so is what is stored.
Faithful ==
    /\ \A n \in DOMAIN callers : n \in DOMAIN original /\ callers[n].len = original[n].len
    /\ \A n \in DOMAIN given : n \in DOMAIN original /\ given[n].len = original[n].len
    /\ original \in AttMaps /\ IsFiniteSet(DOMAIN original)
    /\ stored # None =>
         \A n \in DOMAIN stored.files :
            /\ n \in DOMAIN original
            /\ stored.files[n] = [of |-> n, len |-> original[n].len]
            /\ stored.length[n] = original[n].len

\* Once the caller reads, nobody writes.
OneAtATime == get # "idle" => put = "idle" /\ stored # None

\* A request stores what was given, and nothing else touches the server's document.
LEMMA StoredChanges ==
    ASSUME PutInv, [Next]_vars
    PROVE  \/ UNCHANGED stored
           \/ /\ put = "send"
              /\ stored' = [members |-> jsonPart, files |-> Whole(given),
                             length |-> LengthsOf(given)]
  <1>1. CASE StoreDoc
    BY <1>1, StoreDocStores DEF StoreDoc
  <1>2. CASE Extract \/ NoTempFile \/ Built \/ FileReady \/ LengthDiffers \/ NotStored
    BY <1>2 DEF Extract, NoTempFile, Built, FileReady, LengthDiffers, NotStored
  <1>3. CASE Stubber \/ CreateMultipart
    BY <1>3 DEF Stubber, CreateMultipart
  <1>4. CASE UNCHANGED <<putVars, stored>>
    BY <1>4
  <1> QED BY <1>1, <1>2, <1>3, <1>4, StepsOfPut DEF PutStep, PutNext, Request

\* What was stored came from the caller, through any Puts.
LEMMA FaithfulStep == PutInv /\ Faithful /\ [Next]_vars => Faithful'
  <1> SUFFICES ASSUME PutInv, Faithful, [Next]_vars PROVE Faithful'
    OBVIOUS
  <1>1. original' = original
    BY DEF Next, Putting, Getting, vars
  <1>2. \/ Extract \/ UNCHANGED <<callers, given>>
    BY StepsOfPut, AttachmentsUsed DEF Measure
  <1>3. /\ \A n \in DOMAIN callers' : n \in DOMAIN original /\ callers'[n].len = original[n].len
        /\ \A n \in DOMAIN given' : n \in DOMAIN original /\ given'[n].len = original[n].len
    <2>1. CASE Extract
      <3>1. callers' = << >> /\ given' = callers /\ DOMAIN << >> = {}
        BY <2>1, MapKinds DEF Extract
      <3> QED BY <3>1 DEF Faithful
    <2>2. CASE UNCHANGED <<callers, given>>
      BY <2>2 DEF Faithful
    <2> QED BY <1>2, <2>1, <2>2
  <1>4. stored' # None =>
          \A n \in DOMAIN stored'.files :
             /\ n \in DOMAIN original
             /\ stored'.files[n] = [of |-> n, len |-> original[n].len]
             /\ stored'.length[n] = original[n].len
    <2>1. CASE UNCHANGED stored
      BY <2>1 DEF Faithful
    <2>2. CASE stored' = [members |-> jsonPart, files |-> Whole(given),
                          length |-> LengthsOf(given)]
      BY <2>2 DEF Faithful, Whole, LengthsOf
    <2> QED BY <2>1, <2>2, StoredChanges
  <1> QED BY <1>1, <1>3, <1>4 DEF Faithful

\* A Get begins when no Put is under way, and none begins after it.
LEMMA OneAtATimeStep == PutInv /\ OneAtATime /\ [Next]_vars => OneAtATime'
  <1> SUFFICES ASSUME PutInv, OneAtATime, [Next]_vars PROVE OneAtATime'
    OBVIOUS
  <1> USE DEF OneAtATime
  <1>1. CASE UNCHANGED vars
    BY <1>1 DEF vars, putVars, getVars, callVars
  <1>2. CASE Getting
    <2>1. put' = put /\ stored' = stored /\ put = "idle"
      BY <1>2 DEF Getting, putVars, callVars
    <2>2. CASE get = "idle"
      <3>1. GetNext
        BY <1>2 DEF Getting
      <3>2. stored # None
        BY <2>2, <3>1 DEF GetNext, Call, Serve, NoAnswer, StatusError, StatusOK, TypeKnown,
             TypeUnusable, RevFromETag, RevFromBody, RevUnknown, Related, RelatedBroken,
             Decode, DecodeFails, ReadBody, NextPart, NextPartFails, NextPartEnds, CloseEarly
      <3> QED BY <2>1, <3>2
    <2> QED BY <2>1, <2>2
  <1>3. CASE Putting
    <2>1. get' = get
      BY <1>3 DEF Putting, getVars
    <2>2. CASE get # "idle"
      <3>1. put = "idle" /\ stored # None /\ puts' = puts /\ PutNext
        BY <1>3, <2>2 DEF Putting
      <3>2. stored' = stored
        BY <3>1, StoredChanges
      <3>3. ~Extract
        BY <3>1 DEF Extract, PutInv, PutTypeOK
      <3>4. put' = "idle"
        BY <3>1, <3>3 DEF PutNext, NoTempFile, Built, FileReady, Request, LengthDiffers,
             StoreDoc, NotStored, Stubber, CreateMultipart, callVars
      <3> QED BY <3>1, <3>2, <3>4
    <2> QED BY <2>1, <2>2
  <1> QED BY <1>1, <1>2, <1>3 DEF Next

-----------------------------------------------------------------------------
(* What the server serves.                                                  *)

\* A multipart body: the document, then files that its stubs announce and that are
\* stored.
IsRelated(s) ==
    /\ s # << >> /\ s[1] \in [unit : {"doc"}, stubs : UNION {[ns -> Lengths] : ns \in SUBSET Names}]
    /\ \A n \in DOMAIN s[1].stubs :
         n \in DOMAIN stored.files /\ s[1].stubs[n] = stored.length[n]
    /\ \A i \in 2 .. Len(s) :
         /\ s[i] \in [unit : {"file"}, name : Names, content : Contents]
         /\ s[i].name \in DOMAIN s[1].stubs
         /\ s[i].content = stored.files[s[i].name]

\* The units of the bodies.
LEMMA UnitKinds ==
    /\ [unit |-> "rev"] \in Units
    /\ \A m \in 0 .. Other : [unit |-> "member", member |-> m] \in Units
    /\ [unit : {"doc"}, stubs : UNION {[ns -> Lengths] : ns \in SUBSET Names}] \subseteq Units
    /\ [unit : {"file"}, name : Names, content : Contents] \subseteq Units
  BY DEF Units

\* What is stored can be served.
LEMMA FileKinds ==
    ASSUME StoredOK, stored # None, NEW n \in DOMAIN stored.files
    PROVE  /\ n \in Names /\ stored.files[n] \in Contents /\ stored.length[n] \in Lengths
           /\ File(n) \in [unit : {"file"}, name : Names, content : Contents]
           /\ File(n).name = n /\ File(n).content = stored.files[n]
  BY DEF StoredOK, File

\* A JSON body is a sequence of units.
LEMMA JSONBodyKinds ==
    ASSUME StoredOK, stored # None
    PROVE  JSONBody \in Seq(Units)
  <1> DEFINE size == Len(stored.members)
  <1>1. size \in Nat /\ DOMAIN stored.members = 1 .. size
    BY NamesAssumption DEF StoredOK
  <1>4. ASSUME NEW i \in 1 .. size
        PROVE  [unit |-> "member", member |-> stored.members[i]] \in Units
    <2>1. stored.members[i] \in 0 .. Other
      BY <1>1 DEF StoredOK
    <2> QED BY <2>1, UnitKinds
  <1>2. [i \in DOMAIN stored.members |-> [unit |-> "member", member |-> stored.members[i]]]
          \in Seq(Units)
    BY <1>1, <1>4
  <1>3. <<[unit |-> "rev"]>> \in Seq(Units)
    BY UnitKinds
  <1> QED BY <1>2, <1>3 DEF JSONBody

\* A multipart body is one of the document that is stored.
LEMMA RelatedBodyKinds ==
    ASSUME StoredOK, stored # None, IsFiniteSet(DOMAIN stored.files),
           NEW follow \in SUBSET DOMAIN stored.files
    PROVE  RelatedBody(follow) \in Seq(Units) /\ IsRelated(RelatedBody(follow))
  <1> DEFINE order == Sorted(follow)
             head == [unit |-> "doc", stubs |-> [n \in follow |-> stored.length[n]]]
             rest == [i \in DOMAIN order |-> File(order[i])]
             size == Cardinality(follow)
  <1>1. follow \subseteq Nat /\ IsFiniteSet(follow) /\ follow \in SUBSET Names
    BY FS_Subset, NamesAssumption DEF StoredOK
  <1>2. /\ size \in Nat /\ DOMAIN order = 1 .. size
        /\ \A i \in 1 .. size : order[i] \in follow
    BY <1>1, SortedOnto
  <1>3. head \in [unit : {"doc"}, stubs : UNION {[ns -> Lengths] : ns \in SUBSET Names}]
    <2>1. [n \in follow |-> stored.length[n]] \in [follow -> Lengths]
      BY FileKinds
    <2> QED BY <1>1, <2>1
  <1>4. \A i \in 1 .. size :
          /\ rest[i] \in [unit : {"file"}, name : Names, content : Contents]
          /\ rest[i].name \in follow /\ rest[i].content = stored.files[rest[i].name]
    BY <1>2, FileKinds
  <1>5. rest \in Seq(Units) /\ Len(rest) = size
    BY <1>2, <1>4, UnitKinds
  <1>6. RelatedBody(follow) = <<head>> \o rest
    BY DEF RelatedBody
  <1> HIDE DEF head, rest, order
  <1>7. head \in Units /\ <<head>> \in Seq(Units) /\ Len(<<head>>) = 1
    BY <1>3, UnitKinds
  <1>8. /\ RelatedBody(follow) \in Seq(Units) /\ Len(RelatedBody(follow)) = 1 + size
        /\ RelatedBody(follow)[1] = head
        /\ \A i \in 2 .. 1 + size : RelatedBody(follow)[i] = rest[i - 1]
    BY <1>2, <1>5, <1>6, <1>7
  <1>9. DOMAIN head.stubs = follow /\ \A n \in follow : head.stubs[n] = stored.length[n]
    BY DEF head
  <1>10. \A i \in 2 .. 1 + size : i - 1 \in 1 .. size
    BY <1>2
  <1>11. RelatedBody(follow) # << >>
    BY <1>2, <1>8
  <1> QED BY <1>3, <1>4, <1>8, <1>9, <1>10, <1>11 DEF IsRelated

\* Of any answer the driver could use.
LEMMA BodyKinds ==
    ASSUME StoredOK, stored # None, IsFiniteSet(DOMAIN stored.files),
           NEW header \in Headers, NEW s \in Bodies(header)
    PROVE  /\ s \in Seq(Units)
           /\ op = "Get" /\ header.status = "ok" /\ header.ctype = "related" => IsRelated(s)
  <1>1. CASE op \in Heads \/ header.status = "error"
    <2>1. s = << >>
      BY <1>1 DEF Bodies
    <2>2. ~(op = "Get" /\ header.status = "ok")
      BY <1>1 DEF Heads
    <2> QED BY <2>1, <2>2
  <1>2. CASE ~(op \in Heads \/ header.status = "error") /\ op = "GetAttachment"
    <2>1. PICK n \in DOMAIN stored.files : s = <<File(n)>>
      BY <1>2 DEF Bodies
    <2>2. File(n) \in Units
      BY FileKinds, UnitKinds
    <2> QED BY <1>2, <2>1, <2>2
  <1>3. CASE /\ ~(op \in Heads \/ header.status = "error") /\ op # "GetAttachment"
             /\ header.ctype = "related"
    <2>1. PICK follow \in SUBSET DOMAIN stored.files : s = RelatedBody(follow)
      BY <1>3 DEF Bodies
    <2> QED BY <2>1, RelatedBodyKinds
  <1>4. CASE /\ ~(op \in Heads \/ header.status = "error") /\ op # "GetAttachment"
             /\ header.ctype # "related"
    <2>1. s = JSONBody
      BY <1>4 DEF Bodies
    <2> QED BY <1>4, <2>1, JSONBodyKinds
  <1> QED BY <1>1, <1>2, <1>3, <1>4

-----------------------------------------------------------------------------
(* What is left to read of a body.                                          *)

\* rest is what follows the first k units of all, to the end or to where it broke off.
Behind(k, rest, all) ==
    /\ k + Len(rest) <= Len(all)
    /\ whole => k + Len(rest) = Len(all)
    /\ \A i \in 1 .. Len(rest) : rest[i] = all[k + i]

\* Who has read a body to its end has all of it.
LEMMA ReadToTheEnd ==
    ASSUME NEW rest \in Seq(Units), NEW all \in Seq(Units), Behind(0, rest, all), whole
    PROVE  rest = all
  <1>1. Len(rest) = Len(all) /\ \A i \in 1 .. Len(rest) : rest[i] = all[i]
    BY DEF Behind
  <1> QED BY <1>1

\* The next unit, and what is left behind it.
LEMMA ReadNext ==
    ASSUME NEW k \in Nat, NEW rest \in Seq(Units), NEW all \in Seq(Units),
           Behind(k, rest, all), rest # << >>
    PROVE  /\ Head(rest) \in Units /\ Tail(rest) \in Seq(Units)
           /\ k + 1 \in 1 .. Len(all) /\ Head(rest) = all[k + 1]
           /\ Behind(k + 1, Tail(rest), all)
  <1>1. /\ Len(rest) \in Nat /\ Len(all) \in Nat /\ Len(rest) >= 1
        /\ Head(rest) = rest[1] /\ Head(rest) \in Units
        /\ Tail(rest) \in Seq(Units) /\ Len(Tail(rest)) = Len(rest) - 1
        /\ \A i \in 1 .. Len(rest) - 1 : Tail(rest)[i] = rest[i + 1]
    OBVIOUS
  <1>2. \A i \in 1 .. Len(rest) - 1 : i + 1 \in 1 .. Len(rest) /\ k + (i + 1) = (k + 1) + i
    BY <1>1
  <1> QED BY <1>1, <1>2 DEF Behind

\* Reading ahead loses nothing when the two pieces are put together again.
LEMMA PutTogether ==
    ASSUME NEW s \in Seq(Units), NEW k \in 1 .. Len(s)
    PROVE  /\ SubSeq(s, 1, k) \in Seq(Units) /\ SubSeq(s, k + 1, Len(s)) \in Seq(Units)
           /\ SubSeq(s, 1, k) \o SubSeq(s, k + 1, Len(s)) = s
  <1>1. Len(s) \in Nat /\ k \in 0 .. Len(s) /\ 1 \in 1 .. Len(s) + 1 /\ Len(s) \in k .. Len(s)
    OBVIOUS
  <1>2. SubSeq(s, 1, k) \o SubSeq(s, k + 1, Len(s)) = SubSeq(s, 1, Len(s))
    BY <1>1, ConcatAdjacentSubSeq
  <1>3. SubSeq(s, 1, k) \in Seq(Units) /\ SubSeq(s, k + 1, Len(s)) \in Seq(Units)
    OBVIOUS
  <1>4. SubSeq(s, 1, Len(s)) = s
    BY SubSeqFull
  <1>5. SubSeq(s, 1, k) \o SubSeq(s, k + 1, Len(s)) = s
    BY ONLY <1>2, <1>4, Zenon
  <1> QED BY <1>3, <1>5, Zenon

\* What arrives is the beginning of what was served.
LEMMA Arrives ==
    ASSUME NEW s \in Seq(Units), NEW n \in 0 .. Len(s)
    PROVE  /\ SubSeq(s, 1, n) \in Seq(Units) /\ Len(SubSeq(s, 1, n)) = n
           /\ \A i \in 1 .. n : SubSeq(s, 1, n)[i] = s[i]
  OBVIOUS

-----------------------------------------------------------------------------
(* The invariant of a Get.                                                  *)

\* Where an operation can be, with what kind of answer.
Stations ==
    /\ get = "idle" => op = None
    /\ get # "idle" => op \in Ops
    /\ get \in {"idle", "wait"} => reply = None
    /\ get \notin {"idle", "wait", "done"} => reply \in Headers
    /\ get \in {"type", "rev", "related", "decode", "held"} => reply.status = "ok"
    /\ get \in {"type", "related"} => op = "Get"
    /\ get = "related" => reply.ctype = "related"
    /\ get = "rev" => op \in {"Get", "GetRev"} /\ (op = "Get" => reply.ctype = "json")
    /\ get = "decode" => op \in {"GetAttachment", "GetAttachmentMeta"}

\* The file of part i of a multipart body.
FileOf(i) ==
    [name |-> served[i + 1].name, size |-> served[1].stubs[served[i + 1].name],
     content |-> served[i + 1].content]

\* The answer of a Get, when it is a multipart document.
RelatedAnswer == reply # None /\ reply.status = "ok" /\ op = "Get" /\ reply.ctype = "related"

\* What was read of the body is in somebody's hand, and in order: the buffer of
\* extractRev, the document, the files.
InHand ==
    /\ get \notin {"held", "done"} => buffer = << >> /\ doc = << >> /\ files = << >>
    /\ get \in {"status", "type", "rev", "related", "decode"} => Behind(0, unread, served)
    /\ RelatedAnswer => IsRelated(served)
    /\ get = "held" /\ ~Multipart =>
         doc = << >> /\ files = << >> /\ Behind(0, buffer \o unread, served)
    /\ get = "held" /\ Multipart =>
         /\ doc = <<served[1]>> /\ manifest = served[1].stubs
         /\ Behind(1 + Len(files), unread, served)
         /\ \A i \in 1 .. Len(files) : files[i] = FileOf(i)

\* The files the caller has are those the server has.
FilesStored ==
    \A i \in 1 .. Len(files) :
        /\ stored # None /\ files[i].name \in DOMAIN stored.files
        /\ files[i].content = stored.files[files[i].name]
        /\ files[i].size = stored.length[files[i].name]

GetInv == GetTypeOK /\ Stations /\ InHand /\ FilesStored /\ GotAsServed

\* What the invariant of a Get needs of the server's document.
Servable == StoredOK /\ (stored # None => IsFiniteSet(DOMAIN stored.files))

\* Steps that take nothing of the body, and give nothing of it to the caller.
Passing ==
    \/ \E o \in Ops : Call(o)
    \/ NoAnswer \/ StatusError \/ StatusOK \/ TypeKnown \/ TypeUnusable
    \/ RevFromETag \/ RevUnknown \/ RelatedBroken
    \/ Decode \/ DecodeFails \/ NextPartFails \/ NextPartEnds \/ CloseEarly

\* The steps of a Get, by what they do to the body.
LEMMA StepsOfGet ==
    GetNext => \/ Passing \/ \E header \in Headers : Serve(header)
               \/ RevFromBody \/ Related \/ ReadBody \/ NextPart
  BY DEF GetNext, Passing

\* A step that passes the body by leaves it as it is.
LEMMA PassingLeaves ==
    Passing => UNCHANGED <<unread, whole, buffer, manifest, doc, files, served, reply>>
  <1> SUFFICES ASSUME Passing
               PROVE  UNCHANGED <<unread, whole, buffer, manifest, doc, files, served, reply>>
    OBVIOUS
  <1>1. CASE \E o \in Ops : Call(o)
    BY <1>1 DEF Call, handVars
  <1>2. CASE NoAnswer
    BY <1>2 DEF NoAnswer, handVars
  <1>3. CASE StatusOK \/ TypeKnown \/ Decode
    BY <1>3 DEF StatusOK, TypeKnown, Decode, Proceed, handVars
  <1>4. CASE RevFromETag
    BY <1>4 DEF RevFromETag
  <1>5. CASE \/ StatusError \/ TypeUnusable \/ RevUnknown \/ RelatedBroken \/ DecodeFails
             \/ NextPartFails \/ NextPartEnds \/ CloseEarly
    BY <1>5 DEF StatusError, TypeUnusable, RevUnknown, RelatedBroken, DecodeFails,
                NextPartFails, NextPartEnds, CloseEarly, Fail, End
  <1> QED BY <1>1, <1>2, <1>3, <1>4, <1>5 DEF Passing

\* Every operation goes its own way, and none a way that is not its own.
LEMMA StationsStep == Stations /\ GetNext => Stations'
  <1> SUFFICES ASSUME Stations, GetNext PROVE Stations'
    OBVIOUS
  <1> USE DEF Stations
  <1>1. CASE \E o \in Ops : Call(o)
    BY <1>1 DEF Call
  <1>2. CASE \E header \in Headers : Serve(header)
    BY <1>2 DEF Serve
  <1>3. CASE NoAnswer
    BY <1>3 DEF NoAnswer
  <1>4. CASE StatusError \/ TypeUnusable \/ RevUnknown \/ RelatedBroken \/ DecodeFails
    BY <1>4 DEF StatusError, TypeUnusable, RevUnknown, RelatedBroken, DecodeFails, Fail, End
  <1>5. CASE StatusOK
    <2>1. op \in Ops /\ reply \in Headers /\ reply.status = "ok"
      BY <1>5 DEF StatusOK
    <2>2. /\ op' = op /\ reply' = reply
          /\ get' = CASE op = "Get" -> "type" [] op = "GetRev" -> "rev" [] OTHER -> "decode"
      BY <1>5 DEF StatusOK, Proceed
    <2> QED BY <2>1, <2>2 DEF Ops
  <1>6. CASE TypeKnown
    BY <1>6 DEF TypeKnown, TypeUsable, Proceed
  <1>7. CASE Decode
    BY <1>7 DEF Decode, Proceed
  <1>8. CASE RevFromETag \/ RevFromBody
    BY <1>8 DEF RevFromETag, RevFromBody
  <1>9. CASE Related
    BY <1>9 DEF Related
  <1>10. CASE ReadBody \/ NextPartFails \/ NextPartEnds \/ CloseEarly
    BY <1>10 DEF ReadBody, NextPartFails, NextPartEnds, CloseEarly, Fail, End
  <1>11. CASE NextPart
    BY <1>11 DEF NextPart
  <1> QED BY <1>1, <1>2, <1>3, <1>4, <1>5, <1>6, <1>7, <1>8, <1>9, <1>10, <1>11 DEF GetNext

\* The answer is that of the operation, and some of its body arrives.
LEMMA ServeKinds ==
    ASSUME Servable, stored # None, NEW header \in Headers, Serve(header), UNCHANGED stored
    PROVE  /\ served' \in Seq(Units) /\ unread' \in Seq(Units) /\ whole' \in BOOLEAN
           /\ Behind(0, unread, served)'
           /\ (RelatedAnswer => IsRelated(served))'
  <1>1. /\ served' \in Seq(Units)
        /\ op = "Get" /\ header.status = "ok" /\ header.ctype = "related" => IsRelated(served')
    BY BodyKinds DEF Serve, Servable
  <1>2. PICK n \in 0 .. Len(served') :
            unread' = SubSeq(served', 1, n) /\ whole' = (n = Len(served'))
    BY DEF Serve
  <1>3. /\ unread' \in Seq(Units) /\ Len(unread') = n
        /\ \A i \in 1 .. n : unread'[i] = served'[i]
    BY <1>1, <1>2, Arrives
  <1>4. whole' \in BOOLEAN /\ (whole' => n = Len(served'))
    BY <1>2, Zenon
  <1>5. Behind(0, unread, served)'
    BY <1>1, <1>2, <1>3, <1>4 DEF Behind
  <1>6. op' = op /\ reply' = header
    BY DEF Serve
  <1>7. (RelatedAnswer => IsRelated(served))'
    BY <1>1, <1>6 DEF RelatedAnswer, IsRelated
  <1> QED BY <1>1, <1>3, <1>4, <1>5, <1>7

\* What readRev took is in front of what it left.
LEMMA RevFromBodyKinds ==
    ASSUME GetTypeOK, RevFromBody
    PROVE  /\ buffer' \in Seq(Units) /\ unread' \in Seq(Units)
           /\ buffer' \o unread' = unread
  <1>1. PICK k \in 1 .. Len(unread) :
            buffer' = SubSeq(unread, 1, k) /\ unread' = SubSeq(unread, k + 1, Len(unread))
    BY DEF RevFromBody
  <1>2. unread \in Seq(Units)
    BY DEF GetTypeOK
  <1> QED BY <1>1, <1>2, PutTogether

\* The first part is the document the server sent.
LEMMA RelatedKinds ==
    ASSUME GetInv, Related
    PROVE  /\ doc' = <<served[1]>> /\ manifest' = served[1].stubs
           /\ served[1] \in Units
           /\ \A n \in DOMAIN manifest' : n \in Names /\ manifest'[n] \in Lengths
           /\ unread' \in Seq(Units) /\ Behind(1, unread', served)
  <1>1. /\ get = "related" /\ unread # << >> /\ unread \in Seq(Units) /\ served \in Seq(Units)
        /\ unread' = Tail(unread)
        /\ doc' = <<Head(unread)>> /\ manifest' = Head(unread).stubs
    BY DEF Related, GetInv, GetTypeOK
  <1>2. Behind(0, unread, served) /\ RelatedAnswer
    BY <1>1, NoneIsNoReply DEF GetInv, InHand, Stations, RelatedAnswer
  <1>3. IsRelated(served)
    BY <1>2 DEF GetInv, InHand
  <1>4. /\ Head(unread) = served[1] /\ Head(unread) \in Units
        /\ Tail(unread) \in Seq(Units) /\ Behind(1, Tail(unread), served)
    <2>1. /\ Head(unread) \in Units /\ Tail(unread) \in Seq(Units)
          /\ Head(unread) = served[0 + 1] /\ Behind(0 + 1, Tail(unread), served)
      BY <1>1, <1>2, ReadNext
    <2>2. 0 + 1 = 1
      OBVIOUS
    <2> QED BY <2>1, <2>2
  <1>5. served[1].stubs \in UNION {[ns -> Lengths] : ns \in SUBSET Names}
    BY <1>3 DEF IsRelated
  <1>6. PICK ns \in SUBSET Names : served[1].stubs \in [ns -> Lengths]
    BY <1>5
  <1>7. \A n \in DOMAIN served[1].stubs : n \in Names /\ served[1].stubs[n] \in Lengths
    BY <1>6
  <1> QED BY <1>1, <1>4, <1>7

\* The next part is the next file of the body, one that is stored.
LEMMA NextPartKinds ==
    ASSUME GetInv, Servable, stored # None, NextPart
    PROVE  LET k == Len(files) + 1
           IN  /\ k \in Nat /\ files' \in Seq(Delivered) /\ Len(files') = k
               /\ \A i \in 1 .. Len(files) : files'[i] = files[i]
               /\ files'[k] = FileOf(k)
               /\ files'[k].name \in DOMAIN stored.files
               /\ files'[k].content = stored.files[files'[k].name]
               /\ files'[k].size = stored.length[files'[k].name]
               /\ unread' \in Seq(Units) /\ Behind(1 + k, unread', served)
  <1> DEFINE k == Len(files) + 1
             part == Head(unread)
             file == [name |-> part.name, size |-> manifest[part.name],
                      content |-> part.content]
  <1>1. /\ get = "held" /\ Multipart /\ unread # << >> /\ unread \in Seq(Units)
        /\ served \in Seq(Units) /\ files \in Seq(Delivered)
        /\ unread' = Tail(unread) /\ files' = Append(files, file)
    BY DEF NextPart, GetInv, GetTypeOK
  <1>2. RelatedAnswer
    BY <1>1, NoneIsNoReply DEF GetInv, Stations, RelatedAnswer, Multipart
  <1>3. /\ IsRelated(served) /\ manifest = served[1].stubs
        /\ Behind(k, unread, served)
    <2>1. 1 + Len(files) = k
      BY <1>1
    <2> QED BY <1>1, <1>2, <2>1 DEF GetInv, InHand
  <1>4. /\ k \in Nat /\ k >= 1
        /\ k + 1 \in 1 .. Len(served) /\ part = served[k + 1]
        /\ Tail(unread) \in Seq(Units) /\ Behind(k + 1, Tail(unread), served)
    <2>1. k \in Nat /\ k >= 1
      BY <1>1
    <2> QED BY <1>1, <1>3, <2>1, ReadNext
  <1>5. /\ part \in [unit : {"file"}, name : Names, content : Contents]
        /\ part.name \in DOMAIN served[1].stubs
        /\ part.content = stored.files[part.name]
        /\ part.name \in DOMAIN stored.files
        /\ served[1].stubs[part.name] = stored.length[part.name]
    <2>1. k + 1 \in 2 .. Len(served)
      BY <1>1, <1>4
    <2> QED BY <1>3, <1>4, <2>1 DEF IsRelated
  <1>6. stored.length[part.name] \in Lengths
    BY <1>5, FileKinds DEF Servable
  <1>7. /\ file = FileOf(k) /\ file \in Delivered
        /\ file.name \in DOMAIN stored.files
        /\ file.content = stored.files[file.name]
        /\ file.size = stored.length[file.name]
    BY <1>3, <1>4, <1>5, <1>6 DEF FileOf, Delivered
  <1> HIDE DEF file
  <1>8. /\ files' \in Seq(Delivered) /\ Len(files') = k /\ files'[k] = file
        /\ \A i \in 1 .. Len(files) : files'[i] = files[i]
    BY <1>1, <1>7, AppendProperties
  <1>9. Behind(1 + k, unread', served) /\ unread' \in Seq(Units)
    <2>1. k + 1 = 1 + k
      BY <1>4
    <2> QED BY <1>1, <1>4, <2>1
  <1> QED BY <1>4, <1>7, <1>8, <1>9

\* The reader that was put together again has the body from its first unit.
LEMMA ReadBodyKinds ==
    ASSUME GetInv, ReadBody
    PROVE  doc' \in Seq(Units) /\ (whole => doc' = served)
  <1>1. /\ get = "held" /\ ~Multipart /\ doc' = buffer \o unread
        /\ buffer \in Seq(Units) /\ unread \in Seq(Units) /\ served \in Seq(Units)
    BY DEF ReadBody, Restored, GetInv, GetTypeOK
  <1>2. Behind(0, buffer \o unread, served)
    BY <1>1 DEF GetInv, InHand
  <1>3. buffer \o unread \in Seq(Units)
    BY <1>1
  <1> QED BY <1>1, <1>2, <1>3, ReadToTheEnd

\* Passing steps keep what is in hand.
LEMMA PassingInHand ==
    ASSUME GetInv, Passing, UNCHANGED stored
    PROVE  InHand'
  <1>1. UNCHANGED <<unread, whole, buffer, manifest, doc, files, served, reply>>
    BY PassingLeaves
  <1>2. unread \in Seq(Units) /\ served \in Seq(Units) /\ << >> \o unread = unread
    BY ConcatEmptySeq DEF GetInv, GetTypeOK
  <1>3. Stations /\ InHand
    BY DEF GetInv
  <1> USE DEF InHand, Stations, Behind, RelatedAnswer, IsRelated, FileOf, Multipart
  <1>4. CASE \E o \in Ops : Call(o)
    BY <1>1, <1>3, <1>4 DEF Call
  <1>5. CASE NoAnswer
    BY <1>1, <1>3, <1>5 DEF NoAnswer
  <1>6. CASE StatusOK
    BY <1>1, <1>3, <1>6 DEF StatusOK, Proceed
  <1>7. CASE TypeKnown
    BY <1>1, <1>3, <1>7 DEF TypeKnown, Proceed
  <1>8. CASE Decode
    BY <1>1, <1>2, <1>3, <1>8 DEF Decode, Proceed
  <1>9. CASE RevFromETag
    BY <1>1, <1>2, <1>3, <1>9 DEF RevFromETag
  <1>10. CASE \/ StatusError \/ TypeUnusable \/ RevUnknown \/ RelatedBroken \/ DecodeFails
              \/ NextPartFails \/ NextPartEnds \/ CloseEarly
    BY <1>1, <1>3, <1>10 DEF StatusError, TypeUnusable, RevUnknown, RelatedBroken, DecodeFails,
                NextPartFails, NextPartEnds, CloseEarly, Fail, End
  <1> QED BY <1>4, <1>5, <1>6, <1>7, <1>8, <1>9, <1>10 DEF Passing

\* Nothing of a body is lost on its way to the caller, and nothing gets out of order.
LEMMA InHandStep ==
    ASSUME GetInv, Servable, get # "idle" => stored # None, GetNext, UNCHANGED stored
    PROVE  InHand'
  <1>1. CASE Passing
    BY <1>1, PassingInHand
  <1>2. ASSUME NEW header \in Headers, Serve(header) PROVE InHand'
    <2>1. get = "wait" /\ get' = "status" /\ UNCHANGED <<buffer, doc, files>>
      BY <1>2 DEF Serve, handVars
    <2>2. Behind(0, unread, served)' /\ (RelatedAnswer => IsRelated(served))'
      BY <1>2, <2>1, ServeKinds
    <2> QED BY <2>1, <2>2 DEF InHand, GetInv
  <1>3. CASE RevFromBody
    <2>1. /\ get = "rev" /\ get' = "held"
          /\ UNCHANGED <<op, reply, whole, doc, files, manifest, served>>
      BY <1>3 DEF RevFromBody
    <2>2. buffer' \o unread' = unread
      BY <1>3, RevFromBodyKinds DEF GetInv
    <2>3. ~Multipart'
      BY <2>1 DEF GetInv, Stations, Multipart
    <2>4. Behind(0, unread, served) /\ doc = << >> /\ files = << >>
          /\ (RelatedAnswer => IsRelated(served))
      BY <2>1 DEF GetInv, InHand
    <2>5. Behind(0, buffer \o unread, served)'
      BY <2>1, <2>2, <2>4 DEF Behind
    <2>6. (RelatedAnswer => IsRelated(served))'
      BY <2>1, <2>4 DEF RelatedAnswer, IsRelated
    <2> QED BY <2>1, <2>3, <2>4, <2>5, <2>6 DEF InHand
  <1>4. CASE Related
    <2>1. /\ get = "related" /\ get' = "held" /\ files = << >>
          /\ UNCHANGED <<op, reply, whole, buffer, files, served>>
          /\ (RelatedAnswer => IsRelated(served))
      BY <1>4 DEF Related, GetInv, InHand
    <2>2. doc' = <<served[1]>> /\ manifest' = served[1].stubs /\ Behind(1, unread', served)
      BY <1>4, RelatedKinds
    <2>3. Len(files) = 0 /\ 1 + 0 = 1
      BY <2>1
    <2>4. Behind(1 + Len(files), unread, served)'
      BY <2>1, <2>2, <2>3 DEF Behind
    <2>5. Multipart' /\ (RelatedAnswer => IsRelated(served))'
      BY <2>1 DEF GetInv, Stations, Multipart, RelatedAnswer, IsRelated
    <2> QED BY <2>1, <2>2, <2>3, <2>4, <2>5 DEF InHand
  <1>5. CASE ReadBody
    <2>1. get' = "done" /\ UNCHANGED <<op, reply, served>>
      BY <1>5 DEF ReadBody, End
    <2> QED BY <2>1 DEF InHand, GetInv, RelatedAnswer, IsRelated
  <1>6. CASE NextPart
    <2>1. /\ get = "held" /\ Multipart
          /\ UNCHANGED <<get, op, reply, whole, doc, manifest, served>>
      BY <1>6 DEF NextPart
    <2>2. /\ doc = <<served[1]>> /\ manifest = served[1].stubs
          /\ \A i \in 1 .. Len(files) : files[i] = FileOf(i)
          /\ (RelatedAnswer => IsRelated(served))
      BY <2>1 DEF GetInv, InHand
    <2>3. /\ Len(files') = Len(files) + 1 /\ Len(files) \in Nat
          /\ \A i \in 1 .. Len(files) : files'[i] = files[i]
          /\ files'[Len(files) + 1] = FileOf(Len(files) + 1)
          /\ Behind(1 + (Len(files) + 1), unread', served)
      <3>1. files \in Seq(Delivered)
        BY DEF GetInv, GetTypeOK
      <3> QED BY <1>6, <2>1, <3>1, NextPartKinds
    <2>4. \A i \in 1 .. Len(files') : files'[i] = FileOf(i)
      <3> SUFFICES ASSUME NEW i \in 1 .. Len(files') PROVE files'[i] = FileOf(i)
        OBVIOUS
      <3>1. i \in 1 .. Len(files) \/ i = Len(files) + 1
        BY <2>3
      <3> QED BY <2>2, <2>3, <3>1
    <2>5. (\A i \in 1 .. Len(files) : files[i] = FileOf(i))'
      BY <2>1, <2>4 DEF FileOf
    <2>6. Behind(1 + Len(files), unread, served)'
      BY <2>1, <2>3 DEF Behind
    <2>7. Multipart' /\ (RelatedAnswer => IsRelated(served))'
      BY <2>1, <2>2 DEF Multipart, RelatedAnswer, IsRelated
    <2> QED BY <2>1, <2>2, <2>5, <2>6, <2>7 DEF InHand
  <1> QED BY <1>1, <1>2, <1>3, <1>4, <1>5, <1>6, StepsOfGet

\* A file the caller has stays one the server has.
LEMMA FilesStoredStep ==
    ASSUME GetInv, Servable, get # "idle" => stored # None, GetNext, UNCHANGED stored
    PROVE  FilesStored'
  <1>1. CASE UNCHANGED files
    BY <1>1 DEF FilesStored, GetInv
  <1>2. CASE NextPart
    <2>1. get # "idle" /\ files \in Seq(Delivered)
      BY <1>2 DEF NextPart, GetInv, GetTypeOK
    <2> DEFINE k == Len(files) + 1
    <2>2. /\ Len(files') = k /\ Len(files) \in Nat
          /\ \A i \in 1 .. Len(files) : files'[i] = files[i]
          /\ files'[k].name \in DOMAIN stored.files
          /\ files'[k].content = stored.files[files'[k].name]
          /\ files'[k].size = stored.length[files'[k].name]
      BY <1>2, <2>1, NextPartKinds
    <2> SUFFICES ASSUME NEW i \in 1 .. Len(files')
                 PROVE  /\ stored # None /\ files'[i].name \in DOMAIN stored.files
                        /\ files'[i].content = stored.files[files'[i].name]
                        /\ files'[i].size = stored.length[files'[i].name]
      BY DEF FilesStored
    <2>3. i \in 1 .. Len(files) \/ i = k
      BY <2>2
    <2> QED BY <2>1, <2>2, <2>3 DEF FilesStored, GetInv
  <1> QED
    BY <1>1, <1>2, StepsOfGet, PassingLeaves DEF Serve, handVars, RevFromBody, Related, ReadBody, End

\* The caller comes to the end with all that was served, or with an error.
LEMMA GotAsServedStep ==
    ASSUME GetInv, GetNext
    PROVE  GotAsServed'
  <1>1. GetTypeOK /\ Stations /\ InHand
    BY DEF GetInv
  <1>2. CASE outcome' # "ok" \/ op' \in Heads
    BY <1>2 DEF GotAsServed
  <1>3. CASE ReadBody
    <2>1. /\ get = "held" /\ ~Multipart /\ outcome' = IF whole THEN "ok" ELSE "network"
          /\ UNCHANGED <<op, reply, served>>
      BY <1>3 DEF ReadBody, End
    <2>2. whole => doc' = served
      BY <1>3, ReadBodyKinds
    <2> QED BY <2>1, <2>2 DEF GotAsServed, Multipart
  <1>4. CASE NextPartEnds
    <2>1. /\ get = "held" /\ Multipart /\ unread = << >>
          /\ outcome' = IF whole THEN "ok" ELSE "network"
          /\ UNCHANGED <<op, reply, served, doc, files>>
      BY <1>4 DEF NextPartEnds, Fail, End
    <2>2. /\ doc = <<served[1]>> /\ Behind(1 + Len(files), unread, served)
          /\ \A i \in 1 .. Len(files) : files[i] = FileOf(i)
      BY <1>1, <2>1 DEF InHand
    <2>3. ASSUME whole PROVE files = [i \in 1 .. Len(served) - 1 |-> FileOf(i)]
      <3>1. files \in Seq(Delivered) /\ served \in Seq(Units) /\ Len(unread) = 0
        BY <1>1, <2>1 DEF GetTypeOK
      <3>2. Len(files) = Len(served) - 1
        BY <2>2, <2>3, <3>1 DEF Behind
      <3>3. DOMAIN files = 1 .. Len(files) /\ files = [i \in DOMAIN files |-> files[i]]
        BY <3>1
      <3> QED BY <2>2, <3>2, <3>3
    <2> QED BY <2>1, <2>2, <2>3 DEF GotAsServed, Multipart, FileOf
  <1>5. get # "done" => outcome # "ok"
    <2>1. outcome = None <=> get # "done"
      BY <1>1 DEF GetTypeOK
    <2> QED BY <2>1, NoneIsNoError, Zenon
  <1>6. outcome' = "ok" => op' \in Heads \/ ReadBody \/ NextPartEnds
    <2>1. CASE \E o \in Ops : Call(o)
      BY <1>5, <2>1 DEF Call
    <2>2. CASE \E header \in Headers : Serve(header)
      BY <1>5, <2>2 DEF Serve
    <2>3. CASE NoAnswer
      BY <2>3 DEF NoAnswer
    <2>4. CASE StatusError \/ TypeUnusable \/ RevUnknown \/ RelatedBroken \/ DecodeFails
               \/ NextPartFails \/ CloseEarly
      BY <2>4 DEF StatusError, TypeUnusable, RevUnknown, RelatedBroken, DecodeFails,
                  NextPartFails, CloseEarly, Fail, End
    <2>5. CASE StatusOK \/ TypeKnown \/ Decode
      BY <1>5, <2>5 DEF StatusOK, TypeKnown, Decode, Proceed
    <2>6. CASE RevFromETag
      BY <1>5, <2>6 DEF RevFromETag, Heads
    <2>7. CASE RevFromBody \/ Related \/ NextPart
      BY <1>5, <2>7 DEF RevFromBody, Related, NextPart
    <2> QED BY <2>1, <2>2, <2>3, <2>4, <2>5, <2>6, <2>7 DEF GetNext
  <1> QED BY <1>2, <1>3, <1>4, <1>6

\* The types of what a passing step leaves, of a failing one and of the others.
LEMMA GetTypeStep ==
    ASSUME GetInv, Servable, get # "idle" => stored # None, GetNext, UNCHANGED stored
    PROVE  GetTypeOK'
  <1>1. GetTypeOK /\ Stations
    BY DEF GetInv
  <1> DEFINE Sequences == /\ unread \in Seq(Units) /\ served \in Seq(Units) /\ whole \in BOOLEAN
                          /\ buffer \in Seq(Units) /\ doc \in Seq(Units) /\ files \in Seq(Delivered)
                          /\ \A n \in DOMAIN manifest : n \in Names /\ manifest[n] \in Lengths
             Ends == /\ get \in {"idle", "wait", "status", "type", "rev", "related", "decode", "held", "done"}
                     /\ op \in Ops \cup {None} /\ reply \in Headers \cup {None}
                     /\ body \in {"none", "open", "closed"}
                     /\ body = "none" <=> get \in {"idle", "wait"} \/ (reply = None /\ get = "done")
                     /\ rev \in {None, "etag", "body"}
                     /\ outcome \in Outcomes \cup {None}
                     /\ outcome = None <=> get # "done"
  <1>2. Sequences /\ Ends
    BY <1>1 DEF GetTypeOK
  <1>3. Sequences'
    <2>1. CASE Passing
      BY <1>2, <2>1, PassingLeaves
    <2>2. ASSUME NEW header \in Headers, Serve(header) PROVE Sequences'
      <3>1. get # "idle" /\ UNCHANGED <<buffer, doc, files, manifest>>
        BY <2>2 DEF Serve, handVars
      <3> QED BY <1>2, <2>2, <3>1, ServeKinds
    <2>3. CASE RevFromBody
      <3>1. UNCHANGED <<whole, served, doc, files, manifest>>
        BY <2>3 DEF RevFromBody
      <3> QED BY <1>1, <1>2, <2>3, <3>1, RevFromBodyKinds
    <2>4. CASE Related
      <3>1. UNCHANGED <<whole, served, buffer, files>>
        BY <2>4 DEF Related
      <3>2. doc' = <<served[1]>> /\ served[1] \in Units
        BY <2>4, RelatedKinds
      <3>3. doc' \in Seq(Units)
        BY <3>2
      <3> QED BY <1>2, <2>4, <3>1, <3>3, RelatedKinds
    <2>5. CASE ReadBody
      <3>1. UNCHANGED <<whole, served, files, manifest>> /\ unread' = << >> /\ buffer' = << >>
        BY <2>5 DEF ReadBody, End
      <3>2. << >> \in Seq(Units)
        OBVIOUS
      <3> QED BY <1>2, <2>5, <3>1, <3>2, ReadBodyKinds
    <2>6. CASE NextPart
      <3>1. get # "idle" /\ UNCHANGED <<whole, served, buffer, doc, manifest>>
        BY <2>6 DEF NextPart
      <3> QED BY <1>2, <2>6, <3>1, NextPartKinds
    <2> QED BY <2>1, <2>2, <2>3, <2>4, <2>5, <2>6, StepsOfGet
  <1>4. Ends'
    <2> HIDE DEF Sequences
    <2> USE <1>2
    <2>0. None \notin Headers /\ None \notin {"ok", "status", "network", "unusable", "closed"}
      BY NoneIsNoReply DEF Outcomes
    <2> USE DEF Outcomes
    <2>1. CASE \E o \in Ops : Call(o)
      BY <2>1 DEF Call, handVars
    <2>2. CASE \E header \in Headers : Serve(header)
      BY <2>2 DEF Serve, handVars
    <2>3. CASE NoAnswer
      BY <1>1, <2>0, <2>3 DEF NoAnswer, handVars, Stations
    <2>4. CASE StatusError \/ TypeUnusable \/ RevUnknown \/ RelatedBroken \/ DecodeFails
      BY <1>1, <2>0, <2>4 DEF StatusError, TypeUnusable, RevUnknown, RelatedBroken,
               DecodeFails, Fail, End, Stations
    <2>5. CASE StatusOK \/ TypeKnown \/ Decode
      BY <2>5 DEF StatusOK, TypeKnown, Decode, Proceed, handVars
    <2>6. CASE RevFromETag
      BY <1>1, <2>0, <2>6 DEF RevFromETag, Stations
    <2>7. CASE RevFromBody \/ Related
      BY <2>7 DEF RevFromBody, Related
    <2>8. CASE ReadBody \/ NextPartFails \/ NextPartEnds \/ CloseEarly
      BY <1>1, <2>0, <2>8 DEF ReadBody, NextPartFails, NextPartEnds, CloseEarly,
               Fail, End, Stations
    <2>9. CASE NextPart
      BY <2>9 DEF NextPart
    <2> QED BY <2>1, <2>2, <2>3, <2>4, <2>5, <2>6, <2>7, <2>8, <2>9 DEF GetNext
  <1> QED BY <1>3, <1>4 DEF GetTypeOK

\* Every step of a Get.
LEMMA GetInvStep ==
    ASSUME GetInv, Servable, get # "idle" => stored # None, GetNext, UNCHANGED stored
    PROVE  GetInv'
  <1>1. Stations'
    BY StationsStep DEF GetInv
  <1> QED BY <1>1, GetTypeStep, InHandStep, FilesStoredStep, GotAsServedStep DEF GetInv

\* A Put changes what is stored only when there is no Get that looks at it.
LEMMA GetInvKept ==
    ASSUME GetInv, PutInv, OneAtATime, [Next]_vars, UNCHANGED getVars
    PROVE  GetInv'
  <1>1. UNCHANGED <<get, op, reply, unread, whole, body, rev, buffer, manifest, doc, files,
                    outcome, served>>
    BY DEF getVars, handVars
  <1>2. GetTypeOK' /\ Stations' /\ GotAsServed'
    BY <1>1 DEF GetInv, GetTypeOK, Stations, GotAsServed, Multipart
  <1>3. CASE UNCHANGED stored
    <2>1. InHand'
      BY <1>1, <1>3 DEF GetInv, InHand, Behind, RelatedAnswer, IsRelated, Multipart, FileOf
    <2>2. FilesStored'
      BY <1>1, <1>3 DEF GetInv, FilesStored
    <2> QED BY <1>2, <2>1, <2>2 DEF GetInv
  <1>4. CASE get = "idle"
    <2>1. reply = None /\ buffer = << >> /\ doc = << >> /\ files = << >>
      BY <1>4 DEF GetInv, Stations, InHand
    <2>2. InHand'
      BY <1>1, <1>4, <2>1 DEF InHand, RelatedAnswer
    <2>3. FilesStored'
      BY <1>1, <2>1 DEF FilesStored
    <2> QED BY <1>2, <2>2, <2>3 DEF GetInv
  <1> QED BY <1>3, <1>4, StoredChanges DEF OneAtATime

-----------------------------------------------------------------------------
(* Put and Get together.                                                    *)

\* The invariant of the system.
DocInv == PutInv /\ Faithful /\ OneAtATime /\ GetInv

\* It holds at first.
LEMMA DocInvInit == Init => DocInv
  <1> SUFFICES ASSUME Init PROVE DocInv
    OBVIOUS
  <1>1. PutInv
    BY PutInvInit DEF Init
  <1>2. OneAtATime
    BY DEF Init, GetInit, OneAtATime
  <1>3. Faithful
    <2>1. original = callers /\ given = << >> /\ DOMAIN << >> = {} /\ stored = None
      BY DEF Init, PutInit
    <2>2. callers \in AttMaps /\ IsFiniteSet(DOMAIN callers)
      BY <1>1 DEF PutInv, PutTypeOK, Kept
    <2> QED BY <2>1, <2>2 DEF Faithful
  <1>4. GetInv
    <2>1. GetInit /\ << >> \in Seq(Units) /\ << >> \in Seq(Delivered) /\ DOMAIN << >> = {}
          /\ Len(<< >>) = 0
      BY DEF Init
    <2>2. GetTypeOK
      BY <2>1 DEF GetInit, GetTypeOK
    <2>3. Stations /\ InHand /\ FilesStored
      BY <2>1 DEF GetInit, Stations, InHand, FilesStored, RelatedAnswer
    <2>4. GotAsServed
      BY <2>1, NoneIsNoError DEF GetInit, GotAsServed
    <2> QED BY <2>2, <2>3, <2>4 DEF GetInv
  <1> QED BY <1>1, <1>2, <1>3, <1>4 DEF DocInv

\* It is kept.
LEMMA DocInvStep == DocInv /\ [Next]_vars => DocInv'
  <1> SUFFICES ASSUME DocInv, [Next]_vars PROVE DocInv'
    OBVIOUS
  <1>1. PutInv' /\ Faithful' /\ OneAtATime'
    BY StepsOfPut, PutInvStep, FaithfulStep, OneAtATimeStep DEF DocInv
  <1>2. CASE Getting
    <2>1. Servable
      <3>1. StoredOK
        BY DEF DocInv, PutInv, PutTypeOK
      <3>2. ASSUME stored # None PROVE IsFiniteSet(DOMAIN stored.files)
        <4>1. DOMAIN stored.files \in SUBSET DOMAIN original /\ IsFiniteSet(DOMAIN original)
          BY <3>2 DEF DocInv, Faithful
        <4> QED BY <4>1, FS_Subset
      <3> QED BY <3>1, <3>2 DEF Servable
    <2>2. GetInv'
      BY <1>2, <2>1, GetInvStep DEF Getting, DocInv, OneAtATime
    <2> QED BY <1>1, <2>2 DEF DocInv
  <1>3. CASE UNCHANGED getVars
    BY <1>1, <1>3, GetInvKept DEF DocInv
  <1> QED BY <1>2, <1>3 DEF Next, Putting, vars

\* The invariant of the system holds always.
LEMMA DocInvariant == Spec => []DocInv
  BY DocInvInit, DocInvStep, PTL DEF Spec

\* For any attachments, documents and answers.
THEOREM TypeCorrect == Spec => []TypeOK
  <1>1. DocInv => TypeOK
    BY DEF DocInv, PutInv, GetInv, Faithful, TypeOK
  <1> QED BY <1>1, DocInvariant, PTL

\* A caller that came to the end of what it was given has all of what was served, in
\* order, whatever of it was read for the revision and wherever it might have broken off.
THEOREM NothingLostOnTheWay == Spec => []GotAsServed
  <1>1. DocInv => GotAsServed
    BY DEF DocInv, GetInv
  <1> QED BY <1>1, DocInvariant, PTL

\* An attachment comes back as it was given: through measuring, stubs, the order of the
\* parts, lost answers and any Puts.
THEOREM ComesBack == Spec => []RoundTrip
  <1>1. ASSUME DocInv PROVE RoundTrip
    <2>1. files \in Seq(Delivered) /\ DOMAIN files = 1 .. Len(files)
      BY <1>1 DEF DocInv, GetInv, GetTypeOK
    <2>2. \A n \in DOMAIN original : Whole(original)[n] = [of |-> n, len |-> original[n].len]
      BY DEF Whole
    <2>3. ASSUME NEW i \in 1 .. Len(files), NEW n, n = files[i].name
          PROVE  /\ n \in DOMAIN original /\ files[i].content = Whole(original)[n]
                 /\ files[i].size = files[i].content.len
      <3>1. /\ n \in DOMAIN stored.files /\ stored # None
            /\ files[i].content = stored.files[n] /\ files[i].size = stored.length[n]
        BY <1>1, <2>3 DEF DocInv, GetInv, FilesStored
      <3>2. /\ n \in DOMAIN original /\ files[i].content = [of |-> n, len |-> original[n].len]
            /\ files[i].size = original[n].len
        BY <1>1, <3>1 DEF DocInv, Faithful
      <3>3. [of |-> n, len |-> original[n].len].len = original[n].len
        OBVIOUS
      <3> QED BY <2>2, <3>2, <3>3
    <2> QED BY <2>1, <2>3 DEF RoundTrip
  <1> QED BY <1>1, DocInvariant, PTL
=============================================================================
