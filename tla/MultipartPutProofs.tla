-------------------------- MODULE MultipartPutProofs --------------------------
(***************************************************************************)
(* What every step of a Put keeps, for any attachments and members.        *)
(* PutInv follows the attachments from the caller's document to their      *)
(* parts: measuring and copying keep their lengths (Kept), the goroutines  *)
(* take turns (Turns), the copy of the document is complete when attJSON   *)
(* ends (Copied), and the file has what was copied (Written).              *)
(***************************************************************************)
EXTENDS MultipartPut, FiniteSetTheorems, FunctionTheorems, SequenceTheorems, TLAPS

\* A step of a Put, or one that leaves the Put alone.
PutStep == PutNext \/ UNCHANGED <<putVars, stored>>

-----------------------------------------------------------------------------
(* The order of the names.                                                  *)

\* No two names of a finite set have the same place, and no place is empty.
LEMMA PlaceOfEach ==
    ASSUME NEW S, S \subseteq Nat, IsFiniteSet(S)
    PROVE  [n \in S |-> Place(n, S)] \in Bijection(S, 1 .. Cardinality(S))
  <1> DEFINE Upto(k) == {x \in S : x <= k}
             place == [n \in S |-> Place(n, S)]
  <1>0. Cardinality(S) \in Nat
    BY FS_CardinalityType
  <1>1. ASSUME NEW n \in S
        PROVE  IsFiniteSet(Upto(n)) /\ Cardinality(Upto(n)) \in 1 .. Cardinality(S)
    <2>1. Upto(n) \in SUBSET S
      OBVIOUS
    <2>2. IsFiniteSet(Upto(n)) /\ Cardinality(Upto(n)) <= Cardinality(S)
      BY <2>1, FS_Subset
    <2>3. Cardinality(Upto(n)) \in Nat
      BY <2>2, FS_CardinalityType
    <2>4. Upto(n) # {}
      BY <1>1
    <2>5. Cardinality(Upto(n)) # 0
      BY <2>2, <2>4, FS_EmptySet
    <2> QED BY <1>0, <2>2, <2>3, <2>5
  <1>2. ASSUME NEW m \in S, NEW n \in S, m < n
        PROVE  Cardinality(Upto(m)) # Cardinality(Upto(n))
    <2>0. m \in Nat /\ n \in Nat /\ \A x \in S : x \in Nat
      OBVIOUS
    <2>1. ASSUME NEW x \in Upto(m) PROVE x \in Upto(n)
      BY <1>2, <2>0
    <2>2. n \in Upto(n)
      BY <2>0
    <2>3. n \notin Upto(m)
      BY <1>2, <2>0
    <2>4. Upto(m) \in SUBSET Upto(n) /\ Upto(m) # Upto(n)
      BY <2>1, <2>2, <2>3
    <2> QED BY <1>1, <2>4, FS_Subset
  <1>3. place \in [S -> 1 .. Cardinality(S)]
    BY <1>1 DEF Place
  <1>4. ASSUME NEW m \in S, NEW n \in S, place[m] = place[n] PROVE m = n
    <2>1. Cardinality(Upto(m)) = Cardinality(Upto(n))
      BY <1>4 DEF Place
    <2>2. m \in Nat /\ n \in Nat
      OBVIOUS
    <2> QED BY <1>2, <2>1, <2>2
  <1>5. place \in Injection(S, 1 .. Cardinality(S))
    BY <1>3, <1>4, Fun_IsInj
  <1>6. IsFiniteSet(1 .. Cardinality(S)) /\ Cardinality(1 .. Cardinality(S)) = Cardinality(S)
    BY <1>0, FS_Interval
  <1>7. place \in Surjection(S, 1 .. Cardinality(S))
    BY <1>5, <1>6, FS_Injection
  <1> QED BY <1>5, <1>7, Fun_IsBij

\* sort.Strings leaves out no name, adds none and has each once.
LEMMA SortedOnto ==
    ASSUME NEW S, S \subseteq Nat, IsFiniteSet(S)
    PROVE  /\ Cardinality(S) \in Nat
           /\ DOMAIN Sorted(S) = 1 .. Cardinality(S)
           /\ \A i \in 1 .. Cardinality(S) : Sorted(S)[i] \in S
           /\ \A n \in S : \E i \in 1 .. Cardinality(S) : Sorted(S)[i] = n
  <1> DEFINE place == [n \in S |-> Place(n, S)]
  <1>1. /\ place \in [S -> 1 .. Cardinality(S)]
        /\ \A m, n \in S : place[m] = place[n] => m = n
        /\ \A i \in 1 .. Cardinality(S) : \E n \in S : place[n] = i
    <2>1. place \in Bijection(S, 1 .. Cardinality(S))
      BY PlaceOfEach
    <2> HIDE DEF place
    <2> QED BY <2>1, Fun_BijectionProperties
  <1>2. ASSUME NEW i \in 1 .. Cardinality(S)
        PROVE  Sorted(S)[i] \in S /\ place[Sorted(S)[i]] = i
    <2>1. \E n \in S : Place(n, S) = i
      BY <1>1
    <2>2. Sorted(S)[i] = CHOOSE n \in S : Place(n, S) = i
      BY DEF Sorted
    <2> QED BY <2>1, <2>2
  <1>3. ASSUME NEW n \in S PROVE Sorted(S)[place[n]] = n
    BY <1>1, <1>2
  <1>4. ASSUME NEW n \in S PROVE \E i \in 1 .. Cardinality(S) : Sorted(S)[i] = n
    BY <1>1, <1>3
  <1>5. DOMAIN Sorted(S) = 1 .. Cardinality(S)
    BY DEF Sorted
  <1> QED BY <1>2, <1>4, <1>5, FS_CardinalityType

-----------------------------------------------------------------------------
(* The invariant.                                                           *)

\* The attachments are those that were taken: no step changes a length, and a size
\* is 0 or the length.
Kept ==
    /\ IsFiniteSet(DOMAIN callers) /\ IsFiniteSet(DOMAIN given)
    /\ DOMAIN atts = DOMAIN given
    /\ \A n \in DOMAIN callers : callers[n].size \in {0, callers[n].len}
    /\ \A n \in DOMAIN atts :
         /\ atts[n].len = given[n].len
         /\ atts[n].size \in {0, atts[n].len}
    /\ \A n \in DOMAIN stubs : stubs[n] = given[n].len

\* The stubber measures while createMultipart waits for its document, and Put waits
\* for createMultipart.
Turns ==
    /\ multi \in {"off", "open"} =>
         /\ stubber = "off" /\ attEnd = None /\ multiErr = None
         /\ passed = 0 /\ fetched = 0 /\ jsonPart = << >> /\ parts = << >>
    /\ multi = "doc" => parts = << >>
    /\ stubber = "measure" => put = "build" /\ multi = "doc"
    /\ put \in {"finish", "send"} => multi = "done"
    /\ put = "send" => multiErr = None

\* The stubber goes on without an error, and hands on a document that could be
\* marshaled, with a stub for every attachment.
Copied ==
    /\ passed <= fetched
    /\ fetched > 0 \/ stubber \in {"buffered", "rest"} => encodable
    /\ stubber \in {"off", "measure", "copy", "buffered", "rest"} => stubErr = None
    /\ stubber \in {"off", "measure"} => passed = 0 /\ fetched = 0
    /\ stubber \in {"copy", "buffered", "rest", "close"} => DOMAIN stubs = DOMAIN atts
    /\ stubber = "rest" => passed = fetched
    /\ stubber \in {"off", "measure", "copy"} => \A i \in 1 .. passed : members[i] # Atts
    /\ stubber = "close" /\ stubErr = None => passed = Len(members)
    /\ stubber # "done" => attEnd = None
    /\ attEnd = "eof" => DOMAIN stubs = DOMAIN atts /\ passed = Len(members)

\* The i-th member may be written as c: as it is, or in front of _attachments
\* without its escapes.
Spelled(c, i) ==
    \/ c = members[i]
    \/ /\ members[i] \in Quoted /\ c \in {Other, Invalid}
       /\ \E j \in i + 1 .. Len(members) : members[j] = Atts

\* The first part is the whole document with its stubs.
DocumentWritten ==
    encodable /\ DOMAIN stubs = DOMAIN given /\ CopyOf(jsonPart, members)

\* The file has the members that were handed on, then the contents in their order;
\* a content that has its part is closed.
Written ==
    /\ multi = "doc" =>
         /\ multiErr = None
         /\ Len(jsonPart) = passed /\ \A i \in 1 .. passed : Spelled(jsonPart[i], i)
    /\ multi = "files" => multiErr = None /\ DocumentWritten
    /\ multi \in {"close", "done"} /\ multiErr = None =>
         DocumentWritten /\ Len(parts) = Cardinality(DOMAIN given)
    /\ \A i \in DOMAIN parts :
         /\ parts[i].of = Sorted(DOMAIN given)[i]
         /\ parts[i].len = given[parts[i].of].len
         /\ atts[parts[i].of].open => atts[parts[i].of].buffered

\* A Put that succeeded is over, and the server has what was given.
Successful ==
    result = "ok" =>
        /\ put = "idle" /\ multi = "done" /\ multiErr = None
        /\ stored = [members |-> jsonPart, files |-> Whole(given), length |-> LengthsOf(given)]

PutInv == PutTypeOK /\ Kept /\ Turns /\ Copied /\ Written /\ Successful

-----------------------------------------------------------------------------
(* The data.                                                                *)

\* The members of a document are a sequence, in any of their orders.
LEMMA OrderKinds ==
    ASSUME NEW m \in Orders
    PROVE  /\ m \in Seq(0 .. Fields) /\ Len(m) = Fields + 1
           /\ \A i \in 1 .. Fields + 1 : m[i] \in 0 .. Fields
  <1>1. PICK k \in 1 .. Fields + 1 :
          m = [i \in 1 .. Fields + 1 |-> IF i < k THEN i ELSE IF i = k THEN Atts ELSE i - 1]
    BY DEF Orders
  <1>2. ASSUME NEW i \in 1 .. Fields + 1 PROVE m[i] \in 0 .. Fields
    BY <1>1, NamesAssumption DEF Atts
  <1>3. m \in [1 .. Fields + 1 -> 0 .. Fields]
    BY <1>1, <1>2
  <1> QED BY <1>2, <1>3, NamesAssumption

\* A map of attachments has names and attachments, and the empty map is one.
LEMMA MapKinds ==
    /\ \A m \in AttMaps :
         /\ DOMAIN m \subseteq Names /\ m \in [DOMAIN m -> Attachments]
         /\ \A n \in DOMAIN m : m[n] \in Attachments /\ n \in Nat
    /\ \A m : \A names \in SUBSET Names : m \in [names -> Attachments] => m \in AttMaps
    /\ << >> \in AttMaps /\ DOMAIN << >> = {} /\ IsFiniteSet({})
  <1>1. DOMAIN << >> = {} /\ << >> \in [{} -> Attachments]
    OBVIOUS
  <1> QED BY <1>1, NamesAssumption, FS_EmptySet DEF AttMaps

\* Measuring an attachment finds its size and keeps the rest.
LEMMA MeasuredKinds ==
    ASSUME NEW a \in Attachments, a.size \in {0, a.len}
    PROVE  /\ Measured(a) \in Attachments
           /\ Measured(a).size = a.len /\ Measured(a).len = a.len
  <1>0. /\ a.len \in Lengths /\ a.size \in Nat /\ a.len \in Nat
        /\ \A k \in Nat : ~(k > 0) => k = 0
    BY NamesAssumption DEF Attachments, Lengths
  <1>1. CASE a.size > 0
    BY <1>0, <1>1 DEF Measured
  <1>2. CASE ~(a.size > 0)
    <2>1. Measured(a) = [a EXCEPT !.size = a.len, !.buffered = ~a.lener]
      BY <1>2 DEF Measured
    <2>2. (~a.lener) \in BOOLEAN
      OBVIOUS
    <2> QED BY <1>0, <2>1, <2>2 DEF Attachments
  <1> QED BY <1>1, <1>2

\* The next part is of an attachment of the document.
LEMMA NextFileKinds ==
    ASSUME PutTypeOK, Kept, Len(parts) < Cardinality(DOMAIN atts)
    PROVE  /\ NextFile \in DOMAIN atts
           /\ NextFile = Sorted(DOMAIN given)[Len(parts) + 1]
           /\ Cardinality(DOMAIN atts) \in Nat
  <1>1. DOMAIN atts \subseteq Nat /\ IsFiniteSet(DOMAIN atts)
    BY MapKinds, NamesAssumption DEF PutTypeOK, Kept
  <1>2. /\ Cardinality(DOMAIN atts) \in Nat
        /\ \A i \in 1 .. Cardinality(DOMAIN atts) : Sorted(DOMAIN atts)[i] \in DOMAIN atts
    BY <1>1, SortedOnto
  <1>3. Len(parts) + 1 \in 1 .. Cardinality(DOMAIN atts)
    BY <1>2 DEF PutTypeOK
  <1> QED BY <1>2, <1>3 DEF Kept, NextFile, PartOrder

-----------------------------------------------------------------------------
(* The steps.                                                               *)

\* Who uses the attachments: the caller's extraction, the stubber that measures and
\* createMultipart that copies.
LEMMA AttachmentsUsed ==
    ASSUME PutStep
    PROVE  \/ Extract
           \/ \E n \in Names : Measure(n) /\ UNCHANGED <<callers, given>>
           \/ CopyFile /\ UNCHANGED <<callers, given, stubs>>
           \/ UNCHANGED <<callers, given, atts, stubs>>
  <1>1. CASE NoTempFile \/ Built \/ FileReady \/ Request
    BY <1>1 DEF NoTempFile, Built, FileReady, Request, LengthDiffers, StoreDoc, NotStored,
                Become, stubVars, copyVars
  <1>2. CASE Stubber
    BY <1>2 DEF Stubber, callVars, copyVars, MeasureFails, AllMeasured, Fetch, FetchFails,
                CopyMember, CopyBuffered, CopyRest, HandOn, BufferCopied, DocumentEnds,
                CloseAttJSON
  <1>3. CASE CreateMultipart
    BY <1>3 DEF CreateMultipart, callVars, copyVars, OpenDoc, DocRead, CopyFileFails,
                FilesCopied, CloseIn
  <1>4. CASE UNCHANGED <<putVars, stored>>
    BY <1>4 DEF putVars, callVars, stubVars, copyVars
  <1> QED BY <1>1, <1>2, <1>3, <1>4 DEF PutStep, PutNext

\* No attachment is lost and no length changed.
LEMMA KeptStep == PutTypeOK /\ Kept /\ PutStep => Kept'
  <1> SUFFICES ASSUME PutTypeOK, Kept, PutStep PROVE Kept'
    OBVIOUS
  <1> USE DEF Kept
  <1>0. callers \in AttMaps /\ atts \in AttMaps /\ given \in AttMaps
    BY DEF PutTypeOK
  <1>1. CASE Extract
    <2>1. atts' = callers /\ given' = callers /\ callers' = << >> /\ stubs' = << >>
      BY <1>1 DEF Extract
    <2> QED BY <2>1, MapKinds
  <1>2. ASSUME NEW n \in Names, Measure(n), UNCHANGED <<callers, given>> PROVE Kept'
    <2>1. /\ n \in DOMAIN atts /\ atts[n] \in Attachments /\ atts[n].size \in {0, atts[n].len}
          /\ atts' = [atts EXCEPT ![n] = Measured(atts[n])]
          /\ stubs' = [m \in DOMAIN stubs \cup {n} |->
                         IF m = n THEN Measured(atts[n]).size ELSE stubs[m]]
      BY <1>0, <1>2, MapKinds DEF Measure
    <2>2. /\ Measured(atts[n]).size = given[n].len
          /\ Measured(atts[n]).len = given[n].len
      BY <2>1, MeasuredKinds
    <2>3. DOMAIN atts' = DOMAIN atts
      BY <2>1
    <2>4. ASSUME NEW m \in DOMAIN atts
          PROVE  atts'[m].len = given[m].len /\ atts'[m].size \in {0, atts'[m].len}
      BY <2>1, <2>2
    <2>5. ASSUME NEW m \in DOMAIN stubs' PROVE stubs'[m] = given[m].len
      BY <2>1, <2>2
    <2> QED BY <1>2, <2>3, <2>4, <2>5
  <1>3. CASE CopyFile /\ UNCHANGED <<callers, given, stubs>>
    <2>1. atts' = [atts EXCEPT ![NextFile].open = @ /\ atts[NextFile].buffered]
      BY <1>3 DEF CopyFile
    <2>2. DOMAIN atts' = DOMAIN atts
      BY <2>1
    <2>3. ASSUME NEW m \in DOMAIN atts
          PROVE  atts'[m].len = atts[m].len /\ atts'[m].size = atts[m].size
      <3>1. atts[m] \in Attachments
        BY <1>0, MapKinds
      <3> QED BY <2>1, <3>1 DEF Attachments
    <2> QED BY <1>3, <2>2, <2>3
  <1>4. CASE UNCHANGED <<callers, given, atts, stubs>>
    BY <1>4
  <1> QED BY <1>1, <1>2, <1>3, <1>4, AttachmentsUsed

\* The parts and the stubs pair: the server stores what was given.
LEMMA PairedIsGiven ==
    ASSUME PutTypeOK, Kept, Written, DocumentWritten, Len(parts) = Cardinality(DOMAIN given)
    PROVE  Paired = [members |-> jsonPart, files |-> Whole(given), length |-> LengthsOf(given)]
  <1>0. DOMAIN given \subseteq Nat /\ IsFiniteSet(DOMAIN given) /\ DOMAIN stubs = DOMAIN given
    BY MapKinds, NamesAssumption DEF PutTypeOK, Kept, DocumentWritten
  <1> DEFINE order == Sorted(DOMAIN given)
             at(n) == CHOOSE i \in DOMAIN order : order[i] = n
  <1>1. /\ DOMAIN order = DOMAIN parts
        /\ \A n \in DOMAIN given : \E i \in DOMAIN order : order[i] = n
    BY <1>0, SortedOnto DEF PutTypeOK
  <1>2. ASSUME NEW n \in DOMAIN given
        PROVE  parts[at(n)] = [of |-> n, len |-> given[n].len]
    <2>1. at(n) \in DOMAIN parts /\ order[at(n)] = n
      BY <1>1
    <2>2. parts[at(n)].of = n /\ parts[at(n)].len = given[n].len
      BY <2>1 DEF Written
    <2>3. parts[at(n)] \in Contents
      BY <2>1 DEF PutTypeOK
    <2> HIDE DEF at
    <2> QED BY <2>2, <2>3 DEF Contents
  <1>3. [n \in DOMAIN stubs |-> parts[at(n)]] = Whole(given)
    BY <1>0, <1>2 DEF Whole
  <1>4. stubs = LengthsOf(given)
    BY <1>0 DEF LengthsOf, PutTypeOK, Kept
  <1>5. Paired = [members |-> jsonPart, files |-> [n \in DOMAIN stubs |-> parts[at(n)]],
                  length |-> stubs]
    BY <1>0 DEF Paired
  <1> QED BY <1>3, <1>4, <1>5

\* What a request that arrives stores.
LEMMA StoreDocStores ==
    ASSUME PutInv, StoreDoc
    PROVE  /\ stored' = [members |-> jsonPart, files |-> Whole(given),
                         length |-> LengthsOf(given)]
           /\ jsonPart \in [1 .. Fields + 1 -> 0 .. Other]
  <1>1. put = "send" /\ multi = "done" /\ multiErr = None
    BY DEF StoreDoc, PutInv, Turns
  <1>2. DocumentWritten /\ Len(parts) = Cardinality(DOMAIN given)
    BY <1>1 DEF PutInv, Written
  <1>3. Len(jsonPart) = Fields + 1
    BY <1>2, OrderKinds DEF DocumentWritten, CopyOf, PutInv, PutTypeOK
  <1>4. jsonPart \in Seq(0 .. Invalid) /\ \A i \in DOMAIN jsonPart : jsonPart[i] # Invalid
    BY DEF PutInv, PutTypeOK, StoreDoc
  <1>5. jsonPart \in [1 .. Fields + 1 -> 0 .. Other]
    BY <1>3, <1>4, NamesAssumption DEF Other, Invalid
  <1> QED BY <1>2, <1>5, PairedIsGiven DEF StoreDoc, PutInv

\* A member may be handed on as it is; by CopyMember without its escapes, and then
\* _attachments is still to come.
LEMMA Handed ==
    ASSUME PutTypeOK, Copied, CopyMember \/ CopyBuffered \/ CopyRest
    PROVE  /\ passed < Len(members)
           /\ \E m \in 0 .. Invalid : HandOn(m) /\ Spelled(m, passed + 1)
  <1>1. /\ members \in Orders /\ Len(members) = Fields + 1 /\ Fields \in Nat
        /\ passed \in Nat /\ fetched \in 0 .. Len(members)
    BY OrderKinds, NamesAssumption DEF PutTypeOK
  <1>2. passed < Len(members)
    BY <1>1 DEF CopyMember, CopyBuffered, CopyRest
  <1>3. members[passed + 1] \in 0 .. Invalid
    BY <1>1, <1>2, OrderKinds DEF Invalid
  <1>4. CASE HandOn(members[passed + 1])
    BY <1>2, <1>3, <1>4 DEF Spelled
  <1>5. ASSUME stubber = "copy", members[passed + 1] \in Quoted,
               NEW m \in {Other, Invalid}, HandOn(m)
        PROVE  \E c \in 0 .. Invalid : HandOn(c) /\ Spelled(c, passed + 1)
    <2>1. PICK k \in 1 .. Fields + 1 :
            members = [i \in 1 .. Fields + 1 |->
                         IF i < k THEN i ELSE IF i = k THEN Atts ELSE i - 1]
      BY <1>1 DEF Orders
    <2>2. members[k] = Atts
      BY <2>1
    <2>3. k # passed + 1
      BY <1>5, <2>2, NamesAssumption DEF Atts
    <2>4. ~(k \in 1 .. passed)
      BY <1>5, <2>2 DEF Copied
    <2>5. k \in passed + 1 + 1 .. Len(members)
      BY <1>1, <2>3, <2>4
    <2>6. m \in 0 .. Invalid
      BY <1>1 DEF Other, Invalid
    <2> QED BY <1>5, <2>2, <2>5, <2>6 DEF Spelled
  <1>6. CASE CopyMember
    <2>1. PICK m \in Unescaped(members[passed + 1]) : HandOn(m)
      BY <1>6 DEF CopyMember
    <2> QED BY <1>2, <1>4, <1>5, <1>6, <2>1 DEF CopyMember, Unescaped
  <1> QED BY <1>2, <1>4, <1>6 DEF CopyBuffered, CopyRest

\* A member that is handed on goes into the file, or ends the writing.
LEMMA HandedOn ==
    ASSUME PutTypeOK, Copied, Written, CopyMember \/ CopyBuffered \/ CopyRest
    PROVE  /\ multi = "doc" /\ passed' = passed + 1 /\ passed' \in 0 .. Len(members)
           /\ jsonPart' \in Seq(0 .. Invalid) /\ Len(jsonPart') <= Len(members)
           /\ \/ /\ multi' = "doc" /\ multiErr' = multiErr /\ Len(jsonPart') = passed'
                 /\ \A i \in 1 .. passed' : Spelled(jsonPart'[i], i)
              \/ /\ multi' = "close" /\ multiErr' = "file" /\ jsonPart' = jsonPart
           /\ UNCHANGED <<atts, stubs, stubErr, attEnd, inClosed, parts>>
  <1>0. PICK m \in 0 .. Invalid : HandOn(m) /\ Spelled(m, passed + 1) /\ passed < Len(members)
    BY Handed
  <1>1. passed \in Nat /\ Len(members) \in Nat /\ jsonPart \in Seq(0 .. Invalid)
    BY OrderKinds, NamesAssumption DEF PutTypeOK
  <1>2. multi = "doc" /\ passed' = passed + 1
    BY <1>0 DEF HandOn
  <1>3. Len(jsonPart) = passed /\ \A i \in 1 .. passed : Spelled(jsonPart[i], i)
    BY <1>2 DEF Written
  <1>4. CASE jsonPart' = Append(jsonPart, m)
    <2>1. jsonPart' \in Seq(0 .. Invalid) /\ Len(jsonPart') = passed + 1
      BY <1>1, <1>3, <1>4
    <2>2. ASSUME NEW i \in 1 .. passed + 1 PROVE Spelled(jsonPart'[i], i)
      <3>1. CASE i = passed + 1
        BY <1>0, <1>1, <1>3, <1>4, <3>1
      <3>2. CASE i # passed + 1
        <4>1. i \in 1 .. passed /\ jsonPart'[i] = jsonPart[i]
          BY <1>1, <1>3, <1>4, <2>2, <3>2
        <4> QED BY <1>3, <4>1
      <3> QED BY <3>1, <3>2
    <2>3. passed + 1 <= Len(members) /\ passed + 1 \in 0 .. Len(members)
      BY <1>0, <1>1
    <2> QED BY <1>0, <1>2, <2>1, <2>2, <2>3 DEF HandOn
  <1>5. CASE jsonPart' = jsonPart
    BY <1>0, <1>1, <1>2, <1>3, <1>5 DEF HandOn
  <1> QED BY <1>0, <1>4, <1>5 DEF HandOn

\* The state of a Put always has its declared shape.
LEMMA PutTypeStep == PutInv /\ PutStep => PutTypeOK'
  <1> SUFFICES ASSUME PutInv, PutStep PROVE PutTypeOK'
    OBVIOUS
  <1>0. PutTypeOK /\ Kept /\ Turns /\ Copied /\ Written
    BY DEF PutInv
  <1> USE <1>0
  <1>1. CASE Extract
    <2>1. /\ puts \in Nat /\ puts < MaxPuts /\ puts' = puts + 1 /\ MaxPuts \in Nat
      BY <1>1, PutAssumption DEF Extract, PutTypeOK
    <2>2. << >> \in AttMaps /\ DOMAIN << >> = {} /\ Len(<< >>) = 0
      BY MapKinds
    <2>3. stubs' = << >> /\ stubs' \in [{} -> Lengths]
      BY <1>1 DEF Extract
    <2>4. << >> \in Seq(0 .. Invalid) /\ << >> \in Seq(Contents) /\ Len(members) \in Nat
      BY OrderKinds, NamesAssumption DEF PutTypeOK
    <2>5. Cardinality(DOMAIN callers) \in Nat
      BY FS_CardinalityType DEF Kept
    <2>6. /\ callers' \in AttMaps /\ atts' \in AttMaps /\ given' \in AttMaps
          /\ DOMAIN stubs' \subseteq DOMAIN atts' /\ stubs' \in [DOMAIN stubs' -> Lengths]
      BY <1>1, <2>2, <2>3 DEF Extract, PutTypeOK
    <2>7. /\ members' = members /\ fetched' \in 0 .. Len(members')
          /\ passed' \in 0 .. Len(members') /\ puts' \in 0 .. MaxPuts
      BY <1>1, <2>1, <2>4 DEF Extract
    <2>8. /\ jsonPart' \in Seq(0 .. Invalid) /\ Len(jsonPart') <= Len(members')
          /\ parts' \in Seq(Contents) /\ Len(parts') <= Cardinality(DOMAIN atts')
      BY <1>1, <2>2, <2>4, <2>5, <2>7, FS_CardinalityType DEF Extract, Kept
    <2>9. StoredOK' /\ members' \in Orders /\ encodable' \in BOOLEAN /\ compress' \in BOOLEAN
      BY <1>1 DEF Extract, PutTypeOK, StoredOK
    <2> QED
      BY <1>1, <2>6, <2>7, <2>8, <2>9 DEF Extract, PutTypeOK
  <1>2. ASSUME NEW p \in {"idle", "build", "finish", "send"},
               NEW r \in Errors \cup {None, "ok"}, Become(p, r), StoredOK'
        PROVE  PutTypeOK'
    BY <1>2 DEF Become, PutTypeOK, stubVars, copyVars, fileVars
  <1>3. UNCHANGED stored => StoredOK'
    BY DEF PutTypeOK, StoredOK
  <1>4. CASE NoTempFile \/ Built
    BY <1>2, <1>3, <1>4 DEF NoTempFile, Built, Errors
  <1>5. CASE FileReady
    <2>1. multiErr \in Errors \cup {None, "ok"}
      BY DEF PutTypeOK
    <2> QED BY <1>2, <1>3, <1>5, <2>1 DEF FileReady, Errors
  <1>6. CASE LengthDiffers \/ NotStored
    BY <1>2, <1>3, <1>6 DEF LengthDiffers, NotStored, Errors
  <1>7. CASE StoreDoc
    <2>1. /\ stored' = [members |-> jsonPart, files |-> Whole(given),
                        length |-> LengthsOf(given)]
          /\ jsonPart \in [1 .. Fields + 1 -> 0 .. Other]
      BY <1>7, StoreDocStores
    <2>2. \A n \in DOMAIN given : given[n].len \in Lengths /\ n \in Names
      BY MapKinds DEF PutTypeOK, Attachments
    <2>3. /\ Whole(given) \in [DOMAIN given -> Contents]
          /\ LengthsOf(given) \in [DOMAIN given -> Lengths]
      BY <2>2 DEF Whole, LengthsOf, Contents
    <2>4. DOMAIN given \subseteq Names
      BY MapKinds DEF PutTypeOK
    <2>5. StoredOK'
      <3>1. DOMAIN stored'.files = DOMAIN given
        BY <2>1, <2>3
      <3> QED BY <2>1, <2>3, <2>4, <3>1 DEF StoredOK
    <2> QED BY <1>2, <1>7, <2>5 DEF StoreDoc, Errors
  <1>8. CASE Stubber
    <2>1. UNCHANGED <<callVars, stored>> /\ StoredOK'
      BY <1>3, <1>8 DEF Stubber
    <2> USE <2>1 DEF callVars
    <2>2. ASSUME NEW n \in Names, Measure(n) PROVE PutTypeOK'
      <3>1. /\ n \in DOMAIN atts /\ atts[n] \in Attachments /\ atts[n].size \in {0, atts[n].len}
            /\ atts' = [atts EXCEPT ![n] = Measured(atts[n])]
        BY <2>2, MapKinds DEF Measure, PutTypeOK, Kept
      <3>2. Measured(atts[n]) \in Attachments /\ Measured(atts[n]).size \in Lengths
        BY <3>1, MeasuredKinds DEF Attachments
      <3>3. DOMAIN atts' = DOMAIN atts /\ atts' \in [DOMAIN atts -> Attachments]
        BY <3>1, <3>2, MapKinds DEF PutTypeOK
      <3>4. atts' \in AttMaps
        BY <3>3, MapKinds DEF PutTypeOK
      <3>5. DOMAIN stubs' = DOMAIN stubs \cup {n} /\ stubs' \in [DOMAIN stubs' -> Lengths]
        BY <2>2, <3>2 DEF Measure, PutTypeOK
      <3> QED
        BY <2>2, <3>1, <3>3, <3>4, <3>5 DEF Measure, PutTypeOK, fileVars
    <2>3. ASSUME NEW n \in Names, MeasureFails(n) PROVE PutTypeOK'
      BY <2>3 DEF MeasureFails, PutTypeOK, copyVars, fileVars, Errors
    <2>4. CASE AllMeasured \/ BufferCopied \/ DocumentEnds
      BY <2>4 DEF AllMeasured, BufferCopied, DocumentEnds, PutTypeOK, copyVars, fileVars
    <2>5. CASE FetchFails
      BY <2>5 DEF FetchFails, PutTypeOK, copyVars, fileVars, Errors
    <2>6. CASE CloseAttJSON
      BY <2>6 DEF CloseAttJSON, PutTypeOK, copyVars, fileVars
    <2>7. CASE Fetch
      <3>1. fetched' \in 0 .. Len(members)
        BY <2>7, OrderKinds, NamesAssumption DEF Fetch, PutTypeOK
      <3> QED BY <2>7, <3>1 DEF Fetch, PutTypeOK, fileVars
    <2>8. CASE CopyMember \/ CopyBuffered \/ CopyRest
      <3>2. /\ passed' \in 0 .. Len(members)
            /\ jsonPart' \in Seq(0 .. Invalid) /\ Len(jsonPart') <= Len(members)
            /\ multi' \in {"doc", "close"} /\ multiErr' \in Errors \cup {None}
            /\ UNCHANGED <<atts, stubs, stubErr, attEnd, inClosed, parts>>
        <4>1. multiErr \in Errors \cup {None} /\ "file" \in Errors
          BY DEF PutTypeOK, Errors
        <4> QED BY <2>8, <4>1, HandedOn
      <3>3. /\ fetched' \in 0 .. Len(members)
            /\ stubber' \in {"copy", "buffered", "rest"}
        BY <2>8, <3>2 DEF CopyMember, CopyBuffered, CopyRest, PutTypeOK
      <3> QED BY <3>2, <3>3 DEF PutTypeOK
    <2> QED
      BY <1>8, <2>2, <2>3, <2>4, <2>5, <2>6, <2>7, <2>8 DEF Stubber
  <1>9. CASE CreateMultipart
    <2>1. UNCHANGED <<callVars, copyVars, stubErr, attEnd, stored>> /\ StoredOK'
      BY <1>3, <1>9 DEF CreateMultipart
    <2> USE <2>1 DEF callVars, copyVars
    <2>2. CASE OpenDoc
      BY <2>2 DEF OpenDoc, PutTypeOK, Errors
    <2>3. CASE DocRead
      <3>1. multiErr' \in Errors \cup {None}
        BY <2>3 DEF DocRead, PutTypeOK
      <3> QED BY <2>3, <3>1 DEF DocRead, PutTypeOK
    <2>4. CASE CopyFile
      <3>1. /\ NextFile \in DOMAIN atts /\ Cardinality(DOMAIN atts) \in Nat
            /\ atts[NextFile] \in Attachments /\ NextFile \in Names
            /\ Len(parts) < Cardinality(DOMAIN atts)
        BY <2>4, NextFileKinds, MapKinds DEF CopyFile, PutTypeOK
      <3>2. [of |-> NextFile, len |-> atts[NextFile].len] \in Contents
        BY <3>1 DEF Attachments, Contents
      <3>3. parts' \in Seq(Contents) /\ Len(parts') = Len(parts) + 1
        BY <2>4, <3>2 DEF CopyFile, PutTypeOK
      <3>4. DOMAIN atts' = DOMAIN atts /\ atts' \in [DOMAIN atts -> Attachments]
        <4>1. atts' = [atts EXCEPT ![NextFile].open = @ /\ atts[NextFile].buffered]
          BY <2>4 DEF CopyFile
        <4>2. [atts[NextFile] EXCEPT !.open = @ /\ atts[NextFile].buffered] \in Attachments
          BY <3>1 DEF Attachments
        <4> QED BY <3>1, <4>1, <4>2, MapKinds DEF PutTypeOK
      <3>5. atts' \in AttMaps
        BY <3>4, MapKinds DEF PutTypeOK
      <3>6. Len(parts') <= Cardinality(DOMAIN atts')
        BY <3>1, <3>3, <3>4 DEF PutTypeOK
      <3> QED BY <2>4, <3>3, <3>4, <3>5, <3>6 DEF CopyFile, PutTypeOK
    <2>5. CASE CopyFileFails
      BY <2>5 DEF CopyFileFails, PutTypeOK, Errors
    <2>6. CASE FilesCopied
      BY <2>6 DEF FilesCopied, PutTypeOK, Errors
    <2>7. CASE CloseIn
      BY <2>7 DEF CloseIn, PutTypeOK
    <2> QED BY <1>9, <2>2, <2>3, <2>4, <2>5, <2>6, <2>7 DEF CreateMultipart
  <1>10. CASE UNCHANGED <<putVars, stored>>
    BY <1>3, <1>10 DEF PutTypeOK, putVars, callVars, stubVars, copyVars, fileVars
  <1> QED
    BY <1>1, <1>4, <1>5, <1>6, <1>7, <1>8, <1>9, <1>10 DEF PutStep, PutNext, Request

\* The two goroutines and their Put take turns.
LEMMA TurnsStep == Turns /\ Copied /\ PutStep => Turns'
  <1> SUFFICES ASSUME Turns, Copied, PutStep PROVE Turns'
    OBVIOUS
  <1> USE DEF Turns, callVars, copyVars, fileVars, stubVars
  <1>1. CASE Extract
    BY <1>1 DEF Extract
  <1>2. CASE NoTempFile \/ Built \/ FileReady \/ Request
    BY <1>2 DEF NoTempFile, Built, FileReady, Request, LengthDiffers, StoreDoc, NotStored, Become
  <1>3. CASE Stubber
    <2>1. CASE \E n \in Names : Measure(n) \/ MeasureFails(n)
      BY <1>3, <2>1 DEF Stubber, Measure, MeasureFails
    <2>2. CASE \/ AllMeasured \/ Fetch \/ FetchFails \/ BufferCopied \/ DocumentEnds
               \/ CloseAttJSON
      BY <1>3, <2>2 DEF Stubber, AllMeasured, Fetch, FetchFails, BufferCopied, DocumentEnds,
                        CloseAttJSON
    <2>3. CASE CopyMember \/ CopyBuffered \/ CopyRest
      BY <1>3, <2>3 DEF Stubber, CopyMember, CopyBuffered, CopyRest, HandOn
    <2> QED BY <1>3, <2>1, <2>2, <2>3 DEF Stubber
  <1>4. CASE CreateMultipart
    <2>1. CASE OpenDoc
      BY <1>4, <2>1 DEF CreateMultipart, OpenDoc
    <2>2. CASE DocRead
      BY <1>4, <2>2 DEF CreateMultipart, DocRead, Copied
    <2>3. CASE CopyFile \/ CopyFileFails \/ FilesCopied \/ CloseIn
      BY <1>4, <2>3 DEF CreateMultipart, CopyFile, CopyFileFails, FilesCopied, CloseIn
    <2> QED BY <1>4, <2>1, <2>2, <2>3 DEF CreateMultipart
  <1>5. CASE UNCHANGED <<putVars, stored>>
    BY <1>5 DEF putVars
  <1> QED BY <1>1, <1>2, <1>3, <1>4, <1>5 DEF PutStep, PutNext

\* What the stubber hands on is complete unless it has an error.
LEMMA CopiedStep == PutTypeOK /\ Kept /\ Turns /\ Copied /\ Written /\ PutStep => Copied'
  <1> SUFFICES ASSUME PutTypeOK, Kept, Turns, Copied, Written, PutStep PROVE Copied'
    OBVIOUS
  <1> USE NoneIsNoError DEF Copied, callVars, copyVars, fileVars, stubVars, Errors
  <1>0. /\ passed \in Nat /\ fetched \in Nat /\ Len(members) \in Nat
        /\ passed <= Len(members) /\ fetched <= Len(members)
    BY OrderKinds, NamesAssumption DEF PutTypeOK
  <1>1. CASE Extract
    BY <1>1 DEF Extract
  <1>2. CASE NoTempFile \/ Built \/ FileReady \/ Request
    BY <1>2 DEF NoTempFile, Built, FileReady, Request, LengthDiffers, StoreDoc, NotStored, Become
  <1>3. CASE Stubber
    <2>0. UNCHANGED callVars
      BY <1>3 DEF Stubber
    <2>1. ASSUME NEW n \in Names, Measure(n) PROVE Copied'
      BY <2>0, <2>1 DEF Measure
    <2>2. ASSUME NEW n \in Names, MeasureFails(n) PROVE Copied'
      BY <2>0, <2>2 DEF MeasureFails
    <2>3. CASE AllMeasured \/ BufferCopied
      BY <2>0, <2>3 DEF AllMeasured, BufferCopied
    <2>4. CASE Fetch
      BY <1>0, <2>0, <2>4 DEF Fetch
    <2>5. CASE FetchFails
      BY <2>0, <2>5 DEF FetchFails
    <2>6. CASE DocumentEnds
      BY <2>0, <2>6 DEF DocumentEnds
    <2>8. CASE CloseAttJSON
      <3>1. stubErr # "eof"
        BY DEF PutTypeOK
      <3>2. attEnd' = "eof" => stubErr = None
        BY <2>8, <3>1 DEF CloseAttJSON
      <3> QED BY <2>0, <2>8, <3>2 DEF CloseAttJSON
    <2>7. CASE CopyMember \/ CopyBuffered \/ CopyRest
      <3>2. passed' = passed + 1 /\ UNCHANGED <<atts, stubs, stubErr, attEnd>>
        BY <2>7, HandedOn
      <3>3. CASE CopyMember
        <4>1. ASSUME stubber' = "copy", NEW i \in 1 .. passed' PROVE members'[i] # Atts
          <5>1. members[passed + 1] # Atts /\ stubber = "copy"
            BY <3>3, <4>1 DEF CopyMember
          <5> QED BY <1>0, <2>0, <3>2, <4>1, <5>1
        <4> QED BY <1>0, <2>0, <3>2, <3>3, <4>1 DEF CopyMember
      <3>4. CASE CopyBuffered
        BY <1>0, <2>0, <3>2, <3>4 DEF CopyBuffered
      <3>5. CASE CopyRest
        BY <1>0, <2>0, <3>2, <3>5 DEF CopyRest
      <3> QED BY <2>7, <3>3, <3>4, <3>5
    <2> QED BY <1>3, <2>1, <2>2, <2>3, <2>4, <2>5, <2>6, <2>7, <2>8 DEF Stubber
  <1>4. CASE CreateMultipart
    <2>1. UNCHANGED <<callVars, copyVars, stubErr, attEnd>>
      BY <1>4 DEF CreateMultipart
    <2>2. CASE OpenDoc
      BY <2>1, <2>2 DEF OpenDoc, Turns
    <2>3. CASE DocRead \/ CopyFileFails \/ FilesCopied \/ CloseIn
      BY <2>1, <2>3 DEF DocRead, CopyFileFails, FilesCopied, CloseIn
    <2>4. CASE CopyFile
      <3>1. DOMAIN atts' = DOMAIN atts
        BY <2>4 DEF CopyFile
      <3> QED BY <2>1, <2>4, <3>1 DEF CopyFile
    <2> QED BY <1>4, <2>2, <2>3, <2>4 DEF CreateMultipart
  <1>5. CASE UNCHANGED <<putVars, stored>>
    BY <1>5 DEF putVars
  <1> QED BY <1>1, <1>2, <1>3, <1>4, <1>5 DEF PutStep, PutNext

\* When io.Copy comes to the end of attJSON without an error, the first part is whole.
LEMMA WholeDocument ==
    ASSUME PutTypeOK, Kept, Copied, Written, multi = "doc", attEnd = "eof"
    PROVE  DocumentWritten
  <1>1. /\ members \in Seq(0 .. Fields) /\ Len(members) = Fields + 1
        /\ fetched \in Nat /\ Fields \in Nat
    BY OrderKinds, NamesAssumption DEF PutTypeOK
  <1>2. passed = Len(members) /\ passed <= fetched /\ DOMAIN stubs = DOMAIN given
    BY DEF Copied, Kept
  <1>3. /\ Len(jsonPart) = Len(members)
        /\ \A i \in 1 .. Len(members) : Spelled(jsonPart[i], i)
    BY <1>2 DEF Written
  <1>4. CopyOf(jsonPart, members)
    BY <1>1, <1>3 DEF CopyOf, Spelled
  <1>5. encodable
    BY <1>1, <1>2 DEF Copied
  <1> QED BY <1>2, <1>4, <1>5 DEF DocumentWritten

\* What is in the file stays what was handed on.
LEMMA WrittenStep == PutTypeOK /\ Kept /\ Turns /\ Copied /\ Written /\ PutStep => Written'
  <1> SUFFICES ASSUME PutTypeOK, Kept, Turns, Copied, Written, PutStep PROVE Written'
    OBVIOUS
  <1> USE NoneIsNoError DEF callVars, copyVars, fileVars, stubVars, Errors
  <1>1. CASE Extract
    BY <1>1 DEF Extract, Written, Spelled
  <1>2. CASE NoTempFile \/ Built \/ FileReady \/ Request
    BY <1>2 DEF NoTempFile, Built, FileReady, Request, LengthDiffers, StoreDoc, NotStored,
                Become, Written, DocumentWritten, Spelled
  <1>3. CASE Stubber
    <2>0. UNCHANGED callVars
      BY <1>3 DEF Stubber
    <2>1. ASSUME NEW n \in Names, Measure(n) PROVE Written'
      <3>1. multi = "doc" /\ parts = << >> /\ UNCHANGED <<passed, fileVars>>
        BY <2>1 DEF Measure, Turns
      <3> QED BY <2>0, <3>1 DEF Written, Spelled
    <2>2. CASE \/ \E n \in Names : MeasureFails(n)
               \/ AllMeasured \/ BufferCopied \/ Fetch \/ FetchFails \/ DocumentEnds
               \/ CloseAttJSON
      BY <2>0, <2>2 DEF MeasureFails, AllMeasured, BufferCopied, Fetch, FetchFails,
                        DocumentEnds, CloseAttJSON, Written, DocumentWritten, Spelled
    <2>3. CASE CopyMember \/ CopyBuffered \/ CopyRest
      <3>2. UNCHANGED <<atts, stubs, parts>> /\ multi = "doc"
        BY <2>3, HandedOn
      <3>3. CASE /\ multi' = "doc" /\ multiErr' = multiErr /\ Len(jsonPart') = passed'
                 /\ \A i \in 1 .. passed' : Spelled(jsonPart'[i], i)
        BY <2>0, <3>2, <3>3 DEF Written, Spelled
      <3>4. CASE multi' = "close" /\ multiErr' = "file"
        BY <2>0, <3>2, <3>4 DEF Written
      <3> QED BY <2>3, <3>3, <3>4, HandedOn
    <2> QED BY <1>3, <2>1, <2>2, <2>3 DEF Stubber
  <1>4. CASE CreateMultipart
    <2>0. UNCHANGED <<callVars, copyVars, stubErr, attEnd>>
      BY <1>4 DEF CreateMultipart
    <2>1. CASE OpenDoc
      <3>1. passed = 0 /\ jsonPart = << >> /\ parts = << >> /\ multiErr = None
        BY <2>1 DEF OpenDoc, Turns
      <3> QED BY <2>0, <2>1, <3>1 DEF OpenDoc, Written, Spelled
    <2>2. CASE DocRead /\ attEnd = "eof"
      BY <2>0, <2>2, WholeDocument DEF DocRead, Written, DocumentWritten, Spelled
    <2>3. CASE DocRead /\ attEnd # "eof"
      BY <2>0, <2>3 DEF DocRead, Written, Spelled
    <2>4. CASE CopyFile
      <3>1. /\ NextFile \in DOMAIN atts /\ atts[NextFile] \in Attachments
            /\ NextFile = Sorted(DOMAIN given)[Len(parts) + 1]
        BY <2>4, NextFileKinds, MapKinds DEF CopyFile, PutTypeOK
      <3>2. /\ atts' = [atts EXCEPT ![NextFile].open = @ /\ atts[NextFile].buffered]
            /\ parts' = Append(parts, [of |-> NextFile, len |-> atts[NextFile].len])
            /\ multi = "files" /\ UNCHANGED <<multi, multiErr, jsonPart>>
        BY <2>4 DEF CopyFile
      <3>3. atts[NextFile].len = given[NextFile].len
        BY <3>1 DEF Kept
      <3>4. ASSUME NEW n \in DOMAIN atts, n = NextFile \/ (atts[n].open => atts[n].buffered)
            PROVE  atts'[n].open => atts'[n].buffered
        <4>1. CASE n = NextFile
          <5>1. atts'[n] = [atts[n] EXCEPT !.open = @ /\ atts[n].buffered]
            BY <3>2, <4>1
          <5> QED BY <3>1, <4>1, <5>1 DEF Attachments
        <4>2. CASE n # NextFile
          BY <3>2, <3>4, <4>2
        <4> QED BY <4>1, <4>2
      <3>5. ASSUME NEW i \in DOMAIN parts'
            PROVE  /\ parts'[i].of = Sorted(DOMAIN given)[i]
                   /\ parts'[i].len = given[parts'[i].of].len
                   /\ atts'[parts'[i].of].open => atts'[parts'[i].of].buffered
        <4>1. CASE i = Len(parts) + 1
          <5>1. parts'[i] = [of |-> NextFile, len |-> atts[NextFile].len]
            BY <3>2, <4>1 DEF PutTypeOK
          <5> QED BY <3>1, <3>3, <3>4, <4>1, <5>1
        <4>2. CASE i # Len(parts) + 1
          <5>1. i \in DOMAIN parts /\ parts'[i] = parts[i]
            BY <3>2, <3>5, <4>2 DEF PutTypeOK
          <5>2. /\ parts[i].of = Sorted(DOMAIN given)[i]
                /\ parts[i].len = given[parts[i].of].len
                /\ atts[parts[i].of].open => atts[parts[i].of].buffered
            BY <5>1 DEF Written
          <5>3. parts[i].of \in DOMAIN atts
            <6>1. i \in 1 .. Cardinality(DOMAIN given)
              BY <5>1, FS_CardinalityType DEF PutTypeOK, Kept
            <6>2. DOMAIN given \subseteq Nat /\ IsFiniteSet(DOMAIN given)
              BY MapKinds DEF PutTypeOK, Kept
            <6> QED BY <5>2, <6>1, <6>2, SortedOnto DEF Kept
          <5> QED BY <3>4, <5>1, <5>2, <5>3
        <4> QED BY <4>1, <4>2
      <3> QED BY <2>0, <3>2, <3>5 DEF Written, DocumentWritten, Spelled
    <2>5. CASE CopyFileFails \/ CloseIn
      BY <2>0, <2>5 DEF CopyFileFails, CloseIn, Written, DocumentWritten, Spelled
    <2>6. CASE FilesCopied
      BY <2>0, <2>6 DEF FilesCopied, Written, DocumentWritten, Spelled, Kept
    <2> QED BY <1>4, <2>1, <2>2, <2>3, <2>4, <2>5, <2>6 DEF CreateMultipart
  <1>5. CASE UNCHANGED <<putVars, stored>>
    BY <1>5 DEF putVars, Written, DocumentWritten, Spelled
  <1> QED BY <1>1, <1>2, <1>3, <1>4, <1>5 DEF PutStep, PutNext

\* A success stays one: nothing follows it.
LEMMA SuccessfulStep == PutInv /\ PutStep => Successful'
  <1> SUFFICES ASSUME PutInv, PutStep, result' = "ok" PROVE Successful'
    BY DEF Successful
  <1>0. PutTypeOK /\ Turns /\ Written /\ Successful
    BY DEF PutInv
  <1> USE <1>0, NoneIsNoError DEF callVars, copyVars, fileVars, stubVars, Errors
  <1>1. CASE Extract
    BY <1>1 DEF Extract
  <1>2. CASE StoreDoc
    <2>1. multi = "done" /\ multiErr = None
      BY <1>2 DEF StoreDoc, Turns
    <2>2. /\ put' = "idle"
          /\ UNCHANGED <<given, multi, multiErr, jsonPart>>
      BY <1>2 DEF StoreDoc, Become
    <2>3. stored' = [members |-> jsonPart, files |-> Whole(given), length |-> LengthsOf(given)]
      BY <1>2, StoreDocStores
    <2> QED BY <2>1, <2>2, <2>3 DEF Successful, Whole, LengthsOf
  <1>3. CASE NoTempFile \/ Built \/ LengthDiffers \/ NotStored
    BY <1>3 DEF NoTempFile, Built, LengthDiffers, NotStored, Become
  <1>4. CASE FileReady
    BY <1>4 DEF FileReady, Become, PutTypeOK
  <1>5. CASE Stubber \/ CreateMultipart
    <2>1. UNCHANGED <<callVars, stored>> /\ result = "ok"
      BY <1>5 DEF Stubber, CreateMultipart
    <2>2. multi = "done" /\ multiErr = None
      BY <2>1 DEF Successful
    <2>3. CASE Stubber
      BY <2>1, <2>2, <2>3 DEF Stubber, Measure, MeasureFails, AllMeasured, Fetch, FetchFails,
            CopyMember, CopyBuffered, CopyRest, HandOn, BufferCopied, DocumentEnds,
            CloseAttJSON, Successful, Whole, LengthsOf
    <2>4. CASE CreateMultipart
      BY <2>2, <2>4 DEF Successful, CreateMultipart, OpenDoc, DocRead, CopyFile,
            CopyFileFails, FilesCopied, CloseIn
    <2> QED BY <1>5, <2>3, <2>4
  <1>6. CASE UNCHANGED <<putVars, stored>>
    BY <1>6 DEF putVars, Successful, Whole, LengthsOf
  <1> QED BY <1>1, <1>2, <1>3, <1>4, <1>5, <1>6 DEF PutStep, PutNext, Request

\* Every step of a Put keeps its invariant.
LEMMA PutInvStep == PutInv /\ PutStep => PutInv'
  BY PutTypeStep, KeptStep, TurnsStep, CopiedStep, WrittenStep, SuccessfulStep DEF PutInv

\* A document that nobody has put yet.
LEMMA PutInvInit == stored = None /\ PutInit => PutInv
  <1> SUFFICES ASSUME stored = None, PutInit PROVE PutInv
    OBVIOUS
  <1> USE NoneIsNoError DEF PutInit, Errors
  <1>1. /\ callers \in AttMaps /\ IsFiniteSet(DOMAIN callers)
        /\ \A n \in DOMAIN callers : callers[n].size \in {0, callers[n].len}
    BY PutAssumption DEF OffersAssumption
  <1>2. /\ << >> \in AttMaps /\ DOMAIN << >> = {} /\ IsFiniteSet({}) /\ Cardinality({}) = 0
        /\ Len(<< >>) = 0
    BY MapKinds, FS_EmptySet
  <1>3. Len(members) \in Nat /\ MaxPuts \in Nat
    BY OrderKinds, NamesAssumption, PutAssumption
  <1>4. stubs = << >> /\ stubs \in [DOMAIN stubs -> Lengths]
    BY <1>2
  <1>5. << >> \in Seq(0 .. Invalid) /\ << >> \in Seq(Contents)
    OBVIOUS
  <1>6. PutTypeOK
    <2>1. StoredOK
      BY DEF StoredOK
    <2>2. /\ callers \in AttMaps /\ atts \in AttMaps /\ given \in AttMaps
          /\ DOMAIN stubs \subseteq DOMAIN atts
      BY <1>1, <1>2
    <2>3. /\ puts \in 0 .. MaxPuts /\ fetched \in 0 .. Len(members)
          /\ passed \in 0 .. Len(members)
      BY <1>3
    <2>4. /\ jsonPart \in Seq(0 .. Invalid) /\ Len(jsonPart) <= Len(members)
          /\ parts \in Seq(Contents) /\ Len(parts) <= Cardinality(DOMAIN atts)
      <3>1. Len(jsonPart) = 0 /\ Len(parts) = 0 /\ Cardinality(DOMAIN atts) = 0
        BY <1>2
      <3> QED BY <1>3, <1>5, <3>1
    <2> QED BY <1>4, <2>1, <2>2, <2>3, <2>4 DEF PutTypeOK
  <1>7. Kept /\ Turns
    BY <1>1, <1>2 DEF Kept, Turns
  <1>8. Copied /\ Written /\ Successful
    BY <1>2 DEF Copied, Written, Successful
  <1> QED BY <1>6, <1>7, <1>8 DEF PutInv

\* The contents in the file are those given, when there is a part for each.
LEMMA PartsAreGiven ==
    ASSUME PutTypeOK, Kept, Written, Len(parts) = Cardinality(DOMAIN given)
    PROVE  /\ \A i \in DOMAIN parts :
                parts[i].of \in DOMAIN given /\ parts[i] = Whole(given)[parts[i].of]
           /\ \A n \in DOMAIN given : \E i \in DOMAIN parts : parts[i].of = n
  <1>0. DOMAIN given \subseteq Nat /\ IsFiniteSet(DOMAIN given)
    BY MapKinds DEF PutTypeOK, Kept
  <1>1. DOMAIN parts = 1 .. Cardinality(DOMAIN given)
    BY DEF PutTypeOK
  <1>2. ASSUME NEW i \in DOMAIN parts
        PROVE  parts[i].of \in DOMAIN given /\ parts[i] = Whole(given)[parts[i].of]
    <2>1. /\ parts[i].of = Sorted(DOMAIN given)[i] /\ parts[i].len = given[parts[i].of].len
          /\ parts[i] \in Contents
      BY DEF Written, PutTypeOK
    <2>2. parts[i].of \in DOMAIN given
      BY <1>0, <1>1, <2>1, SortedOnto
    <2>3. parts[i] = [of |-> parts[i].of, len |-> parts[i].len]
      BY <2>1 DEF Contents
    <2> QED BY <2>1, <2>2, <2>3 DEF Whole
  <1>3. ASSUME NEW n \in DOMAIN given PROVE \E i \in DOMAIN parts : parts[i].of = n
    BY <1>0, <1>1, SortedOnto DEF Written
  <1> QED BY <1>2, <1>3

\* What the invariant says about a Put that sends, and about one that succeeded.
LEMMA PutPromises ==
    ASSUME PutInv
    PROVE  /\ SentWhole /\ ContentsClosed
           /\ result = "ok" =>
                /\ stored.files = Whole(given) /\ stored.length = LengthsOf(given)
                /\ CopyOf(stored.members, members)
  <1>0. PutTypeOK /\ Kept /\ Turns /\ Written /\ Successful
    BY DEF PutInv
  <1> USE <1>0
  <1>1. result = "ok" =>
          /\ stored.files = Whole(given) /\ stored.length = LengthsOf(given)
          /\ CopyOf(stored.members, members)
    BY DEF Successful, Written, DocumentWritten
  <1>2. SentWhole
    <2> SUFFICES ASSUME put = "send"
                 PROVE  /\ encodable /\ CopyOf(jsonPart, members)
                        /\ {parts[i] : i \in DOMAIN parts} = {Whole(given)[n] : n \in DOMAIN given}
      BY DEF SentWhole
    <2>1. DocumentWritten /\ Len(parts) = Cardinality(DOMAIN given)
      BY DEF Turns, Written
    <2>2. \A i \in DOMAIN parts : \E n \in DOMAIN given : parts[i] = Whole(given)[n]
      BY <2>1, PartsAreGiven
    <2>3. \A n \in DOMAIN given : \E i \in DOMAIN parts : parts[i] = Whole(given)[n]
      BY <2>1, PartsAreGiven
    <2> QED BY <2>1, <2>2, <2>3 DEF DocumentWritten
  <1>3. ContentsClosed
    <2> SUFFICES ASSUME result = "ok", NEW n \in DOMAIN atts, atts[n].open
                 PROVE  atts[n].buffered
      BY DEF ContentsClosed
    <2>1. Len(parts) = Cardinality(DOMAIN given)
      BY DEF Successful, Written
    <2>2. PICK i \in DOMAIN parts : parts[i].of = n
      BY <2>1, PartsAreGiven DEF Kept
    <2> QED BY <2>2 DEF Written
  <1> QED BY <1>1, <1>2, <1>3
=============================================================================
