---------------------------- MODULE MultipartPut ----------------------------
(***************************************************************************)
(* db.go: Put of a document with attachments.  putOpts takes the           *)
(* attachments out of the caller's document and builds the request's body  *)
(* in a temporary file before it sends anything:                           *)
(*                                                                         *)
(*   EncodeBody --in--> stubber --attJSON--> createMultipart --> tmp       *)
(*                                                                         *)
(* The stubber, the goroutine of replaceAttachments, measures the          *)
(* attachments and copies the document with their stubs in the place of    *)
(* _attachments; createMultipart, in a goroutine of its own, writes that   *)
(* as the first part and the contents as the others.  The parts carry no   *)
(* names: the server has only their order.  in and attJSON are pipes, so a *)
(* write waits for the reader that takes it.                               *)
(***************************************************************************)
EXTENDS DocumentStore

CONSTANTS MaxPuts,  \* bound: times the caller puts its document
          Offers    \* what the caller's document may have for attachments

\* size is Attachment.Size, 0 until it is known; a lener or a stater need not be
\* read for it; broken says that reading the content fails; buffered that Content
\* was replaced by what was read from it; open that Content was not closed.
Attachments ==
    [len : Lengths, size : Lengths, lener : BOOLEAN, broken : BOOLEAN,
     buffered : BOOLEAN, open : BOOLEAN]

AttMaps == UNION {[names -> Attachments] : names \in SUBSET Names}

\* A document has finitely many attachments; a size the caller set is the length of
\* the content.
OffersAssumption ==
    \A m \in Offers :
        /\ m \in AttMaps /\ IsFiniteSet(DOMAIN m)
        /\ \A n \in DOMAIN m :
             m[n].size \in {0, m[n].len} /\ ~m[n].buffered /\ m[n].open

ASSUME PutAssumption == MaxPuts \in Nat /\ OffersAssumption

VARIABLES
    callers,    \* the attachments in the caller's document: name -> content
    members,    \* the members of the document, in order
    encodable,  \* it can be marshaled
    compress,   \* the client sends bodies through gzip
    puts,       \* Puts that have begun
    put,        \* Put: idle, build, finish, send
    result,     \* of the last Put: None, ok, or what failed
    atts,       \* the attachments taken: name -> content
    given,      \* history: atts as they were taken
    stubber,    \* off, measure, copy, buffered, rest, close, done
    stubs,      \* sizes measured so far: name -> length
    fetched,    \* members the JSON decoder has read
    passed,     \* members handed on
    stubErr,    \* why the stubber gave up, or None
    attEnd,     \* the end of attJSON: None, eof, or an error
    inClosed,   \* in.Close was called
    multi,      \* createMultipart: off, open, doc, files, finish, close, done
    multiErr,   \* its error, or None
    jsonPart,   \* members in the first part, as they were written
    parts       \* contents in the others

callVars == <<callers, members, encodable, compress, puts, given, put, result>>
copyVars == <<stubs, fetched, passed>>
stubVars == <<stubber, copyVars, stubErr, attEnd>>
fileVars == <<multi, multiErr, jsonPart, parts>>
putVars  == <<callVars, atts, stubVars, inClosed, fileVars>>

Errors == {"document", "attachment", "closed", "file", "length", "refused", "network"}
ASSUME NoneIsNoError == None \notin Errors \cup {"ok", "eof"}

PutTypeOK ==
    /\ StoredOK
    /\ callers \in AttMaps /\ atts \in AttMaps /\ given \in AttMaps
    /\ members \in Orders /\ encodable \in BOOLEAN /\ compress \in BOOLEAN
    /\ puts \in 0 .. MaxPuts
    /\ put \in {"idle", "build", "finish", "send"}
    /\ result \in Errors \cup {None, "ok"}
    /\ stubber \in {"off", "measure", "copy", "buffered", "rest", "close", "done"}
    /\ DOMAIN stubs \subseteq DOMAIN atts /\ stubs \in [DOMAIN stubs -> Lengths]
    /\ fetched \in 0 .. Len(members) /\ passed \in 0 .. Len(members)
    /\ stubErr \in Errors \cup {None}
    /\ attEnd \in Errors \cup {None, "eof"}
    /\ inClosed \in BOOLEAN
    /\ multi \in {"off", "open", "doc", "files", "finish", "close", "done"}
    /\ multiErr \in Errors \cup {None}
    /\ jsonPart \in Seq(0 .. Invalid) /\ Len(jsonPart) <= Len(members)
    /\ parts \in Seq(Contents) /\ Len(parts) <= Cardinality(DOMAIN atts)

PutInit ==
    /\ callers \in Offers
    /\ members \in Orders /\ encodable \in BOOLEAN /\ compress \in BOOLEAN
    /\ puts = 0 /\ put = "idle" /\ result = None
    /\ atts = << >> /\ given = << >>
    /\ stubber = "off" /\ stubs = << >> /\ fetched = 0 /\ passed = 0
    /\ stubErr = None /\ attEnd = None /\ inClosed = FALSE
    /\ multi = "off" /\ multiErr = None /\ jsonPart = << >> /\ parts = << >>

-----------------------------------------------------------------------------
(* putOpts.                                                                 *)

\* extractAttachments empties the map in the caller's document, os.CreateTemp
\* and EncodeBody are next.  The caller may put the document again when it failed;
\* a stubber that stayed behind an earlier Put is not followed any further.
Extract ==
    /\ put = "idle" /\ puts < MaxPuts /\ result # "ok"
    /\ puts' = puts + 1 /\ put' = "build" /\ result' = None
    /\ atts' = callers /\ given' = callers /\ callers' = << >>
    /\ stubber' = "off" /\ stubs' = << >> /\ fetched' = 0 /\ passed' = 0
    /\ stubErr' = None /\ attEnd' = None /\ inClosed' = FALSE
    /\ multi' = "open" /\ multiErr' = None /\ jsonPart' = << >> /\ parts' = << >>
    /\ UNCHANGED <<members, encodable, compress, stored>>

Become(p, r) ==
    /\ put' = p /\ result' = r
    /\ UNCHANGED <<callers, members, encodable, compress, puts, given,
                   atts, stubVars, inClosed, fileVars>>

\* The temporary file cannot be created: the encoder is left with its pipe.
NoTempFile ==
    /\ put = "build" /\ multi = "open"
    /\ Become("idle", "file") /\ UNCHANGED stored

\* w.Wait is over.
Built ==
    /\ put = "build" /\ multi = "done"
    /\ Become("finish", None) /\ UNCHANGED stored

\* A possible bug: the error of the goroutine is not looked at.
FileReadyAnyway ==
    /\ put = "finish"
    /\ Become("send", None)
    /\ UNCHANGED stored

\* Sync, Stat and Seek, and the error of the goroutine.
FileReady ==
    /\ put = "finish"
    /\ \/ multiErr = None /\ Become("send", None)
       \/ multiErr = None /\ Become("idle", "file")
       \/ multiErr # None /\ Become("idle", multiErr)
    /\ UNCHANGED stored

-----------------------------------------------------------------------------
(* The stubber.  Stubber adds what all its steps leave alone.               *)

\* A possible bug: the content that was read is not put back.
MeasuredConsumed(a) ==
    IF a.size > 0 THEN a
    ELSE [a EXCEPT !.size = a.len, !.buffered = ~a.lener,
                   !.len = IF a.lener THEN a.len ELSE 0]

\* A possible bug: a size that is not known is -1, as in multipartAttachments.Next.
MeasuredNot(a) == IF a.size > 0 THEN a ELSE [a EXCEPT !.size = -1]

\* attachmentSize: an attachment when its size is known.
Measured(a) ==
    IF a.size > 0 THEN a
    ELSE [a EXCEPT !.size = a.len, !.buffered = ~a.lener]

\* readerSize has to read the content, and cannot.
Unmeasurable(a) == a.size = 0 /\ ~a.lener /\ a.broken

Measure(n) ==
    /\ stubber = "measure" /\ n \in DOMAIN atts \ DOMAIN stubs
    /\ ~Unmeasurable(atts[n])
    /\ atts' = [atts EXCEPT ![n] = Measured(@)]
    /\ stubs' = [m \in DOMAIN stubs \cup {n} |->
                    IF m = n THEN Measured(atts[n]).size ELSE stubs[m]]
    /\ UNCHANGED <<stubber, fetched, passed, stubErr, attEnd, inClosed, fileVars>>

\* A possible bug: attJSON is not closed, its reader waits for ever.
MeasureFailsSilently(n) ==
    /\ stubber = "measure" /\ n \in DOMAIN atts \ DOMAIN stubs
    /\ Unmeasurable(atts[n])
    /\ stubber' = "done" /\ stubErr' = "attachment" /\ inClosed' = TRUE
    /\ UNCHANGED <<atts, copyVars, attEnd, fileVars>>

MeasureFails(n) ==
    /\ stubber = "measure" /\ n \in DOMAIN atts \ DOMAIN stubs
    /\ Unmeasurable(atts[n])
    /\ stubber' = "done" /\ stubErr' = "attachment"
    /\ attEnd' = "attachment" /\ inClosed' = TRUE
    /\ UNCHANGED <<atts, copyVars, fileVars>>

AllMeasured ==
    /\ stubber = "measure" /\ DOMAIN stubs = DOMAIN atts
    /\ stubber' = "copy"
    /\ UNCHANGED <<atts, copyVars, stubErr, attEnd, inClosed, fileVars>>

\* The decoder reads ahead as far as it likes.
Fetch ==
    /\ stubber = "copy" /\ fetched = passed
    /\ encodable /\ ~inClosed
    /\ fetched' \in fetched + 1 .. Len(members)
    /\ UNCHANGED <<stubber, atts, stubs, passed, stubErr, attEnd, inClosed, fileVars>>

\* The encoder's error, or the pipe that createMultipart has closed.
FetchFails ==
    /\ stubber \in {"copy", "rest"} /\ fetched = passed /\ passed < Len(members)
    /\ ~encodable \/ inClosed
    /\ stubber' = "close" /\ stubErr' = IF inClosed THEN "closed" ELSE "document"
    /\ UNCHANGED <<atts, copyVars, attEnd, inClosed, fileVars>>

\* What "%s" makes of a decoded key between quotes.
Unescaped(m) == IF m \in Quoted THEN {Other, Invalid} ELSE {m}

\* A member goes to createMultipart as m, which writes it to the file or fails to.
HandOn(m) ==
    /\ multi = "doc"
    /\ passed' = passed + 1
    /\ \/ /\ jsonPart' = Append(jsonPart, m)
          /\ UNCHANGED <<multi, multiErr>>
       \/ /\ multi' = "close" /\ multiErr' = "file"
          /\ UNCHANGED jsonPart
    /\ UNCHANGED <<atts, stubs, stubErr, attEnd, inClosed, parts>>

\* The decoder's members one by one, with their keys decoded; at _attachments the
\* stubs.
CopyMember ==
    /\ stubber = "copy" /\ passed < fetched
    /\ \E m \in Unescaped(members[passed + 1]) : HandOn(m)
    /\ stubber' = IF members[passed + 1] = Atts THEN "buffered" ELSE "copy"
    /\ UNCHANGED fetched

\* Behind _attachments, what the decoder has read already, ...
CopyBuffered ==
    /\ stubber = "buffered" /\ passed < fetched
    /\ HandOn(members[passed + 1])
    /\ UNCHANGED <<stubber, fetched>>

BufferCopied ==
    /\ stubber = "buffered" /\ passed = fetched
    /\ stubber' = "rest"
    /\ UNCHANGED <<atts, copyVars, stubErr, attEnd, inClosed, fileVars>>

\* ... and the rest as it is.
CopyRest ==
    /\ stubber = "rest" /\ passed < Len(members) /\ ~inClosed
    /\ HandOn(members[passed + 1])
    /\ fetched' = passed' /\ UNCHANGED stubber

DocumentEnds ==
    /\ stubber = "rest" /\ passed = Len(members)
    /\ stubber' = "close"
    /\ UNCHANGED <<atts, copyVars, stubErr, attEnd, inClosed, fileVars>>

\* in.Close, and attJSON ends.
CloseAttJSON ==
    /\ stubber = "close"
    /\ stubber' = "done" /\ inClosed' = TRUE
    /\ attEnd' = IF stubErr = None THEN "eof" ELSE stubErr
    /\ UNCHANGED <<atts, copyVars, stubErr, fileVars>>

Stubber ==
    /\ \/ \E n \in Names : Measure(n) \/ MeasureFails(n)
       \/ AllMeasured \/ Fetch \/ FetchFails \/ CopyMember \/ CopyBuffered
       \/ BufferCopied \/ CopyRest \/ DocumentEnds \/ CloseAttJSON
    /\ UNCHANGED <<callVars, stored>>

-----------------------------------------------------------------------------
(* createMultipart.  CreateMultipart adds what all its steps leave alone.   *)

\* The header of the first part is written; replaceAttachments starts the stubber.
OpenDoc ==
    /\ put = "build" /\ multi = "open"
    /\ \/ /\ multi' = "doc" /\ stubber' = "measure"
          /\ UNCHANGED multiErr
       \/ /\ multi' = "close" /\ multiErr' = "file"
          /\ UNCHANGED stubber
    /\ UNCHANGED <<atts, inClosed, jsonPart, parts>>

\* A possible bug: the contents are copied without waiting for the document's end.
DocNotAwaited ==
    /\ multi = "doc"
    /\ multi' = "files"
    /\ UNCHANGED <<stubber, atts, inClosed, multiErr, jsonPart, parts>>

\* io.Copy comes to the end of attJSON.
DocRead ==
    /\ multi = "doc" /\ attEnd # None
    /\ multi' = IF attEnd = "eof" THEN "files" ELSE "close"
    /\ multiErr' = IF attEnd = "eof" THEN None ELSE attEnd
    /\ UNCHANGED <<stubber, atts, inClosed, jsonPart, parts>>

\* A possible bug: the order of the map's iteration, this one for instance.
PartOrderOfMap(names) == Reverse(Sorted(names))

\* The order of the parts.
PartOrder(names) == Sorted(names)

\* The attachment whose content is the next part.
NextFile == PartOrder(DOMAIN atts)[Len(parts) + 1]

\* A possible bug: the content is not closed.
CopyFileOnly ==
    /\ multi = "files" /\ Len(parts) < Cardinality(DOMAIN atts)
    /\ ~atts[NextFile].broken \/ atts[NextFile].buffered
    /\ parts' = Append(parts, [of |-> NextFile, len |-> atts[NextFile].len])
    /\ UNCHANGED <<atts, stubber, inClosed, multi, multiErr, jsonPart>>

\* One content goes into a part of its own and is closed; the Close of a buffered
\* content closes nothing.
CopyFile ==
    /\ multi = "files" /\ Len(parts) < Cardinality(DOMAIN atts)
    /\ ~atts[NextFile].broken \/ atts[NextFile].buffered
    /\ parts' = Append(parts, [of |-> NextFile, len |-> atts[NextFile].len])
    /\ atts' = [atts EXCEPT ![NextFile].open = @ /\ atts[NextFile].buffered]
    /\ UNCHANGED <<stubber, inClosed, multi, multiErr, jsonPart>>

\* The content cannot be read, or the file not be written.
CopyFileFails ==
    /\ multi = "files" /\ Len(parts) < Cardinality(DOMAIN atts)
    /\ multi' = "close"
    /\ \/ /\ atts[NextFile].broken /\ ~atts[NextFile].buffered
          /\ multiErr' = "attachment"
       \/ multiErr' = "file"
    /\ UNCHANGED <<atts, stubber, inClosed, jsonPart, parts>>

\* multipart.Writer.Close writes the last boundary.
FilesCopied ==
    /\ multi = "files" /\ Len(parts) = Cardinality(DOMAIN atts)
    /\ multi' = "close" /\ multiErr' \in {None, "file"}
    /\ UNCHANGED <<stubber, atts, inClosed, jsonPart, parts>>

\* The goroutine's in.Close, which stops the encoder.
CloseIn ==
    /\ multi = "close"
    /\ multi' = "done" /\ inClosed' = TRUE
    /\ UNCHANGED <<stubber, atts, multiErr, jsonPart, parts>>

CreateMultipart ==
    /\ OpenDoc \/ DocRead \/ CopyFile \/ CopyFileFails \/ FilesCopied \/ CloseIn
    /\ UNCHANGED <<callVars, copyVars, stubErr, attEnd, stored>>

-----------------------------------------------------------------------------
(* The request.                                                             *)

\* setHeaders declares the size of the file.  What compressBody makes of the file
\* has another size, and net/http does not send what differs from its declaration.
LengthDiffers ==
    /\ put = "send" /\ compress
    /\ Become("idle", "length")
    /\ UNCHANGED stored

\* CouchDB pairs the stubs, in the order of the JSON text, with the parts.
Paired ==
    LET order == Sorted(DOMAIN stubs)
    IN  [members |-> jsonPart,
         files   |-> [n \in DOMAIN stubs |->
                         parts[CHOOSE i \in DOMAIN order : order[i] = n]],
         length  |-> stubs]

\* The server stores the document when it is one, and its answer may be lost.
StoreDoc ==
    /\ put = "send" /\ ~compress
    /\ \A i \in DOMAIN jsonPart : jsonPart[i] # Invalid
    /\ stored' = Paired
    /\ \E r \in {"ok", "network"} : Become("idle", r)

\* A conflict, for instance, or no connection.
NotStored ==
    /\ put = "send" /\ ~compress
    /\ \E r \in {"refused", "network"} : Become("idle", r)
    /\ UNCHANGED stored

Request == LengthDiffers \/ StoreDoc \/ NotStored

PutNext ==
    \/ Extract \/ NoTempFile \/ Built \/ FileReady
    \/ Stubber \/ CreateMultipart \/ Request

\* Goroutines run and the server answers; the caller need not put.
PutFairness ==
    /\ WF_<<putVars, stored>>(Stubber)
    /\ WF_<<putVars, stored>>(CreateMultipart)
    /\ WF_<<putVars, stored>>(Built \/ FileReady \/ Request)

-----------------------------------------------------------------------------
(* Properties.                                                              *)

Whole(as) == [n \in DOMAIN as |-> [of |-> n, len |-> as[n].len]]
LengthsOf(as) == [n \in DOMAIN as |-> as[n].len]

\* The copy has the members of the document, each as it is; except that in front of
\* _attachments a name may have lost its escapes.
CopyOf(copy, ms) ==
    /\ Len(copy) = Len(ms)
    /\ \A i \in DOMAIN ms :
         \/ copy[i] = ms[i]
         \/ /\ ms[i] \in Quoted /\ copy[i] \in {Other, Invalid}
            /\ \E j \in i + 1 .. Len(ms) : ms[j] = Atts

\* Nothing is sent before all of it is in the file: an error of the encoder, of a
\* content or of the file stops the Put before the request.
SentWhole ==
    put = "send" =>
        /\ encodable /\ CopyOf(jsonPart, members)
        /\ {parts[i] : i \in DOMAIN parts} = {Whole(given)[n] : n \in DOMAIN given}

\* The two goroutines use the attachments in turn, without a lock: no size is
\* measured, which may read and replace a content, once createMultipart copies the
\* contents or Put has returned.
ContentsInTurn ==
    stubber = "measure" => put = "build" /\ multi = "doc"

\* A Put returns, whichever of encoder, contents, file and server fails: neither
\* goroutine waits for a pipe that the other has left.  The stubber ends too, but
\* when the file fails among the members of the document nobody reads attJSON any
\* more and the stubber stays behind its pipe, so this is said of the other Puts.
PutReturns ==
    /\ put = "build" ~> put = "idle"
    /\ stubber = "measure" ~> (stubber = "done" \/ multiErr = "file")

\* A Put that succeeds has closed the contents it was given, but for those it had to
\* read for their size.
ContentsClosed ==
    result = "ok" => \A n \in DOMAIN atts : atts[n].open => atts[n].buffered
=============================================================================
