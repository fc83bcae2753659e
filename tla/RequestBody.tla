---------------------------- MODULE RequestBody ----------------------------
(***************************************************************************)
(* chttp/chttp.go: the body of one request on its way from a Go value to   *)
(* the transport.  EncodeBody writes the JSON document into a pipe from a  *)
(* goroutine of its own, compressBody copies it through gzip into a second *)
(* pipe from another, and DoReq returns as soon as http.Client does, which *)
(* need not have read the body to its end: it may never have begun, when   *)
(* CookieAuth.RoundTrip cannot log in.  When the request has to be sent    *)
(* again, net/http calls GetBody for a new body.                           *)
(*                                                                         *)
(*   encoder[a] --source a--> gzip --zip pipe--> transport     (a = 1)     *)
(*   encoder[a] --source a---------------------> transport     (otherwise) *)
(*                                                                         *)
(* A write to a pipe waits for a reader that takes the data, so a chunk    *)
(* passes in a step of both.                                               *)
(***************************************************************************)
EXTENDS Naturals

CONSTANTS Chunks,       \* chunks of the document: a reader may take it in parts
          MaxAttempts,  \* bound: times net/http sends the request
          AuthMayFail,  \* the Authenticator may return an error
          None

ASSUME ConstAssumption ==
    /\ Chunks \in Nat /\ MaxAttempts \in Nat \ {0}
    /\ AuthMayFail \in BOOLEAN

Ends == {"eof", "marshal", "closed"}
ASSUME NoneIsNoEnd == None \notin Ends

VARIABLES
    encodable,  \* the value can be marshaled
    compress,   \* shouldCompressBody: the request has Content-Encoding: gzip
    doReq,      \* DoReq: idle, do (in http.Client), close, wait, done
    attempt,    \* the body net/http uses: 0 before DoReq
    encoder,    \* the goroutine of each EncodeBody: off, write, done
    left,       \* chunks it still has to write
    srcEnd,     \* what it closed its pipe with, or None
    srcClosed,  \* the reading end of its pipe was closed
    gzip,       \* the goroutine of compressBody: off, copy, flush, trailer,
                \* end, close, wait, done
    held,       \* chunks in the gzip.Writer
    copyErr,    \* what stopped io.Copy early, or None
    zipEnd,     \* what it closed its pipe with, or None
    zipClosed,  \* the reading end of that pipe was closed
    transport,  \* idle, send, ended
    sent,       \* chunks of this attempt's document on the wire
    wire,       \* how they were encoded: none, plain or gzip
    seen        \* the end of the body, as the transport saw it

request == <<encodable, compress>>
source  == <<encoder, left, srcEnd, srcClosed>>
zip     == <<gzip, held, copyErr, zipEnd, zipClosed>>
net     == <<transport, sent, wire, seen>>
vars    == <<request, doReq, attempt, source, zip, net>>

Attempts == 1 .. MaxAttempts

TypeOK ==
    /\ encodable \in BOOLEAN /\ compress \in BOOLEAN
    /\ doReq \in {"idle", "do", "close", "wait", "done"}
    /\ attempt \in 0 .. MaxAttempts
    /\ encoder \in [Attempts -> {"off", "write", "done"}]
    /\ left \in [Attempts -> 0 .. Chunks]
    /\ srcEnd \in [Attempts -> Ends \cup {None}]
    /\ srcClosed \in [Attempts -> BOOLEAN]
    /\ gzip \in {"off", "copy", "flush", "trailer", "end", "close", "wait", "done"}
    /\ held \in 0 .. Chunks
    /\ copyErr \in {None, "marshal", "closed"}
    /\ zipEnd \in Ends \cup {None}
    /\ zipClosed \in BOOLEAN
    /\ transport \in {"idle", "send", "ended"}
    /\ sent \in 0 .. Chunks
    /\ wire \in {"none", "plain", "gzip"}
    /\ seen \in Ends \cup {None}

Init ==
    /\ encodable \in BOOLEAN /\ compress \in BOOLEAN
    /\ doReq = "idle"
    /\ attempt = 0
    /\ encoder = [a \in Attempts |-> "off"]
    /\ left = [a \in Attempts |-> Chunks]
    /\ srcEnd = [a \in Attempts |-> None]
    /\ srcClosed = [a \in Attempts |-> FALSE]
    /\ gzip = "off" /\ held = 0 /\ copyErr = None
    /\ zipEnd = None /\ zipClosed = FALSE
    /\ transport = "idle" /\ sent = 0 /\ wire = "none" /\ seen = None

-----------------------------------------------------------------------------
(* EncodeBody.                                                              *)

\* A possible bug: the pipe is closed without the error.
EncodeFailsSilently(a) ==
    /\ encoder[a] = "write" /\ ~encodable
    /\ encoder' = [encoder EXCEPT ![a] = "done"]
    /\ srcEnd' = [srcEnd EXCEPT ![a] = "eof"]
    /\ UNCHANGED <<request, doReq, attempt, left, srcClosed, zip, net>>

\* json.Encoder marshals before it writes: nothing was written.
EncodeFails(a) ==
    /\ encoder[a] = "write" /\ ~encodable
    /\ encoder' = [encoder EXCEPT ![a] = "done"]
    /\ srcEnd' = [srcEnd EXCEPT ![a] = "marshal"]
    /\ UNCHANGED <<request, doReq, attempt, left, srcClosed, zip, net>>

\* The document was read, or the pipe closed under it.
EncodeEnds(a) ==
    /\ encoder[a] = "write" /\ encodable
    /\ left[a] = 0 \/ srcClosed[a]
    /\ encoder' = [encoder EXCEPT ![a] = "done"]
    /\ srcEnd' = [srcEnd EXCEPT ![a] = IF left[a] = 0 THEN "eof" ELSE "closed"]
    /\ UNCHANGED <<request, doReq, attempt, left, srcClosed, zip, net>>

\* What a Read of source a returns: a chunk, ...
TakeChunk(a) ==
    /\ encoder[a] = "write" /\ encodable
    /\ left[a] > 0 /\ ~srcClosed[a]
    /\ left' = [left EXCEPT ![a] = @ - 1]
    /\ UNCHANGED <<encoder, srcEnd, srcClosed>>

\* ... or an end; None while it has to wait.
SourceEnd(a) == IF srcClosed[a] THEN "closed" ELSE srcEnd[a]

CloseSource(a) == /\ srcClosed' = [srcClosed EXCEPT ![a] = TRUE]
                  /\ UNCHANGED <<encoder, left, srcEnd>>

-----------------------------------------------------------------------------
(* compressBody: the goroutine that copies source 1 into the gzip.Writer.   *)

\* gz.Write may or may not have something for the pipe.
GzipRead ==
    /\ gzip = "copy"
    /\ TakeChunk(1)
    /\ held' = held + 1
    /\ gzip' \in {"copy", "flush"}
    /\ UNCHANGED <<request, doReq, attempt, copyErr, zipEnd, zipClosed, net>>

GzipReadsEnd ==
    /\ gzip = "copy"
    /\ SourceEnd(1) # None
    /\ copyErr' = IF SourceEnd(1) = "eof" THEN None ELSE SourceEnd(1)
    /\ gzip' = "trailer"
    /\ UNCHANGED <<request, doReq, attempt, source, held, zipEnd, zipClosed, net>>

\* A possible bug: what was written is written again.
TakeHeldAgain ==
    /\ transport = "send" /\ attempt = 1 /\ ~zipClosed
    /\ sent' = sent + held
    /\ wire' = "gzip"
    /\ UNCHANGED <<held, transport, seen>>

\* The transport takes what the gzip.Writer wrote.
TakeHeld ==
    /\ transport = "send" /\ attempt = 1 /\ ~zipClosed
    /\ sent' = sent + held
    /\ wire' = "gzip"
    /\ held' = 0
    /\ UNCHANGED <<transport, seen>>

GzipFlush ==
    /\ gzip = "flush"
    /\ TakeHeld
    /\ gzip' = "copy"
    /\ UNCHANGED <<request, doReq, attempt, source, copyErr, zipEnd, zipClosed>>

GzipFlushFails ==
    /\ gzip = "flush" /\ zipClosed
    /\ copyErr' = "closed"
    /\ gzip' = "end"
    /\ UNCHANGED <<request, doReq, attempt, source, held, zipEnd, zipClosed, net>>

\* gz.Close writes what is held and the gzip trailer, whatever stopped io.Copy.
GzipTrailer ==
    /\ gzip = "trailer"
    /\ TakeHeld \/ (zipClosed /\ UNCHANGED <<held, net>>)
    /\ gzip' = "end"
    /\ UNCHANGED <<request, doReq, attempt, source, copyErr, zipEnd, zipClosed>>

\* A possible bug: the gzip trailer makes the copy look complete.
GzipEndsClean ==
    /\ gzip = "end"
    /\ zipEnd' = "eof"
    /\ gzip' = "close"
    /\ UNCHANGED <<request, doReq, attempt, source, held, copyErr, zipClosed, net>>

\* A possible bug: the gzip.Writer is closed, the pipe is not.
GzipLeavesPipe ==
    /\ gzip = "end"
    /\ gzip' = "close"
    /\ UNCHANGED <<request, doReq, attempt, source, held, copyErr, zipEnd, zipClosed, net>>

\* w.CloseWithError(err)
GzipEnds ==
    /\ gzip = "end"
    /\ zipEnd' = IF copyErr = None THEN "eof" ELSE copyErr
    /\ gzip' = "close"
    /\ UNCHANGED <<request, doReq, attempt, source, held, copyErr, zipClosed, net>>

\* The deferred closer.Close(): ebReader.Close waits for the encoder.
GzipClosesSource ==
    /\ gzip = "close"
    /\ CloseSource(1)
    /\ gzip' = "wait"
    /\ UNCHANGED <<request, doReq, attempt, held, copyErr, zipEnd, zipClosed, net>>

GzipDone ==
    /\ gzip = "wait" /\ encoder[1] = "done"
    /\ gzip' = "done"
    /\ UNCHANGED <<request, doReq, attempt, source, held, copyErr, zipEnd, zipClosed, net>>

-----------------------------------------------------------------------------
(* DoReq.                                                                   *)

Starts(a) == encoder' = [encoder EXCEPT ![a] = "write"]

DoReq ==
    /\ doReq = "idle"
    /\ doReq' = "do"
    /\ attempt' = 1
    /\ Starts(1)
    /\ gzip' = IF compress THEN "copy" ELSE "off"
    /\ UNCHANGED <<request, left, srcEnd, srcClosed, held, copyErr, zipEnd, zipClosed, net>>

\* RoundTrip returns the error of authenticate; nobody closes the body.
AuthFails ==
    /\ doReq = "do" /\ transport = "idle" /\ AuthMayFail
    /\ doReq' = "close"
    /\ UNCHANGED <<request, attempt, source, zip, net>>

\* http.Client has its answer, or gives up.  The transport may still be at it.
Answered ==
    /\ doReq = "do" /\ transport # "idle"
    /\ doReq' = "close"
    /\ UNCHANGED <<request, attempt, source, zip, net>>

\* A possible bug: Close waits for the encoder before it closes the pipe.
CloseBodyLate ==
    /\ doReq = "close" /\ encoder[1] = "done"
    /\ CloseSource(1)
    /\ doReq' = "wait"
    /\ UNCHANGED <<request, attempt, zip, net>>

\* The deferred opts.Body.Close(), of the first body.
CloseBody ==
    /\ doReq = "close"
    /\ CloseSource(1)
    /\ doReq' = "wait"
    /\ UNCHANGED <<request, attempt, zip, net>>

Returned ==
    /\ doReq = "wait" /\ encoder[1] = "done"
    /\ doReq' = "done"
    /\ UNCHANGED <<request, attempt, source, zip, net>>

-----------------------------------------------------------------------------
(* net/http, modelled from what the code relies on.                         *)

Zipped == compress /\ attempt = 1

BeginSend ==
    /\ doReq = "do" /\ transport = "idle"
    /\ transport' = "send"
    /\ UNCHANGED <<request, doReq, attempt, source, zip, sent, wire, seen>>

SendChunk ==
    /\ transport = "send" /\ ~Zipped
    /\ TakeChunk(attempt)
    /\ sent' = sent + 1
    /\ wire' = "plain"
    /\ UNCHANGED <<request, doReq, attempt, zip, transport, seen>>

BodyEnd == IF Zipped THEN zipEnd ELSE SourceEnd(attempt)

\* The transport closes the body it was given, and only that.
Stop(end) ==
    /\ transport' = "ended"
    /\ seen' = end
    /\ IF Zipped
       THEN zipClosed' = TRUE /\ UNCHANGED source
       ELSE CloseSource(attempt) /\ UNCHANGED zipClosed
    /\ UNCHANGED <<request, doReq, attempt, gzip, held, copyErr, zipEnd, sent, wire>>

SendEnds == transport = "send" /\ BodyEnd # None /\ Stop(BodyEnd)

\* The connection broke, the context ended, or the server did not want it all.
SendBreaks == transport = "send" /\ Stop("closed")

\* A redirect, or a connection that broke before an answer: GetBody again.
Retry ==
    /\ doReq = "do" /\ transport = "ended" /\ seen # "marshal"
    /\ attempt < MaxAttempts
    /\ attempt' = attempt + 1
    /\ Starts(attempt')
    /\ transport' = "send" /\ sent' = 0 /\ wire' = "none" /\ seen' = None
    /\ UNCHANGED <<request, doReq, left, srcEnd, srcClosed, zip>>

-----------------------------------------------------------------------------
Encode(a) == EncodeFails(a) \/ EncodeEnds(a)
Gzip == \/ GzipRead \/ GzipReadsEnd \/ GzipFlush \/ GzipFlushFails
        \/ GzipTrailer \/ GzipEnds \/ GzipClosesSource \/ GzipDone
Do   == AuthFails \/ Answered \/ CloseBody \/ Returned
Send == BeginSend \/ SendChunk \/ SendEnds

Ended ==
    /\ doReq = "done" /\ transport # "send"
    /\ \A a \in Attempts : encoder[a] # "write"
    /\ UNCHANGED vars

Next ==
    \/ DoReq \/ Do \/ Gzip \/ Send \/ SendBreaks \/ Retry \/ Ended
    \/ \E a \in Attempts : Encode(a)

\* Goroutines keep running, the transport reads what there is to read, and
\* http.Client has an answer in the end.  Nothing need break.
Fairness ==
    /\ WF_vars(Do) /\ WF_vars(Gzip) /\ WF_vars(Send)
    /\ \A a \in Attempts : WF_vars(Encode(a))

Spec     == Init /\ [][Next]_vars
FairSpec == Spec /\ Fairness

-----------------------------------------------------------------------------
(* What the callers and the server rely on.                                 *)

\* A body that ends without an error is a whole document: neither a value that
\* cannot be marshaled, nor a body closed by DoReq, by gzip or by the transport
\* in the middle of the copy, leaves the server with a shorter one.
CompleteOrBroken == seen = "eof" => encodable /\ sent = Chunks

\* DoReq returns: its deferred Close, which waits for the encoder, never waits
\* for an encoder that waits for a reader.
DoReqReturns == doReq # "idle" ~> doReq = "done"

\* Once the transport has the request, neither it nor a goroutine of the body
\* stays behind, waiting for the other end of a pipe.
NoneStaysBehind ==
    transport # "idle" ~>
        /\ transport = "ended" /\ gzip \in {"off", "done"}
        /\ \A a \in Attempts : encoder[a] # "write"

\* A body sent again is encoded as the request declares (options.go: GetBody
\* "can be used on retries").
EncodedAsDeclared == wire # "none" => (wire = "gzip" <=> compress)

\* RoundTrip keeps the contract of http.RoundTripper, which includes closing the
\* body when it returns an error ("RoundTrip fulfills the http.RoundTripper
\* interface"): the goroutine behind a compressed body ends.
GzipGoroutineEnds == doReq = "done" ~> gzip \in {"off", "done"}
=============================================================================
