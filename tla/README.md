# Verification of the CouchDB driver

TLA+ models of `go-kivik/couchdb`, the CouchDB driver of Kivik: what the
driver's goroutines, pipes, locks and streamed responses do, checked with TLC on
small instances and, for the properties that matter most, proved with TLAPS for
every instance. Source lines below are those of this repository.

## The system

The driver turns calls of the `kivik` package into HTTP requests. Its parts:

| Part | Source | State | Operations |
|---|---|---|---|
| Cookie authentication | `chttp/cookieauth.go`, `chttp/auth.go` | the client's cookie jar, `authMU`, requests under way | `RoundTrip`, `authenticate`, `shouldAuth`, the nested `POST /_session` |
| Request bodies | `chttp/chttp.go` | two pipes and a goroutine behind each, the request's body | `EncodeBody`, `compressBody`, `NewRequest`, `DoReq`, `ebReader.Close` |
| Cancelable reader | `iter.go` | `closed`, `err`, a context, goroutines left in `rc.Read` | `Read`, `close`, `Close` |
| Result iterators | `iter.go`, `rows.go`, `changes.go`, `client.go` | a `json.Decoder`, `closed`, metadata, the query index | `Next`, `Close`, of rows, find, bulk get, revs diff, changes, DB updates and multiple queries |
| Replication | `replication.go`, `scheduler.go` | the cached answer to "has the server a scheduler", the fields of a replication, two mutexes | `Replicate`, `GetReplications`, `Update`, `Delete`, the getters |
| Documents and attachments | `db.go`, `attachments.go` | response bodies, a temporary file, the caller's attachments | `Get`, `Put`, `GetRev`, `GetAttachment`, `GetAttachmentMeta`, the iterator over attachments |
| Database and cluster operations | `db.go`, `client.go`, `cluster.go`, `config.go`, `find.go`, `dbstats.go`, `bulk.go`, ... | an exchange: the request's body, the answer's body, the context | some forty operations of one request and one answer; `DoReq`, `DoJSON`, `DoError`, `netError` |
| Other authenticators, tracing | `auth.go`, `chttp/basicauth.go`, `chttp/proxyauth.go`, `chttp/trace.go` | the chain of transports of an `http.Client`, `Client.auth` | `New`, `Auth`, `Authenticate`, each `RoundTrip`, the hooks of `ClientTrace` |
| Options, paths, errors | `util.go`, `chttp/encode.go`, `chttp/errors.go`, ... | none | conversions |

They interact as follows. Every operation calls `chttp.DoReq`, which builds the
body (Request bodies), shows it to the hooks of a trace and calls `http.Client.Do`;
the client's transport is a chain of authenticators, each of which has the one that
was there before it behind it. One of them may be `CookieAuth`, which sends a request
of its own through the same client when it has to log in. `net/http` may send a
request again, of its own accord, when it looks repeatable. A response that is a list is wrapped in a cancelable reader
and parsed by an iterator as it arrives, by the caller's goroutine, while others
may close it or end its context. Replication is built from ordinary requests and
documents, and keeps state between them.

What is hard here, and which property is about it:

- goroutines that share a client find it without a session at the same time; a
  session ends while others use it; the login runs with a lock held and passes
  through the same code (`LoginsJustified`, `RefusedForgotten`, `CallsComplete`,
  `SharesSession`);
- a body passes through two pipes of which every end may close or fail, and must
  neither look complete when it is not, nor keep a goroutine
  (`CompleteOrBroken`, `DoReqReturns`, `NoneStaysBehind`, `EncodedAsDeclared`,
  `GzipGoroutineEnds`);
- `Read`, `Close` and the end of a context race, and `Read` leaves a goroutine
  behind in the body (`OneReadOfBody`, `EOFMeansAll`, `IsByteStream`,
  `ReadReturns`, `OrphansEnd`);
- a response breaks off anywhere, while its end is recognised by the same
  `io.EOF` (`RowsAllDelivered`, `RowOfQuery`, `MetaAllParsed`, `EndClosesBody`,
  `NoRowAfterClose`, `TruncatedIsError`);
- the server's document changes between the requests of one call, and goroutines
  update one replication (`SameAnswer`, `ReadsOneVersion`, `CallsReturn`);
- a document with attachments is built by three goroutines behind two pipes, from
  contents that are read twice, in an order that two packages have to agree on; of
  a response, every part of the driver has to know whether the body is still its own
  (`StoredAsGiven`, `SentWhole`, `ContentsInTurn`, `ContentsClosed`, `PutReturns`,
  `GotAsServed`, `BodyOwned`, `RoundTrip`);
- a request passes through authenticators that were installed in four ways and in
  any order, may be sent again behind the driver's back, and may fail before,
  during or behind the server's work; what the caller is told has to be the answer
  to its request, and nothing may be left open or done twice (`PassesEachOnce`,
  `ProcessedRightly`, `NothingLeftOpen`, `ResultFromAnswer`, `CancelReturns`,
  `PingAsDocumented`).

`PROJECT.json` lists each hazard at its line, those without a property with the
reason, and where a property covers only part of a hazard, which part.

## The modules

| Module | Models | Extended or used by |
|---|---|---|
| `SharedSession` | the promise of cookie authentication: one session, one login at a time | `CookieAuth` (INSTANCE) |
| `CookieAuth` | `chttp/cookieauth.go` | `MCCookieAuth`, `CookieAuthProofs` |
| `ByteStream` | the promise of a response body: chunks in order, one last word | `CancelableReader` (INSTANCE) |
| `CancelableReader` | `cancelableReadCloser` of `iter.go` | `MCCancelableReader`, `CancelableReaderProofs` |
| `RequestBody` | `EncodeBody`, `compressBody`, `DoReq` of `chttp/chttp.go` | `MCRequestBody`, `RequestBodyProofs` |
| `ResultRows` | `iter`, its parsers, `multiQueriesRows` | `MCResultRows`, `ResultRowsProofs` |
| `Replication` | `replication.go`, `scheduler.go` | `MCReplication`, `ReplicationProofs` |
| `DocumentStore` | what the server holds of one document | `MultipartPut`, `DocumentGet` |
| `MultipartPut` | `Put` of a document with attachments, `db.go` | `Documents`, `MultipartPutProofs` |
| `DocumentGet` | the responses to `Get`, `GetRev`, `GetAttachment(Meta)`, `db.go`, `attachments.go`, `chttp.go` | `Documents` |
| `Documents` | the two, with a caller that puts and then gets | `MCDocuments`, `DocumentsProofs` (with `MultipartPutProofs`) |
| `Authenticators` | how a client gets its chain of transports: `auth.go`, `chttp/basicauth.go`, `chttp/proxyauth.go`, `New` | `Exchange` |
| `Operations` | the operations, by what they ask of `net/http` and make of the answer | `Exchange` |
| `Exchange` | one operation from the call to its result: `DoReq`, `chttp/trace.go`, `net/http`'s retries | `MCExchange`, `ExchangeProofs` |

Operators named "a possible bug" in a comment stand for a mistake that the code
does not make. No specification uses them: they show that a property would notice
the mistake.

### CookieAuth

A worker is a goroutine in a call; `pc` says where. `Send` is `http.Client.Do`
copying the jar's cookies to the request before `RoundTrip` runs, a step of its own
because everything may change before `Authenticate` looks at the jar again.
`authenticate` up to the lock is `Authenticate`; under the lock it is
`UseOthersLogin` or `BeginLogin`, and then `PostSession`, the nested request
(`nested`, the context key `authInProgress`), and `Adopt`. The 401 handling is two
steps, `Returned` (the cookie is read) and `Drop` (it is stored with yesterday's
date), since `cookiejar` locks each of them and not both. The server may accept,
refuse, renew or drop sessions as it likes. Two facts about libraries are constants:
whether the jar shows the expiry (`net/http/cookiejar` does not), and whether the
cookie's path is the jar's default path for the DSN.

### RequestBody

The document is a number of chunks; writes to an `io.Pipe` wait for the reader, so
a chunk passes in a joint step. `left`, `held` and `sent` say how much is with the
encoder, in the `gzip.Writer` and on the wire. gzip may or may not write something
out for each chunk it reads. Each attempt has an encoder of its own; only the first
passes through gzip, as in the code.

### CancelableReader

`rc.Read` runs in a goroutine (`inner`); when the select takes the context, that
goroutine becomes an orphan. `close` is two steps, because `rc.Close` runs under
the lock and may unblock others. `rc.Read` returns a chunk, with or without the
final error, or fails once the body is closed; it need not return while the server
is silent.

### ResultRows

A response is a sequence of symbols, and `cut` says how much of it arrives. The
decoder's `Token`, `Decode` and `More` are operators on positions, with the three
ways a body can end: `io.EOF` between two values, the middle of a value, another
error. One action per part of `begin`, `nextRow` and `finish`; a mode per parser,
where they differ: `changes` reports a broken row itself, an object has its ID in
front, a feed has neither an expected key nor an end, and several queries share a
decoder.

### Replication

`versions` is the history of the document on the server; a worker's `copy` is the
version it fetched. The fields of the object are copied in three steps, under `mu`
for the legacy kind and without a mutex for the scheduler kind, so that others see
what is between them. A field such as `startTime` holds the version it was taken
from. `ReadsOneVersion` speaks of what is read under one `RLock`; two calls of getters
may have an `Update` between them. A request may take effect on the server and its
answer be lost (`Post`, `Remove`).

### MultipartPut, DocumentGet, Documents

`Put` empties the caller's map (`Extract`) and builds the request's body in a file.
`stubber` is the goroutine of `replaceAttachments`: it asks every attachment for its
size, in the order of a map, and copies the members of the document to
`createMultipart` (`multi`), one at a time since `attJSON` is a pipe; `HandOn` is the
step they share. `fetched` and `passed` differ by what the JSON decoder has read
ahead, which has to follow the stubs. The names of the members in front of
`_attachments` are decoded and printed again without escapes; `Quoted` are the members
whose names need them, and such a one becomes `Other`, a member of another name, or
`Invalid`, which no server takes for a document (`Unescaped`, `StoreDoc`). What follows
`_attachments` is copied as it is. A content is a name and a number of bytes; it
is `broken` when reading it fails, and `buffered` when `attachmentSize` has replaced
it. The file may fail at each write. The server pairs stubs and parts by order, the
parts having no names; any Put may be refused or lose its answer, and the caller may
try again with what is left of its document: `given` is what a Put took out of it,
`original` what the caller began with, and they agree in the first Put only. The sizes that a caller sets are taken
to be right, and `Stat` to be that of a file at its beginning. A goroutine that is
left behind by a Put whose file failed is followed until the next Put.

A response body is a sequence of units that may break off behind each (`whole`,
`served`). `body` says whether the response's body is open; `buffer` is what
`extractRev` has read and put back. The actions follow the tests of the header in
the code's order, with the paths on which the body stays open. `Documents` lets the
Get begin when no Put is under way: they meet in `stored` alone, which changes in
one step.

### Authenticators, Operations, Exchange

`Authenticators` builds the chain: `transport` is `http.Client.Transport`, `next` what
an authenticator has behind it. The caller's own `http.Client` may have a transport.
`New` installs `CookieAuth` for a DSN with credentials, and may still fail behind that;
`Auth` wraps once; `Authenticate` wraps as often as it is called, except that
`SetTransport` and `SetCookie` want a client without a transport.

`Operations` says of each operation what `Exchange` needs to know: its method, how its
body is made, whether it is marked `X-Idempotency-Key`, whether the server may process
it twice, whether it has the caller's context, and how it ends (`DoJSON`, `DoError`,
`GetRev`, an iterator, or its own way, as `DBExists`, `Ping` and `BulkDocs`). Operations
that agree in all of it are one record. `repeats` is a judgement
about what the operation does to a database, `marked`, `safe` and `body` are read from
the code; each operation is given the two apart, and `ProcessedRightly` compares them.

`Exchange` is one call. `at` is the transport that has the request, `passed` those that
have had it. The login is `MustLogin`, which waits for `authMU` ("lock"), `HasLock`,
which finds another's session or asks for one ("login"), and its answer; `CookieAuth` has
it in full. Here it matters that it may fail, with a status of its own, before the
operation's request is sent. Three bodies have to be closed. `open` has the first two:
`Options.Body` ("source"), which `DoReq` closes in the end (`CloseSource`), and what was
made of it for `Request.Body`: itself, the pipe of `compressBody`, or the replay of a
trace. `http.Transport` closes what it is given; a login that fails keeps the request
from it. `conn` is the answer's body. `sends` says that the request's body ends as
`net/http` wants it; a replay repeats the error of the original (`encodable`). A body of
the caller's own that fails has no status (`Content`), one of `EncodeBody` has 400.
`arrival` is "value" when a JSON value could be decoded from the answer, even if it broke
off behind it. `Replayable` is `net/http`'s rule for sending again. `processed` counts
what the server has done, which the driver does not see.

## The runs

| Run | Instance | Shows |
|---|---|---|
| `cookie` | 2 workers, 3 calls, 3 sessions | type, `LoginsJustified`, `RefusedForgotten`, `CallsComplete`, refinement of `SharedSession` |
| `cookie_path` | the same, another cookie path | violation of `RefusedForgotten` |
| `reader` | 3 chunks, 2 closers | type, `OneReadOfBody`, `EOFMeansAll`, refinement of `ByteStream`, `ReadReturns`, `OrphansEnd` |
| `body` | 3 chunks, 2 attempts, logins may fail | type, `CompleteOrBroken`, `DoReqReturns`, `NoneStaysBehind` |
| `body_retry` | 2 chunks, 2 attempts | violation of `EncodedAsDeclared` |
| `body_leak` | 2 chunks, 1 attempt, logins may fail | violation of `GzipGoroutineEnds` |
| `rows` | 20 responses, cut everywhere | type and the five properties of the iterators |
| `rows_truncated` | the same | violation of `TruncatedIsError` |
| `replication` | 2 workers, 3 calls, 4 versions | type, `SameAnswer`, `ReadsOneVersion`, `CallsReturn` |
| `documents` | 0 to 2 attachments of 0 or 1 bytes, 3 members, 2 Puts | type, `StoredAsGiven`, `SentWhole`, `ContentsInTurn`, `ContentsClosed`, `PutReturns`, `GotAsServed`, `BodyOwned`, `RoundTrip` |
| `exchange` | every operation; 5 authenticators, 2 of them installed; answers 200, 400, 401, 404, 417; logins 200, 400, 401, 404, 500; processed at most twice | type, `PassesEachOnce`, `ProcessedRightly`, `NothingLeftOpen`, `ResultFromAnswer`, `CancelReturns` |
| `exchange_login` | the same | violation of `PingAsDocumented` |

Why the bounds are enough to mean something. Two workers and three calls let one
worker log in, the session be refused, and both find the jar empty again; three
sessions are one more than two logins need, so a renewal can race with them. Two
closers and the reader are three parties for one lock, and with three chunks there
is data before, at and after the race. Two attempts have a first body, which is
compressed, and another, which is not. The responses have metadata before, behind
and around two rows, an empty array, no array at all, an unexpected start, and one
or two queries, the first of which decides whether the server is an old one. Four
versions are the longest way of a replication with one error in it. Two attachments
have an order, and contents of different lengths and kinds; three members have one
before, one behind and the decoder's choice of how far to read, and the one whose name
needs escapes is before or behind; a second Put has the
emptied document and may follow one whose answer was lost. The five authenticators are
one of each kind that chains in a way of its own, and a second `CookieAuth`, which a
`New` that failed may leave behind; two of them have an order. The statuses are those
that some operation treats in its own way, one that every operation takes for an error
and one that ends a session, of the login's too; processing a request twice is the first time too often.

### What the violations say

- `cookie_path`: the cookie that `Jar.Cookies` returns has no path. Storing it with
  a date in the past removes the entry under the jar's default path, and no other.
- `body_retry`: `req.GetBody` is `opts.GetBody`, which knows nothing of gzip.
- `body_leak`: `RoundTrip` returns the error of `authenticate` and does not close
  the body.
- `rows_truncated`: `finish` passes on the plain `io.EOF` of the decoder.
- `exchange_login`: `netError` keeps the status of a login that failed, and the error is
  all that `Ping` looks at. A 400 makes it use a response there is none of, a 404 makes
  it say `false` without having asked. `DBExists` takes the 404 in the same way.
  `ResultFromAnswer` excepts these two by name (`LoginMistaken`).

Other findings have no run of their own, since a line shows them, since the step that
does it is in a model, or since a constant of `Exchange` is chosen so that the run is
about something else:

- `putOpts` declares the size of its file, `NewRequest` has replaced the file by its gzip
  stream, and `net/http` does not send what differs from its declaration: a client that
  compresses cannot put a document with attachments (`LengthDiffers` in `MultipartPut`).
- The stubber decodes the names of members and prints them with `"%s"`, so a name in
  front of `_attachments` loses the escapes it needs (`Unescaped`). `StoredAsGiven` and
  `SentWhole` say no more of such a member than that there is something in its place
  (`CopyOf`); all others are as they were given.
- `extractAttachments` empties the caller's document before the request is made, so a Put
  that is tried again succeeds without attachments (`Extract`). `StoredAsGiven` says what
  each Put has stored.
- A request that was built before another goroutine's login ended is sent without a
  session, because `shouldAuth` looks at the jar and not at the request alone
  (`Send`, `Authenticate` in `CookieAuth`). The 401 then drops the new session.
- `Reinstall` is `FALSE`. An authenticator that is given to a client twice by
  `Authenticate` has itself behind it; with `TRUE` TLC finds `PassesEachOnce` violated,
  and the theorem assumes `FALSE`.
- A `New` that fails over the type of an option leaves `CookieAuth` in the caller's
  `http.Client`. `NewClient` has the step, and `PassesEachOnce` holds nevertheless.
- `DBsStats` uses `context.Background()`; `CancelReturns` excepts it.
- `path` panics on names that `url.Parse` refuses, such as that of an attachment
  `100%.txt`.
- `doc.go` says that two options are honoured; a third one is. It asks for the tag
  `_attachment`, while `extractAttachments` looks for `_attachments`.
- `Update` compares the state with `"complete"`, while a finished replication is
  `"completed"`, so its `Progress` is never set to 100 (`Check` in `Replication`).

### Fairness

Goroutines are scheduled (weak fairness of each worker's, closer's and pipe's
steps), requests end because transports time out or contexts do (weak fairness of
the server's answers in `CookieAuth` and of `Step` in `Replication`), and a body
that was closed makes its `Read` return. Nothing else is assumed: not that the
server sends data, not that a lock is granted in turn (the other workers make
finitely many calls), not that anybody cancels or closes. `Replication` assumes
that the server gets on with a replication it was given, since `Replicate` waits
for that. `Exchange` assumes of the driver and of `http.Client` that they run
(`WF_vars(Client)`), which includes giving up when the context has ended; neither the
server nor the network need do anything. Two waits there no context ends: for `authMU`,
which other calls hold, and for a body of the caller's that a trace hook reads to its end
(`Blocked`). No fairness is assumed for them, so a call may stay in either for ever, and
`CancelReturns` is about the calls that do not (`[]<>~Blocked`). That the wait for
`authMU` ends is `CallsComplete` in `CookieAuth`, and rests on the other's login ending.

## The proofs

A proof module extends the specification. Its invariants are conjunctions of named
parts; each part is shown to be preserved by a step per action. Every safety property
that a passing run checks is proved, and both refinements; TLC has checked the
inductive invariants first.

- `CookieAuthProofs`: `TypeCorrect`, `LoginsAreJustified`, `RefusedIsForgotten`
  (for a cookie path that matches) and `Refinement`. The first invariant says that
  `authMU` is held by exactly the worker in a login, whose request is the nested
  one, and that every login is counted or still open. `RefusedIsForgotten` needs
  another: a session under way to the jar is new, because the server hands out each
  number once, and so it is none of those whose refusal was handled.
- `CancelableReaderProofs`: `TypeCorrect`, `OneReader`, `EOFIsComplete`, `Refinement`. An orphan
  exists only after the context ended, and then the reader is in `close` or the
  reader is closed, so no further `Read` starts. Chunks are with the server, in
  `got`, in `arg` or received, and an error that is `io.EOF` was read when the
  first of these was empty. The same invariants make every step one of `ByteStream`
  or a stutter: what `Read` returns is the next chunk, or the last word that was
  settled before (`LastRead`).
- `RequestBodyProofs`: `BodyIsWhole`, `TypeCorrect`. Every chunk is with the encoder, in the
  `gzip.Writer` or on the wire; the encoder ends with `io.EOF` only when nothing is
  left, and gzip passes that on only behind what it held. That gzip never holds more than
  the document, which `TypeOK` says, needs `HeldFits` besides.
- `ReplicationProofs`: `OneAnswer`, `TypeCorrect`, `OneVersionRead`. The holder of
  `sdMU` is the only one that asks, it asks only while nothing is cached, and every
  answer given is the cached one. For `TypeOK`, a worker that holds a copy of the
  document has fetched a version there is, and only one worker creates the replication
  (`Unposted`, `Fetched`, `PostsAlone`). `OneVersionRead` says of the legacy kind that a
  worker between the steps of an update holds `mu` (`Holder`), that the fields are then
  as far as its step says (`Midway`), and otherwise of one version (`Settled`).
- `ResultRowsProofs`: `TypeCorrect`, `BodyClosedAtEnd`, `NoRowBehindClose`,
  `AllRowsBeforeEnd`, `RowsBelongToQuery`, `AllMetaParsed`, for responses of any length
  that break off anywhere. What was delivered is less than what the decoder has passed
  (`Bounded`), which bounds rows, metadata and the query index; the body is closed
  together with the iterator; after the caller's `Close` every step of `Next` ends at
  once. The other three say what has been read, so their invariant compares the
  iterator with the symbols before the decoder, which `Count` counts: between the `[`
  of the rows and its `]`, rows and metadata are the "row" and "val" symbols passed,
  and of several queries the objects passed are two more than `queryIndex` (`InSync`);
  behind the `]` no row is left before the next object (`PastRows`). `Reading` says
  where in `Next` which of the two holds, `Given` what holds when it has returned, and
  `Control` when the iterator is closed and which ways it may go. The exception in
  `Reading` is a decoder that failed: it is at the end, and `finish` asks it for a `]`
  in vain. Lemmas say how far one call of the decoder counts on (`Passed`,
  `OtherPassed`, `MetaPassed`, `RowPassed`, `ArrayPassed`, `ObjectPassed`).
- `MultipartPutProofs`: the invariant of a Put, `PutInv`, and that each of its steps
  keeps it. `Kept`: an attachment has, through emptying the map, measuring, buffering
  and copying, the content it had. `Turns`: `stubber` measures a content only while
  `createMultipart` still reads the document. `Copied`: when `attJSON` ends, the
  document has every member, spelled as it was or without its escapes (`Spelled`), and a
  stub per attachment. `Written`: the file has the
  parts of the attachments before the current one. `PlaceOfEach` and the lemmas behind
  it say that `Sorted` lists each name of a finite set once, which is what pairs stubs
  and parts.
- `DocumentsProofs`: `BodyHasOneOwner`, `AttachmentsInTurn`, `TypeCorrect`,
  `SuccessIsStored`, `NothingHalfSent`, `SuccessCloses`, `NothingLostOnTheWay`,
  `ComesBack`. `BodyInv` says who has the body at each place of a Get; of `Turns`, the
  part `TurnInv` is enough for `AttachmentsInTurn`. `GetInv` follows a response: what is in the caller's hands
  and what is still to come is the document that was served (`InHand`, `Stations`),
  with the bytes `extractRev` has put back. `ComesBack` needs both sides: what is
  stored are contents of the caller's (`Faithful`), and a Get begins only when no Put
  is under way (`OneAtATime`).
  `SuccessIsStored` needs besides what a Put took: everything the first time, and nothing
  later (`GivenInv`).
- `ExchangeProofs`: `TypeCorrect`, `OnlyWholeOnlyRepeatable`, `BodiesClosed`,
  `ResultsFromAnswers` and `EachOnce` (for `Reinstall = FALSE`). `BodiesClosed` follows
  each body of the request to who closes it, `DoReq`, the trace or `http.Transport`, and
  finds a pipe open in the end only where a login failed (`AbandonedPipe`); it and
  `ResultsFromAnswers` assume nothing about what a login is answered. `Linked` says that whatever is installed has something behind
  it, so a request in the chain is always at a transport. `EachOnce` needs that the
  chain has no circle: there is a function that gives each authenticator the set of
  those behind it, which grows by one at each (`Chain`), and a request has passed what
  is installed and neither here nor behind (`Way`).

They assume what the modules' `ASSUME`s say: that `None` is none of the values it
is compared with (`NoneIsNoError`, `NoneIsNoReply`, ...), and the types of the
constants. `MaxCalls` and the other bounds are any natural numbers (`MaxAttempts`,
`MaxVersions`, `MaxProcessed` positive ones). Two assumptions say more. A document has
finitely many attachments (`OffersAssumption`), since a Go map has. The responses to
`ResultRows` follow the syntax of their kind (`SyntaxAssumption`): behind a key is its
colon, rows are elements of the array and not values of a key, none comes behind the
array, and a single response is one object. It says nothing about lengths, about how
often keys and queries occur and in which order, or about where the body breaks off.
The code takes rows that are values of a key behind the array for metadata, and
`RowsAllDelivered` and `MetaAllParsed` would not hold of them. TLC evaluates the
assumption for each of the instance's responses.

Some definitions have the form they have because of the proofs: `Sorted` is a function
from places to names instead of a sort by a library operator, and the delimiters of a
response are words.

Only model-checked: the liveness properties `CallsComplete`, `ReadReturns`,
`OrphansEnd`, `DoReqReturns`, `NoneStaysBehind`, `CallsReturn`, `PutReturns` and
`CancelReturns`. They rest on fairness, and so on `ENABLED`, which is beyond the prover.
The properties of the runs that expect a violation are false, and shown to be so by TLC
alone.

## Not modelled

Of documents: that the temporary file is never removed, what a multipart writer and
reader do with the bytes, and `readRev` on documents that do not begin with `_id` and
`_rev`. Of operations: the contents of requests and answers, and the errors an operation
makes of a decoded answer. Conversions of paths, keys, options and headers, which are
functions of strings: modelling them would repeat them. The headers that
authenticators set, and the trace hooks that see no body. The contents of rows, the
counters of a replication, and texts of errors. The test suites under `test/`, which are
expectations for live servers.

## Plan

1. Action properties of the components that have only invariants: a replication whose
   fields never go back to an earlier version, a stored document that no failed Put
   changes.
2. A composition of `CookieAuth` and `RequestBody`: the nested login has a body too, and
   a `Put` goes through both.
3. Operators for `readRev`, `optionsToParams` and `EncodeDocID`, checked against
   reference definitions.
