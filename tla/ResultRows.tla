----------------------------- MODULE ResultRows -----------------------------
(***************************************************************************)
(* iter.go, rows.go, changes.go: the iterators over a streamed response.   *)
(* kivik calls Next until it returns an error, and Close at any time       *)
(* between two calls.  Next parses the body as it arrives with a           *)
(* json.Decoder, so it cannot know beforehand whether the body is whole.   *)
(*                                                                         *)
(* A response is a sequence of symbols: delimiters, keys, and "row" and    *)
(* "val" for the values of the rows and of the metadata, each of which one *)
(* dec.Decode reads.  The body ends after cut symbols: with io.EOF, inside *)
(* the next symbol ("partial"), or with another error ("fail").            *)
(*                                                                         *)
(* Modes: "rows" (an array under the expected key, with metadata around),  *)
(* "changes" (the same with another decodeItem), "object" (objMode), "feed"*)
(* (continuous: no expected key), "multi" (multiQueriesRows).              *)
(***************************************************************************)
EXTENDS Integers, Sequences, FiniteSets

CONSTANT Responses  \* records of a mode and a text, what the server would send

Values  == {"row", "val"}
Keys    == {"rows", "meta", "results", "id"}
Symbols == Values \cup Keys \cup {"obj", "endobj", "arr", "endarr", "comma", "colon"}
\* The delimiters are { } [ ] , : in this order.
Modes   == {"rows", "changes", "object", "feed", "multi"}

ASSUME ResponsesAssumption == Responses \subseteq [mode : Modes, text : Seq(Symbols)]

\* The response of multiQueriesRows has several queries, or is one of an old server.
Several(t) == Len(t) >= 2 /\ t[2] = "results"

\* What the responses have in common: behind a key is its colon.  A feed is nothing but
\* rows, and other rows but those of an object are elements of an array: none is the
\* value of a key, and none comes behind an array before another query begins.  A
\* response of one array or object is one JSON object, to its end.
SyntaxOK(m, t) ==
    /\ m = "feed" => \A i \in 1 .. Len(t) : t[i] = "row"
    /\ \A i \in 2 .. Len(t) :
         /\ t[i - 1] \in Keys => t[i] = "colon"
         /\ t[i - 1] = "colon" /\ m # "object" => t[i] # "row"
    /\ \A i, j \in 1 .. Len(t) :
         i < j /\ t[i] = "endarr" /\ t[j] = "row" => \E k \in i .. j : t[k] = "obj"
    /\ ~(m = "multi" /\ Several(t)) =>
         \A i \in 1 .. Len(t) : (t[i] = "obj" => i = 1) /\ (t[i] = "endobj" => i = Len(t))

ASSUME SyntaxAssumption == \A r \in Responses : SyntaxOK(r.mode, r.text)

VARIABLES
    mode, text,  \* the response
    cut,         \* symbols of it that arrive
    ending,      \* what the decoder meets after them
    pos,         \* the symbol the decoder is at
    pc,          \* idle, or where in Next: results, begin, keys, row, finish, trailer
    begun,       \* i.dec (multi: r.dec) is not nil
    closed,      \* i.closed (multi: r.rows.closed)
    bodyOpen,    \* the body was not closed
    rows,        \* rows Next has returned
    metas,       \* metadata values parsed
    out,         \* what the last Next returned
    quit,        \* the caller called Close
    hasRows,     \* multi: r.rows is not nil
    legacy,      \* multi: r.legacy
    mclosed,     \* multi: r.closed
    queryIndex   \* multi: r.queryIndex

response == <<mode, text, cut, ending>>
counts   == <<rows, metas>>
multi    == <<hasRows, legacy, mclosed, queryIndex>>
vars     == <<response, pos, pc, begun, closed, bodyOpen, counts, out, quit, multi>>

TypeOK ==
    /\ [mode |-> mode, text |-> text] \in Responses
    /\ cut \in 0 .. Len(text)
    /\ ending \in {"eof", "partial", "fail"}
    /\ pos \in 1 .. cut + 1
    /\ pc \in {"idle", "results", "begin", "keys", "row", "finish", "trailer"}
    /\ begun \in BOOLEAN /\ closed \in BOOLEAN /\ bodyOpen \in BOOLEAN
    /\ rows \in 0 .. Len(text) /\ metas \in 0 .. Len(text)
    /\ out \in {"none", "row", "eof", "eoq", "error"}
    /\ quit \in BOOLEAN
    /\ hasRows \in BOOLEAN /\ legacy \in BOOLEAN /\ mclosed \in BOOLEAN
    /\ queryIndex \in 0 .. Len(text)

Init ==
    /\ \E r \in Responses : mode = r.mode /\ text = r.text
    /\ cut \in 0 .. Len(text)
    /\ ending \in {"eof", "partial", "fail"}
    /\ ending = "partial" => cut < Len(text) /\ text[cut + 1] \in Values \cup Keys
    /\ pos = 1 /\ pc = "idle"
    /\ begun = FALSE /\ closed = FALSE /\ bodyOpen = TRUE
    /\ rows = 0 /\ metas = 0
    /\ out = "none" /\ quit = FALSE
    /\ hasRows = FALSE /\ legacy = FALSE /\ mclosed = FALSE /\ queryIndex = 0

-----------------------------------------------------------------------------
(* encoding/json.Decoder.                                                   *)

\* Token and Decode pass a comma or a colon on the way to what they return.
Skip(p) == IF p <= cut /\ text[p] \in {"comma", "colon"} THEN p + 1 ELSE p

\* The symbol they find there, io.EOF as such, or another error.
Tok(p) == IF Skip(p) <= cut THEN text[Skip(p)]
          ELSE IF ending = "eof" THEN "eof" ELSE "error"
After(p) == Skip(p) + 1

More(p) == IF p <= cut THEN text[p] \notin {"endarr", "endobj"} ELSE ending = "partial"

\* How many of a symbol there are among the first n of a text.
Count(t, symbol, n) == Cardinality({i \in 1 .. n : t[i] = symbol})

-----------------------------------------------------------------------------
(* Ends of a call of Next.                                                  *)

\* Next returns o with the decoder at p.
Return(o, p) == out' = o /\ pos' = p /\ pc' = "idle"

Goto(place, p) == pc' = place /\ pos' = p /\ UNCHANGED out

Min(a, b) == IF a < b THEN a ELSE b

\* A possible bug: the decoder goes on past the end of the body.
StuckBeyond(p) == After(p)

\* The position after a Token or Decode at p that failed.
Stuck(p) == Min(After(p), cut + 1)

\* A possible bug: the body is left open.
CloseIterOnly == closed' = TRUE /\ UNCHANGED bodyOpen

\* iter.Close, deferred in finish.  With a single response its body is closed.
CloseIter ==
    /\ closed' = TRUE
    /\ bodyOpen' = (mode = "multi" /\ bodyOpen)

\* iter.next after finish returned e: nil and io.EOF look the same.
Finished(e, p) ==
    /\ CloseIter
    /\ Return(IF e = "error" THEN "error"
              ELSE IF mode = "multi" /\ ~legacy THEN "eoq" ELSE "eof", p)

\* Next after begin returned e: a kivik.Error, but of multiQueriesRows e itself.
BeginFails(e, p) ==
    /\ Return(IF mode = "multi" /\ e = "eof" THEN "eof" ELSE "error", p)
    /\ UNCHANGED <<closed, bodyOpen>>

\* multiQueriesRows.Close, the first time: what is left of the body is read.
CloseMulti ==
    /\ mclosed' = TRUE
    /\ closed' = (closed \/ hasRows)
    /\ bodyOpen' = FALSE
    /\ UNCHANGED <<hasRows, legacy, queryIndex>>

\* Next ends with it.
EndOfQueries(p) ==
    /\ CloseMulti
    /\ Return(IF ending = "fail" THEN "error" ELSE "eof", p)

-----------------------------------------------------------------------------
(* Next.                                                                    *)

\* kivik calls Next no more after an error other than EOQ, except that the
\* iterators answer after io.EOF and after Close.
MayNext ==
    /\ pc = "idle"
    /\ \/ out \in {"none", "row", "eoq"}
       \/ out = "eof" /\ (mode = "multi" => hasRows)
       \/ quit

IsClosed == IF mode = "multi" THEN mclosed ELSE closed

NextClosed ==
    /\ MayNext /\ IsClosed
    /\ out' = "eof"
    /\ UNCHANGED <<response, pos, pc, begun, closed, bodyOpen, counts, quit, multi>>

NextBegin ==
    /\ MayNext /\ ~IsClosed /\ ~begun
    /\ begun' = TRUE
    /\ pc' = IF mode = "multi" THEN "results" ELSE "begin"
    /\ UNCHANGED <<response, pos, closed, bodyOpen, counts, out, quit, multi>>

NextRow ==
    /\ MayNext /\ ~IsClosed /\ begun /\ ~closed
    /\ pc' = "row"
    /\ UNCHANGED <<response, pos, begun, closed, bodyOpen, counts, out, quit, multi>>

\* multiQueriesRows.nextQuery: r.rows stays the finished one until begin is over.
NextQuery ==
    /\ MayNext /\ ~IsClosed /\ begun /\ closed
    /\ IF legacy
       THEN EndOfQueries(pos)
       ELSE pc' = "begin" /\ UNCHANGED <<pos, closed, bodyOpen, out, multi>>
    /\ UNCHANGED <<response, begun, counts, quit>>

\* multiQueriesRows.begin: '{', then "results" and '[', or another key of an
\* old server, and the response is read from its start as one of "rows".
BeginResults ==
    /\ pc = "results"
    /\ LET key == Tok(2) IN
       IF Tok(1) # "obj"
       THEN BeginFails("error", Stuck(1)) /\ UNCHANGED multi
       ELSE IF key \notin Keys
       THEN BeginFails(key, Stuck(2)) /\ UNCHANGED multi
       ELSE IF key # "results"
       THEN /\ Goto("begin", 1)
            /\ legacy' = TRUE /\ hasRows' = TRUE
            /\ UNCHANGED <<closed, bodyOpen, mclosed, queryIndex>>
       ELSE IF Tok(3) # "arr"
       THEN BeginFails("error", Stuck(3)) /\ UNCHANGED multi
       ELSE /\ Goto("begin", After(3))
            /\ hasRows' = TRUE
            /\ UNCHANGED <<closed, bodyOpen, legacy, mclosed, queryIndex>>
    /\ UNCHANGED <<response, begun, counts, quit>>

\* iter.begin: the first '{'.  Of the next query: or the ']' of the last.
Begin ==
    /\ pc = "begin"
    /\ IF mode = "feed"
       THEN Goto("row", pos) /\ UNCHANGED <<closed, bodyOpen, multi>>
       ELSE IF Tok(pos) = "obj"
       THEN /\ Goto(IF mode = "object" THEN "row" ELSE "keys", After(pos))
            /\ UNCHANGED <<closed, bodyOpen, multi>>
       ELSE IF closed /\ Tok(pos) = "endarr"
       THEN EndOfQueries(After(pos))
       ELSE BeginFails("error", Stuck(pos)) /\ UNCHANGED multi
    /\ UNCHANGED <<response, begun, counts, quit>>

\* A possible bug: the first query is counted too.
BeginArrayCounted ==
    /\ pc = "keys" /\ Tok(pos) = "rows"
    /\ IF Tok(After(pos)) = "arr"
       THEN /\ Goto("row", After(After(pos)))
            /\ closed' = FALSE
            /\ queryIndex' = queryIndex + 1
            /\ UNCHANGED <<bodyOpen, hasRows, legacy, mclosed>>
       ELSE BeginFails("error", Stuck(After(pos))) /\ UNCHANGED multi
    /\ UNCHANGED <<response, begun, counts, quit>>

\* iter.begin: the rows' key and '['.  A query is counted when it has begun.
BeginArray ==
    /\ pc = "keys" /\ Tok(pos) = "rows"
    /\ IF Tok(After(pos)) = "arr"
       THEN /\ Goto("row", After(After(pos)))
            /\ closed' = FALSE
            /\ queryIndex' = IF closed THEN queryIndex + 1 ELSE queryIndex
            /\ UNCHANGED <<bodyOpen, hasRows, legacy, mclosed>>
       ELSE BeginFails("error", Stuck(After(pos))) /\ UNCHANGED multi
    /\ UNCHANGED <<response, begun, counts, quit>>

\* A metadata key and its value, here and in finish; e is what it returns.
MetaError == IF Tok(pos) \in Keys THEN Tok(After(pos)) ELSE Tok(pos)

ParseMeta ==
    /\ Tok(pos) \in Keys /\ Tok(After(pos)) \in Values
    /\ metas' = metas + 1
    /\ Goto(pc, After(After(pos)))
    /\ UNCHANGED <<closed, bodyOpen>>

\* iter.begin: any other key, or no key where one should be.
BeginMeta ==
    /\ pc = "keys" /\ Tok(pos) # "rows"
    /\ \/ ParseMeta
       \/ /\ ~(Tok(pos) \in Keys /\ Tok(After(pos)) \in Values)
          /\ BeginFails(MetaError, cut + 1)
          /\ UNCHANGED metas
    /\ UNCHANGED <<response, begun, rows, quit, multi>>

-----------------------------------------------------------------------------
(* iter.nextRow and finish.                                                 *)

\* Where decodeItem finds the row: in an object behind the document's ID.
Item == IF mode = "object" /\ Tok(pos) = "id" THEN After(pos) ELSE pos

DecodeItem ==
    /\ pc = "row" /\ More(pos) /\ Tok(Item) = "row"
    /\ rows' = rows + 1
    /\ Return("row", After(Item))
    /\ UNCHANGED <<response, begun, closed, bodyOpen, metas, quit, multi>>

\* io.EOF means finish; the parser of changes returns a kivik.Error instead.
DecodeFails ==
    /\ pc = "row" /\ More(pos) /\ Tok(Item) # "row"
    /\ IF Tok(Item) = "eof" /\ mode # "changes"
       THEN Goto("finish", Stuck(Item))
       ELSE Return("error", Stuck(Item))
    /\ UNCHANGED <<response, begun, closed, bodyOpen, counts, quit, multi>>

NoMore ==
    /\ pc = "row" /\ ~More(pos)
    /\ Goto("finish", pos)
    /\ UNCHANGED <<response, begun, closed, bodyOpen, counts, quit, multi>>

\* A possible bug: the ']' is not asked for.
FinishUnchecked ==
    /\ pc = "finish"
    /\ IF Tok(pos) = "endarr" /\ mode \notin {"feed", "object"}
       THEN Goto("trailer", After(pos)) /\ UNCHANGED <<closed, bodyOpen>>
       ELSE Finished(IF Tok(pos) = "error" THEN "error" ELSE "eof", Stuck(pos))
    /\ UNCHANGED <<response, begun, counts, quit, multi>>

\* A feed just ends, an object ends with '}', an array with ']'.
Finish ==
    /\ pc = "finish"
    /\ IF Tok(pos) = "endarr" /\ mode \notin {"feed", "object"}
       THEN Goto("trailer", After(pos)) /\ UNCHANGED <<closed, bodyOpen>>
       ELSE Finished(IF \/ mode = "feed" /\ Tok(pos) # "error"
                        \/ mode = "object" /\ Tok(pos) = "endobj"
                     THEN "eof" ELSE "error", Stuck(pos))
    /\ UNCHANGED <<response, begun, counts, quit, multi>>

\* A possible bug: the metadata behind the rows are skipped.
TrailerSkipped ==
    /\ pc = "trailer" /\ More(pos)
    /\ Finished("eof", cut + 1)
    /\ UNCHANGED <<response, begun, counts, quit, multi>>

\* The metadata behind the rows; what Token and Decode return is returned.
Trailer ==
    /\ pc = "trailer" /\ More(pos)
    /\ \/ ParseMeta
       \/ /\ ~(Tok(pos) \in Keys /\ Tok(After(pos)) \in Values)
          /\ Finished(IF MetaError = "eof" THEN "eof" ELSE "error", cut + 1)
          /\ UNCHANGED metas
    /\ UNCHANGED <<response, begun, rows, quit, multi>>

TrailerEnds ==
    /\ pc = "trailer" /\ ~More(pos)
    /\ Finished(IF Tok(pos) = "endobj" THEN "eof" ELSE "error", Stuck(pos))
    /\ UNCHANGED <<response, begun, counts, quit, multi>>

-----------------------------------------------------------------------------
\* A possible bug: the iterator is not marked closed.
CloseBodyOnly ==
    /\ pc = "idle" /\ ~quit
    /\ quit' = TRUE
    /\ IF mode = "multi"
       THEN /\ bodyOpen' = FALSE
            /\ UNCHANGED <<closed, begun, multi>>
       ELSE bodyOpen' = FALSE /\ UNCHANGED <<begun, closed, multi>>
    /\ UNCHANGED <<response, pos, pc, counts, out>>

\* The caller closes the iterator.
Close ==
    /\ pc = "idle" /\ ~quit
    /\ quit' = TRUE
    /\ IF mode = "multi"
       THEN IF mclosed THEN UNCHANGED <<begun, closed, bodyOpen, multi>>
            ELSE CloseMulti /\ begun' = FALSE
       ELSE CloseIter /\ UNCHANGED <<begun, multi>>
    /\ UNCHANGED <<response, pos, pc, counts, out>>

NextCall == NextClosed \/ NextBegin \/ NextRow \/ NextQuery

Steps == \/ BeginResults \/ Begin \/ BeginArray \/ BeginMeta
         \/ DecodeItem \/ DecodeFails \/ NoMore
         \/ Finish \/ Trailer \/ TrailerEnds

Next == NextCall \/ Steps \/ Close

Spec == Init /\ [][Next]_vars

-----------------------------------------------------------------------------
(* What the callers rely on.                                                *)

Returned(o) == pc = "idle" /\ out = o

Ended == Returned("eof") /\ ~quit

\* io.EOF comes after all rows the server sent: a body that breaks off among
\* them, after a comma or in the middle of one, is an error.  Of a feed, which
\* has no end, all rows that arrived; of several queries, EOQ comes after all
\* rows of the query, and never out of the middle of one.
RowsAllDelivered ==
    /\ Ended /\ mode = "feed" => rows = Count(text, "row", cut)
    /\ Ended /\ (mode \notin {"feed", "multi"} \/ (legacy /\ closed)) =>
           rows = Count(text, "row", Len(text))
    /\ Returned("eoq") =>
           \A i \in 1 .. Len(text) :
               text[i] = "row" => (i < pos <=> Count(text, "obj", i) - 2 <= queryIndex)

\* QueryIndex tells which query a row belongs to.
RowOfQuery == Returned("row") /\ mode = "multi" /\ ~legacy =>
                  queryIndex = Count(text, "obj", pos - 1) - 2

\* The metadata of a whole response was parsed, before the rows and after.
MetaAllParsed ==
    Ended /\ cut = Len(text) /\ mode \in {"rows", "changes"} =>
        metas = Count(text, "val", cut)

\* At the end the body is closed, without the caller's help.
EndClosesBody == Ended /\ mode # "multi" => ~bodyOpen

\* A closed iterator yields no row that was buffered before.
NoRowAfterClose == [][quit => UNCHANGED rows]_vars

\* A response whose closing delimiters are missing is an error ("missing closing
\* delimiter": 502, EOF).
TruncatedIsError == Ended /\ mode = "rows" => cut = Len(text)
=============================================================================
