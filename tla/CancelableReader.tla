-------------------------- MODULE CancelableReader --------------------------
(***************************************************************************)
(* iter.go, cancelableReadCloser: the body of a streamed response.  One    *)
(* goroutine, the reader, calls Read; others call Close or end the         *)
(* context.  Read hands the blocking rc.Read to a goroutine of its own and *)
(* waits for it or for the context, whichever the select picks; when it    *)
(* picks the context, that goroutine is left behind, still in rc.Read.     *)
(*                                                                         *)
(* The pc of the reader is idle, select or, in close(), lock and closeBody;*)
(* a closer is idle, lock, closeBody or done.                              *)
(***************************************************************************)
EXTENDS Naturals

CONSTANTS Chunks,   \* bound: chunks of data in the body
          Closers,  \* goroutines that call Close, once each
          Reader,   \* the goroutine that calls Read
          None      \* nil

ASSUME ChunksAssumption == Chunks \in Nat
ASSUME ReaderAssumption == Reader \notin Closers /\ None \notin Closers \cup {Reader}

Errors == {"eof", "fail", "canceled", "iterator closed"}
ASSUME NoneIsNoError == None \notin Errors

VARIABLES
    left,      \* chunks rc has not delivered
    ending,    \* what rc.Read returns after them: "eof" or "fail"
    bodyOpen,  \* rc.Close was not called
    ctxDone,   \* r.ctx ended: the caller's context did, or r.cancel was called
    mu,        \* the goroutine that holds r.mu for writing, or None
    closed,    \* r.closed
    err,       \* r.err
    pc,
    arg,       \* the argument of close(), and the count its Read will return
    inner,     \* the goroutine of the Read under way: none, reading or done
    got,       \* what it got from rc.Read
    orphans,   \* goroutines left behind in rc.Read
    received,  \* chunks Read has returned
    out        \* the error the last Read returned, or None

closeVars == <<bodyOpen, mu, closed, err>>
vars == <<left, ending, ctxDone, closeVars, pc, arg, inner, got, orphans,
          received, out>>

Threads == Closers \cup {Reader}
Result  == [n : {0, 1}, err : Errors \cup {None}]
Nothing == [n |-> 0, err |-> None]

TypeOK ==
    /\ left \in 0 .. Chunks
    /\ ending \in {"eof", "fail"}
    /\ bodyOpen \in BOOLEAN /\ ctxDone \in BOOLEAN /\ closed \in BOOLEAN
    /\ mu \in Threads \cup {None}
    /\ err \in Errors \cup {None}
    /\ pc \in [Threads -> {"idle", "select", "lock", "closeBody", "done"}]
    /\ arg \in [Threads -> Result]
    /\ inner \in {"none", "reading", "done"}
    /\ got \in Result
    /\ orphans \in Nat
    /\ received \in Nat /\ received + left <= Chunks
    /\ out \in Errors \cup {None}

Init ==
    /\ left = Chunks
    /\ ending \in {"eof", "fail"}
    /\ bodyOpen = TRUE /\ ctxDone = FALSE /\ closed = FALSE
    /\ mu = None
    /\ err = None
    /\ pc = [t \in Threads |-> "idle"]
    /\ arg = [t \in Threads |-> Nothing]
    /\ inner = "none"
    /\ got = Nothing
    /\ orphans = 0
    /\ received = 0
    /\ out = None

\* readErr, under r.mu's read lock: why the reader is closed, or None.
ReadErr == IF ~closed THEN None
           ELSE IF err = None THEN "iterator closed" ELSE err

-----------------------------------------------------------------------------
(* Read.                                                                    *)

ReadClosed ==
    /\ pc[Reader] = "idle" /\ mu = None
    /\ ReadErr # None
    /\ out' = ReadErr
    /\ UNCHANGED <<left, ending, ctxDone, closeVars, pc, arg, inner, got,
                   orphans, received>>

\* A possible bug: Read does not ask whether the reader is closed.
StartReadUnchecked ==
    /\ pc[Reader] = "idle" /\ mu = None
    /\ inner' = "reading"
    /\ pc' = [pc EXCEPT ![Reader] = "select"]
    /\ UNCHANGED <<left, ending, ctxDone, closeVars, arg, got, orphans,
                   received, out>>

StartRead ==
    /\ pc[Reader] = "idle" /\ mu = None
    /\ ReadErr = None
    /\ inner' = "reading"
    /\ pc' = [pc EXCEPT ![Reader] = "select"]
    /\ UNCHANGED <<left, ending, ctxDone, closeVars, arg, got, orphans,
                   received, out>>

\* rc.Read returns r: a chunk, perhaps with the final error, or only that.
BodyReturns(r) ==
    \/ /\ bodyOpen /\ left > 0
       /\ left' = left - 1
       /\ \/ r = [n |-> 1, err |-> None]
          \/ left = 1 /\ r = [n |-> 1, err |-> ending]
    \/ /\ bodyOpen /\ left = 0
       /\ r = [n |-> 0, err |-> ending]
       /\ UNCHANGED left
    \/ /\ ~bodyOpen
       /\ r = [n |-> 0, err |-> "fail"]
       /\ UNCHANGED left

InnerRead ==
    /\ inner = "reading"
    /\ \E r \in Result : BodyReturns(r) /\ got' = r
    /\ inner' = "done"
    /\ UNCHANGED <<ending, ctxDone, closeVars, pc, arg, orphans, received, out>>

\* Nobody looks at what a goroutine left behind gets.
OrphanRead ==
    /\ orphans > 0
    /\ \E r \in Result : BodyReturns(r)
    /\ orphans' = orphans - 1
    /\ UNCHANGED <<ending, ctxDone, closeVars, pc, arg, inner, got, received, out>>

\* A possible bug: a context that ended is taken for the end of the data.
SelectCtxAsEOF ==
    /\ pc[Reader] = "select" /\ ctxDone
    /\ mu = None
    /\ arg' = [arg EXCEPT ![Reader] =
                 [n |-> 0, err |-> IF ReadErr = None THEN "eof" ELSE ReadErr]]
    /\ pc' = [pc EXCEPT ![Reader] = "lock"]
    /\ orphans' = IF inner = "reading" THEN orphans + 1 ELSE orphans
    /\ inner' = "none"
    /\ UNCHANGED <<left, ending, ctxDone, closeVars, got, received, out>>

\* case <-r.ctx.Done()
SelectCtx ==
    /\ pc[Reader] = "select" /\ ctxDone
    /\ mu = None
    /\ arg' = [arg EXCEPT ![Reader] =
                 [n |-> 0, err |-> IF ReadErr = None THEN "canceled" ELSE ReadErr]]
    /\ pc' = [pc EXCEPT ![Reader] = "lock"]
    /\ orphans' = IF inner = "reading" THEN orphans + 1 ELSE orphans
    /\ inner' = "none"
    /\ UNCHANGED <<left, ending, ctxDone, closeVars, got, received, out>>

\* case <-done, with data
SelectData ==
    /\ pc[Reader] = "select" /\ inner = "done"
    /\ got.err = None
    /\ received' = received + got.n
    /\ inner' = "none"
    /\ pc' = [pc EXCEPT ![Reader] = "idle"]
    /\ UNCHANGED <<left, ending, ctxDone, closeVars, arg, got, orphans, out>>

\* A possible bug: the data is returned before close() and again after it.
SelectErrTwice ==
    /\ pc[Reader] = "select" /\ inner = "done"
    /\ got.err # None
    /\ received' = received + got.n
    /\ arg' = [arg EXCEPT ![Reader] = got]
    /\ inner' = "none"
    /\ pc' = [pc EXCEPT ![Reader] = "lock"]
    /\ UNCHANGED <<left, ending, ctxDone, closeVars, got, orphans, out>>

\* case <-done, with an error
SelectErr ==
    /\ pc[Reader] = "select" /\ inner = "done"
    /\ got.err # None
    /\ arg' = [arg EXCEPT ![Reader] = got]
    /\ inner' = "none"
    /\ pc' = [pc EXCEPT ![Reader] = "lock"]
    /\ UNCHANGED <<left, ending, ctxDone, closeVars, got, orphans, received, out>>

-----------------------------------------------------------------------------
(* close(err), of Read and of Close.                                        *)

CallClose(c) ==
    /\ c \in Closers /\ pc[c] = "idle"
    /\ pc' = [pc EXCEPT ![c] = "lock"]
    /\ UNCHANGED <<left, ending, ctxDone, closeVars, arg, inner, got, orphans,
                   received, out>>

\* close returns e: Read returns it with its count, Close is over.
Returns(t, e) ==
    IF t = Reader
    THEN /\ pc' = [pc EXCEPT ![t] = "idle"]
         /\ received' = received + arg[t].n
         /\ out' = e
    ELSE /\ pc' = [pc EXCEPT ![t] = "done"]
         /\ UNCHANGED <<received, out>>

\* A possible bug: close() returns its argument and not the error on record.
AlreadyClosedOwnError(t) ==
    /\ pc[t] = "lock" /\ mu = None
    /\ closed
    /\ Returns(t, arg[t].err)
    /\ UNCHANGED <<left, ending, ctxDone, closeVars, arg, inner, got, orphans>>

\* Someone closed it before: the error recorded then is the answer.
AlreadyClosed(t) ==
    /\ pc[t] = "lock" /\ mu = None
    /\ closed
    /\ Returns(t, err)
    /\ UNCHANGED <<left, ending, ctxDone, closeVars, arg, inner, got, orphans>>

\* A possible bug: r.cancel is not called.
LockOnly(t) ==
    /\ pc[t] = "lock" /\ mu = None
    /\ ~closed
    /\ mu' = t
    /\ closed' = TRUE
    /\ pc' = [pc EXCEPT ![t] = "closeBody"]
    /\ UNCHANGED <<left, ending, ctxDone, bodyOpen, err, arg, inner, got, orphans,
                   received, out>>

\* r.cancel(); r.closed = true
LockAndCancel(t) ==
    /\ pc[t] = "lock" /\ mu = None
    /\ ~closed
    /\ mu' = t
    /\ ctxDone' = TRUE
    /\ closed' = TRUE
    /\ pc' = [pc EXCEPT ![t] = "closeBody"]
    /\ UNCHANGED <<left, ending, bodyOpen, err, arg, inner, got, orphans,
                   received, out>>

\* A possible bug: the body is not closed.
RecordError(t) ==
    /\ pc[t] = "closeBody"
    /\ err' = arg[t].err
    /\ mu' = None
    /\ Returns(t, err')
    /\ UNCHANGED <<left, ending, bodyOpen, ctxDone, closed, arg, inner, got, orphans>>

\* rc.Close(), r.err and the deferred Unlock.
CloseBody(t) ==
    /\ pc[t] = "closeBody"
    /\ bodyOpen' = FALSE
    /\ \E e \in {None, "fail"} :
          err' = IF arg[t].err = None THEN e ELSE arg[t].err
    /\ mu' = None
    /\ Returns(t, err')
    /\ UNCHANGED <<left, ending, ctxDone, closed, arg, inner, got, orphans>>

\* The caller's context ends.
Cancel ==
    /\ ~ctxDone
    /\ ctxDone' = TRUE
    /\ UNCHANGED <<left, ending, closeVars, pc, arg, inner, got, orphans,
                   received, out>>

-----------------------------------------------------------------------------
Close(t) == AlreadyClosed(t) \/ LockAndCancel(t) \/ CloseBody(t)

Read == ReadClosed \/ StartRead \/ SelectCtx \/ SelectData \/ SelectErr

Next ==
    \/ Read \/ InnerRead \/ OrphanRead \/ Cancel
    \/ \E c \in Closers : CallClose(c)
    \/ \E t \in Threads : Close(t)

\* Goroutines keep running.  The server need not send: rc.Read returns for
\* certain only once the body was closed.
Fairness ==
    /\ WF_vars(SelectCtx \/ SelectData \/ SelectErr)
    /\ \A t \in Threads : WF_vars(Close(t))
    /\ WF_vars(~bodyOpen /\ OrphanRead)

Spec     == Init /\ [][Next]_vars
FairSpec == Spec /\ Fairness

-----------------------------------------------------------------------------
(* What the iterators above it rely on.                                     *)

\* rc.Read is never called while an earlier call has not returned: a body is
\* not safe for two readers, and Read leaves calls behind.
OneReadOfBody == orphans + (IF inner = "reading" THEN 1 ELSE 0) <= 1

\* Whatever races with the last Read, io.EOF means that every chunk was
\* returned: none was lost to a goroutine left behind.
EOFMeansAll == out = "eof" => received = Chunks

\* The reader sees a byte stream whose first error is its last word.
Stream == INSTANCE ByteStream WITH ended <- out
IsByteStream == Stream!Spec

\* A Read that waits for data returns once the context ends or Close is
\* called, even if the server never answers again.
ReadReturns == (ctxDone \/ closed) /\ pc[Reader] # "idle" ~> pc[Reader] = "idle"

\* The goroutine it left behind in rc.Read ends too.
OrphansEnd == orphans > 0 ~> orphans = 0
=============================================================================
