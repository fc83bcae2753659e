----------------------- MODULE CancelableReaderProofs -----------------------
(***************************************************************************)
(* Theorems about CancelableReader, for any number of closers and chunks.  *)
(* Inv says who holds r.mu, that a goroutine left behind ends the reading, *)
(* and where each chunk is between rc and the caller of Read.              *)
(***************************************************************************)
EXTENDS CancelableReader, TLAPS

\* r.mu is held for writing from closed = true to the recording of r.err.
MuHeld ==
    /\ \A t \in Threads : pc[t] = "closeBody" <=> mu = t
    /\ mu # None => closed /\ err = None
    /\ ~closed => err = None

\* Only the reader is ever in Read's select, and only then has it a goroutine.
Roles ==
    /\ \A c \in Closers : pc[c] # "select" /\ arg[c] = Nothing
    /\ pc[Reader] # "done"
    /\ inner # "none" => pc[Reader] = "select"

\* A goroutine left behind means that close() is under way or over.
Orphaned ==
    /\ OneReadOfBody
    /\ orphans > 0 => pc[Reader] \in {"lock", "closeBody", "idle"}
    /\ orphans > 0 /\ pc[Reader] = "idle" => closed

\* No chunk is lost while the reader still listens.
Conserved ==
    /\ pc[Reader] = "select" =>
         received + left + (IF inner = "done" THEN got.n ELSE 0) = Chunks
    /\ pc[Reader] = "idle" /\ ~closed => received + left = Chunks
    /\ pc[Reader] \in {"lock", "closeBody"} => received + arg[Reader].n + left <= Chunks

\* io.EOF was read with or after the last chunk.
EOFKnown ==
    /\ inner = "done" /\ got.err = "eof" => received + got.n = Chunks
    /\ pc[Reader] \in {"lock", "closeBody"} /\ arg[Reader].err = "eof" =>
         received + arg[Reader].n = Chunks
    /\ err = "eof" => received = Chunks /\ pc[Reader] = "idle"

\* The reader was told what readErr will repeat.
LastWord ==
    out # None => /\ closed /\ mu = None
                  /\ out = ReadErr
                  /\ pc[Reader] = "idle"

Inv == TypeOK /\ MuHeld /\ Roles /\ Orphaned /\ Conserved /\ EOFKnown /\ LastWord

-----------------------------------------------------------------------------
(* The data.                                                                *)

\* Who the goroutines are.
LEMMA WhoIsWho ==
    /\ Reader \in Threads
    /\ \A t \in Threads : t # None /\ (t # Reader => t \in Closers)
    /\ \A c \in Closers : c \in Threads /\ c # Reader
  BY ReaderAssumption DEF Threads

\* What readErr returns, and when.
LEMMA ReadErrKinds ==
    ASSUME TypeOK
    PROVE  /\ ReadErr \in Errors \cup {None}
           /\ closed => ReadErr \in Errors
           /\ ~closed => ReadErr = None
           /\ ReadErr = "eof" => err = "eof"
  BY NoneIsNoError DEF TypeOK, ReadErr, Errors

\* A record of a count and an error is a result.
LEMMA ResultKinds ==
    /\ \A k \in {0, 1}, e \in Errors \cup {None} : [n |-> k, err |-> e] \in Result
    /\ \A r \in Result : r.n \in {0, 1} /\ r.err \in Errors \cup {None}
    /\ Nothing \in Result
  BY DEF Result, Nothing

\* Facts about numbers, for those the prover meets primed.
LEMMA FewerFit == \A x, y, z, c \in Nat : z + x <= c /\ y <= x => z + y <= c
  OBVIOUS
LEMMA OneLess == \A x, y, n \in Nat : y + n = x => y <= x
  OBVIOUS

LEMMA PartsAdd == \A x, y, n, z, c \in Nat : y + n = x /\ z + x = c => z + y + n = c
  OBVIOUS

\* What rc.Read takes from the body it returns, and io.EOF comes last.
LEMMA BodyStep ==
    ASSUME TypeOK, NEW r \in Result, BodyReturns(r)
    PROVE  /\ left' \in 0 .. Chunks
           /\ left' + r.n = left /\ left' <= left
           /\ r.err = "eof" => left' = 0
  <1>1. CASE /\ bodyOpen /\ left > 0 /\ left' = left - 1
             /\ r = [n |-> 1, err |-> None] \/ (left = 1 /\ r = [n |-> 1, err |-> ending])
    <2>1. left' \in 0 .. Chunks /\ left' + r.n = left /\ r.n \in Nat
      BY <1>1, ChunksAssumption DEF TypeOK
    <2>2. r.err = None \/ left' = 0
      BY <1>1, ChunksAssumption DEF TypeOK
    <2>3. left' <= left
      BY <2>1, ChunksAssumption, OneLess DEF TypeOK
    <2> QED BY <2>1, <2>2, <2>3, NoneIsNoError DEF Errors
  <1>2. CASE left = 0 /\ r = [n |-> 0, err |-> ending] /\ left' = left
    BY <1>2, ChunksAssumption DEF TypeOK
  <1>3. CASE r = [n |-> 0, err |-> "fail"] /\ left' = left
    BY <1>3, ChunksAssumption DEF TypeOK
  <1> QED BY <1>1, <1>2, <1>3 DEF BodyReturns

\* What the end of close() leaves.
LEMMA ReturnsStep ==
    ASSUME TypeOK, NEW t \in Threads, NEW e \in Errors \cup {None}, Returns(t, e)
    PROVE  /\ pc' \in [Threads -> {"idle", "select", "lock", "closeBody", "done"}]
           /\ pc' = [pc EXCEPT ![t] = IF t = Reader THEN "idle" ELSE "done"]
           /\ t = Reader => received' = received + arg[t].n /\ out' = e
           /\ t # Reader => received' = received /\ out' = out
           /\ received' \in Nat
           /\ out' \in Errors \cup {None}
  <1>1. arg[t].n \in {0, 1}
    BY ResultKinds DEF TypeOK
  <1> QED BY <1>1 DEF TypeOK, Returns

-----------------------------------------------------------------------------
\* The state always has its declared shape.
LEMMA TypeStep == TypeOK /\ Conserved /\ [Next]_vars => TypeOK'
  <1> SUFFICES ASSUME TypeOK, Conserved, [Next]_vars PROVE TypeOK'
    OBVIOUS
  <1> USE ChunksAssumption DEF closeVars
  <1>1. CASE ReadClosed
    BY <1>1, ReadErrKinds DEF TypeOK, ReadClosed
  <1>2. CASE StartRead
    BY <1>2 DEF TypeOK, StartRead
  <1>3. CASE InnerRead
    <2>1. PICK r \in Result : BodyReturns(r) /\ got' = r
      BY <1>3 DEF InnerRead
    <2>2. r.n \in {0, 1} /\ left' \in 0 .. Chunks /\ left' <= left
      BY <2>1, BodyStep, ResultKinds
    <2>3. left \in Nat /\ left' \in Nat /\ received \in Nat /\ received + left <= Chunks
      BY <2>2 DEF TypeOK
    <2>4. received + left' <= Chunks
      BY <2>2, <2>3, FewerFit
    <2> QED BY <1>3, <2>1, <2>2, <2>4 DEF TypeOK, InnerRead
  <1>4. CASE OrphanRead
    <2>1. PICK r \in Result : BodyReturns(r)
      BY <1>4 DEF OrphanRead
    <2>2. r.n \in {0, 1} /\ left' \in 0 .. Chunks /\ left' <= left
      BY <2>1, BodyStep, ResultKinds
    <2>3. left \in Nat /\ left' \in Nat /\ received \in Nat /\ received + left <= Chunks
      BY <2>2 DEF TypeOK
    <2>4. received + left' <= Chunks
      BY <2>2, <2>3, FewerFit
    <2>5. orphans' \in Nat
      BY <1>4 DEF TypeOK, OrphanRead
    <2> QED BY <1>4, <2>2, <2>4, <2>5 DEF TypeOK, OrphanRead
  <1>5. CASE SelectCtx
    <2>1. (IF ReadErr = None THEN "canceled" ELSE ReadErr) \in Errors \cup {None}
      BY ReadErrKinds DEF Errors
    <2>2. arg' \in [Threads -> Result]
      BY <1>5, <2>1, ResultKinds DEF TypeOK, SelectCtx
    <2> QED BY <1>5, <2>2 DEF TypeOK, SelectCtx
  <1>6. CASE SelectData
    <2>1. got.n \in {0, 1} /\ received + left + got.n = Chunks
      BY <1>6, ResultKinds DEF TypeOK, SelectData, Conserved
    <2>2. received' \in Nat /\ received' + left <= Chunks
      BY <1>6, <2>1 DEF TypeOK, SelectData
    <2> QED BY <1>6, <2>2 DEF TypeOK, SelectData
  <1>7. CASE SelectErr
    BY <1>7 DEF TypeOK, SelectErr
  <1>8. ASSUME NEW c \in Closers, CallClose(c) PROVE TypeOK'
    BY <1>8 DEF TypeOK, CallClose
  <1>9. ASSUME NEW t \in Threads, NEW e \in Errors \cup {None}, Returns(t, e),
               pc[t] \in {"lock", "closeBody"}
        PROVE  /\ pc' \in [Threads -> {"idle", "select", "lock", "closeBody", "done"}]
               /\ received' \in Nat /\ received' + left <= Chunks
               /\ out' \in Errors \cup {None}
    <2>1. CASE t = Reader
      BY <1>9, <2>1, ReturnsStep, ResultKinds DEF Conserved, TypeOK
    <2>2. CASE t # Reader
      BY <1>9, <2>2, ReturnsStep DEF TypeOK
    <2> QED BY <2>1, <2>2
  <1>10. ASSUME NEW t \in Threads, AlreadyClosed(t) PROVE TypeOK'
    <2>1. err \in Errors \cup {None} /\ Returns(t, err) /\ pc[t] = "lock"
      BY <1>10 DEF TypeOK, AlreadyClosed
    <2> QED BY <1>9, <1>10, <2>1 DEF TypeOK, AlreadyClosed
  <1>11. ASSUME NEW t \in Threads, LockAndCancel(t) PROVE TypeOK'
    BY <1>11 DEF TypeOK, LockAndCancel
  <1>12. ASSUME NEW t \in Threads, CloseBody(t) PROVE TypeOK'
    <2>1. err' \in Errors \cup {None}
      BY <1>12, ResultKinds DEF TypeOK, CloseBody, Errors
    <2>2. Returns(t, err') /\ pc[t] = "closeBody"
      BY <1>12 DEF CloseBody
    <2>3. bodyOpen' \in BOOLEAN
      BY <1>12 DEF CloseBody
    <2> QED BY <1>9, <1>12, <2>1, <2>2, <2>3 DEF TypeOK, CloseBody
  <1>13. CASE Cancel
    BY <1>13 DEF TypeOK, Cancel
  <1>14. CASE UNCHANGED vars
    BY <1>14 DEF TypeOK, vars
  <1> QED
    BY <1>1, <1>2, <1>3, <1>4, <1>5, <1>6, <1>7, <1>8, <1>10, <1>11, <1>12,
       <1>13, <1>14 DEF Next, Read, Close

\* r.mu is released by the goroutine that took it.
LEMMA MuStep == TypeOK /\ MuHeld /\ [Next]_vars => MuHeld'
  <1> SUFFICES ASSUME TypeOK, MuHeld, [Next]_vars PROVE MuHeld'
    OBVIOUS
  <1> USE WhoIsWho DEF MuHeld, closeVars
  <1>1. CASE ReadClosed \/ InnerRead \/ OrphanRead \/ Cancel \/ UNCHANGED vars
    BY <1>1 DEF ReadClosed, InnerRead, OrphanRead, Cancel, vars
  <1>2. CASE StartRead \/ SelectCtx \/ SelectData \/ SelectErr
    BY <1>2 DEF TypeOK, StartRead, SelectCtx, SelectData, SelectErr
  <1>3. ASSUME NEW c \in Closers, CallClose(c) PROVE MuHeld'
    BY <1>3 DEF TypeOK, CallClose
  <1>4. ASSUME NEW t \in Threads, AlreadyClosed(t) PROVE MuHeld'
    BY <1>4 DEF TypeOK, AlreadyClosed, Returns
  <1>5. ASSUME NEW t \in Threads, LockAndCancel(t) PROVE MuHeld'
    BY <1>5 DEF TypeOK, LockAndCancel
  <1>6. ASSUME NEW t \in Threads, CloseBody(t) PROVE MuHeld'
    <2>1. mu = t /\ closed
      BY <1>6 DEF CloseBody
    <2>2. \A u \in Threads : pc'[u] # "closeBody"
      BY <1>6, <2>1 DEF TypeOK, CloseBody, Returns
    <2> QED BY <1>6, <2>1, <2>2 DEF CloseBody
  <1> QED
    BY <1>1, <1>2, <1>3, <1>4, <1>5, <1>6 DEF Next, Read, Close

\* The roles of the goroutines do not change.
LEMMA RolesStep == TypeOK /\ Roles /\ [Next]_vars => Roles'
  <1> SUFFICES ASSUME TypeOK, Roles, [Next]_vars PROVE Roles'
    OBVIOUS
  <1> USE WhoIsWho DEF Roles, closeVars
  <1>1. CASE ReadClosed \/ OrphanRead \/ Cancel \/ UNCHANGED vars
    BY <1>1 DEF ReadClosed, OrphanRead, Cancel, vars
  <1>2. CASE InnerRead
    BY <1>2 DEF InnerRead
  <1>3. CASE StartRead \/ SelectData
    BY <1>3 DEF TypeOK, StartRead, SelectData
  <1>4. CASE SelectCtx \/ SelectErr
    BY <1>4 DEF TypeOK, SelectCtx, SelectErr
  <1>5. ASSUME NEW c \in Closers, CallClose(c) PROVE Roles'
    BY <1>5 DEF TypeOK, CallClose
  <1>6. ASSUME NEW t \in Threads, AlreadyClosed(t) \/ CloseBody(t) PROVE Roles'
    <2>1. pc[t] \in {"lock", "closeBody"} /\ arg' = arg /\ inner' = inner
      BY <1>6 DEF AlreadyClosed, CloseBody
    <2>2. pc' = [pc EXCEPT ![t] = IF t = Reader THEN "idle" ELSE "done"]
      BY <1>6 DEF TypeOK, AlreadyClosed, CloseBody, Returns
    <2> QED BY <2>1, <2>2 DEF TypeOK
  <1>7. ASSUME NEW t \in Threads, LockAndCancel(t) PROVE Roles'
    BY <1>7 DEF TypeOK, LockAndCancel
  <1> QED
    BY <1>1, <1>2, <1>3, <1>4, <1>5, <1>6, <1>7 DEF Next, Read, Close

\* Read leaves at most one goroutine behind, and starts none after that.
LEMMA OrphanStep == TypeOK /\ MuHeld /\ Roles /\ Orphaned /\ [Next]_vars => Orphaned'
  <1> SUFFICES ASSUME TypeOK, MuHeld, Roles, Orphaned, [Next]_vars PROVE Orphaned'
    OBVIOUS
  <1> USE WhoIsWho DEF Orphaned, OneReadOfBody, closeVars
  <1>1. CASE ReadClosed \/ Cancel \/ UNCHANGED vars
    BY <1>1 DEF ReadClosed, Cancel, vars
  <1>2. CASE StartRead
    <2>1. ~closed
      BY <1>2, ReadErrKinds, NoneIsNoError DEF StartRead
    <2>2. orphans = 0
      BY <1>2, <2>1 DEF TypeOK, StartRead
    <2> QED BY <1>2, <2>2 DEF StartRead
  <1>3. CASE InnerRead
    BY <1>3 DEF TypeOK, InnerRead, Roles
  <1>4. CASE OrphanRead
    BY <1>4 DEF TypeOK, OrphanRead
  <1>5. CASE SelectCtx
    BY <1>5 DEF TypeOK, SelectCtx, Roles
  <1>6. CASE SelectData \/ SelectErr
    <2>1. orphans = 0
      BY <1>6 DEF TypeOK, SelectData, SelectErr
    <2> QED BY <1>6, <2>1 DEF SelectData, SelectErr
  <1>7. ASSUME NEW c \in Closers, CallClose(c) PROVE Orphaned'
    BY <1>7 DEF TypeOK, CallClose
  <1>8. ASSUME NEW t \in Threads, AlreadyClosed(t) \/ CloseBody(t) PROVE Orphaned'
    <2>1. closed' /\ orphans' = orphans /\ inner' = inner
      BY <1>8 DEF AlreadyClosed, CloseBody, MuHeld
    <2>2. pc' = [pc EXCEPT ![t] = IF t = Reader THEN "idle" ELSE "done"]
      BY <1>8 DEF TypeOK, AlreadyClosed, CloseBody, Returns
    <2> QED BY <2>1, <2>2 DEF TypeOK
  <1>9. ASSUME NEW t \in Threads, LockAndCancel(t) PROVE Orphaned'
    BY <1>9 DEF TypeOK, LockAndCancel
  <1> QED
    BY <1>1, <1>2, <1>3, <1>4, <1>5, <1>6, <1>7, <1>8, <1>9 DEF Next, Read, Close

\* A chunk moves from rc to the goroutine, to close()'s caller, to the reader.
LEMMA ConservedStep ==
    TypeOK /\ MuHeld /\ Roles /\ Orphaned /\ Conserved /\ [Next]_vars => Conserved'
  <1> SUFFICES ASSUME TypeOK, MuHeld, Roles, Orphaned, Conserved, [Next]_vars
               PROVE  Conserved'
    OBVIOUS
  <1> USE WhoIsWho, ChunksAssumption DEF closeVars
  <1>0. /\ got.n \in {0, 1} /\ arg[Reader].n \in {0, 1}
        /\ left \in Nat /\ received \in Nat
    BY ResultKinds DEF TypeOK
  <1>1. CASE ReadClosed \/ Cancel \/ UNCHANGED vars
    BY <1>1 DEF Conserved, ReadClosed, Cancel, vars
  <1>2. CASE StartRead
    <2>1. ~closed
      BY <1>2, ReadErrKinds, NoneIsNoError DEF StartRead
    <2> QED BY <1>0, <1>2, <2>1 DEF Conserved, TypeOK, StartRead
  <1>3. CASE InnerRead
    <2>1. PICK r \in Result : BodyReturns(r) /\ got' = r
      BY <1>3 DEF InnerRead
    <2>2. left' + r.n = left /\ left' \in Nat /\ r.n \in {0, 1}
      BY <2>1, BodyStep, ResultKinds
    <2>3. pc[Reader] = "select" /\ inner' = "done" /\ pc' = pc /\ received' = received
      BY <1>3 DEF InnerRead, Roles
    <2>4. received + left = Chunks
      BY <1>0, <1>3, <2>3 DEF InnerRead, Conserved
    <2>5. received' + left' + got'.n = Chunks
      BY <1>0, <2>1, <2>2, <2>3, <2>4, PartsAdd
    <2> QED BY <2>3, <2>5 DEF Conserved
  <1>4. CASE OrphanRead
    <2>1. PICK r \in Result : BodyReturns(r)
      BY <1>4 DEF OrphanRead
    <2>2. left' \in Nat /\ left' <= left
      BY <2>1, BodyStep
    <2>3. /\ pc' = pc /\ received' = received /\ arg' = arg /\ closed' = closed
          /\ pc[Reader] # "select" /\ (pc[Reader] = "idle" => closed)
      BY <1>4 DEF OrphanRead, Orphaned, TypeOK
    <2>4. pc[Reader] \in {"lock", "closeBody"} => received + arg[Reader].n + left' <= Chunks
      <3>1. received + arg[Reader].n \in Nat
        BY <1>0
      <3> QED BY <1>0, <2>2, <3>1, FewerFit DEF Conserved
    <2> QED BY <2>3, <2>4 DEF Conserved
  <1>5. CASE SelectCtx
    <2>1. arg'[Reader].n = 0 /\ pc'[Reader] = "lock"
      BY <1>5 DEF SelectCtx, TypeOK
    <2>2. received + left <= Chunks
      BY DEF TypeOK
    <2> QED BY <1>0, <1>5, <2>1, <2>2 DEF Conserved, SelectCtx
  <1>6. CASE SelectData
    <2>1. received' = received + got.n /\ left' = left /\ pc'[Reader] = "idle"
      BY <1>6 DEF SelectData, TypeOK
    <2> QED BY <1>0, <1>6, <2>1 DEF Conserved, SelectData
  <1>7. CASE SelectErr
    <2>1. arg'[Reader] = got /\ pc'[Reader] = "lock"
      BY <1>7 DEF SelectErr, TypeOK
    <2> QED BY <1>0, <1>7, <2>1 DEF Conserved, SelectErr
  <1>8. ASSUME NEW c \in Closers, CallClose(c) PROVE Conserved'
    BY <1>8 DEF Conserved, TypeOK, CallClose
  <1>9. ASSUME NEW t \in Threads, AlreadyClosed(t) \/ CloseBody(t) PROVE Conserved'
    <2>1. /\ pc[t] \in {"lock", "closeBody"} /\ closed' = closed /\ closed
          /\ arg' = arg /\ left' = left /\ inner' = inner /\ got' = got
      BY <1>9 DEF AlreadyClosed, CloseBody, MuHeld
    <2>2. /\ pc' = [pc EXCEPT ![t] = IF t = Reader THEN "idle" ELSE "done"]
          /\ t # Reader => received' = received
      BY <1>9 DEF TypeOK, AlreadyClosed, CloseBody, Returns
    <2>3. CASE t = Reader
      BY <2>1, <2>2, <2>3 DEF TypeOK, Conserved
    <2>4. CASE t # Reader
      BY <2>1, <2>2, <2>4 DEF TypeOK, Conserved
    <2> QED BY <2>3, <2>4
  <1>10. ASSUME NEW t \in Threads, LockAndCancel(t) PROVE Conserved'
    <2>1. CASE t = Reader
      BY <1>0, <1>10, <2>1 DEF TypeOK, LockAndCancel, Conserved
    <2>2. CASE t # Reader
      BY <1>0, <1>10, <2>2 DEF TypeOK, LockAndCancel, Conserved
    <2> QED BY <2>1, <2>2
  <1> QED
    BY <1>1, <1>2, <1>3, <1>4, <1>5, <1>6, <1>7, <1>8, <1>9, <1>10
    DEF Next, Read, Close

\* io.EOF is recorded only by a reader that has every chunk.
LEMMA EOFStep ==
    TypeOK /\ MuHeld /\ Roles /\ Conserved /\ EOFKnown /\ [Next]_vars => EOFKnown'
  <1> SUFFICES ASSUME TypeOK, MuHeld, Roles, Conserved, EOFKnown, [Next]_vars
               PROVE  EOFKnown'
    OBVIOUS
  <1> USE WhoIsWho, ChunksAssumption, NoneIsNoError DEF closeVars
  <1>1. CASE ReadClosed \/ OrphanRead \/ Cancel \/ UNCHANGED vars
    BY <1>1 DEF EOFKnown, ReadClosed, OrphanRead, Cancel, vars
  <1>2. CASE StartRead
    <2>1. err # "eof"
      BY <1>2, ReadErrKinds DEF StartRead, MuHeld, Errors
    <2> QED BY <1>2, <2>1 DEF EOFKnown, TypeOK, StartRead
  <1>3. CASE InnerRead
    <2>1. PICK r \in Result : BodyReturns(r) /\ got' = r
      BY <1>3 DEF InnerRead
    <2>2. r.err = "eof" => left' + r.n = left /\ left' = 0
      BY <2>1, BodyStep
    <2>3. pc[Reader] = "select" /\ received + left = Chunks
      BY <1>3 DEF InnerRead, Roles, Conserved, TypeOK
    <2>4. r.n \in Nat /\ left \in Nat
      BY ResultKinds DEF TypeOK
    <2>5. r.err = "eof" => received + r.n = Chunks
      BY <2>2, <2>3, <2>4
    <2> QED BY <1>3, <2>1, <2>3, <2>5 DEF EOFKnown, InnerRead
  <1>4. CASE SelectCtx
    <2>1. err # "eof"
      BY <1>4 DEF SelectCtx, EOFKnown
    <2>2. arg'[Reader].err # "eof" /\ pc'[Reader] = "lock"
      BY <1>4, <2>1, ReadErrKinds DEF SelectCtx, TypeOK, Errors
    <2> QED BY <1>4, <2>1, <2>2 DEF EOFKnown, SelectCtx
  <1>5. CASE SelectData
    BY <1>5 DEF EOFKnown, SelectData, TypeOK
  <1>6. CASE SelectErr
    BY <1>6 DEF EOFKnown, SelectErr, TypeOK
  <1>7. ASSUME NEW c \in Closers, CallClose(c) PROVE EOFKnown'
    BY <1>7 DEF EOFKnown, TypeOK, CallClose
  <1>8. ASSUME NEW t \in Threads, NEW e \in Errors \cup {None}, Returns(t, e),
               pc[t] \in {"lock", "closeBody"},
               arg' = arg, inner' = inner, got' = got, err' = e,
               e = "eof" => err = "eof" \/ (t = Reader /\ arg[t].err = "eof")
        PROVE  EOFKnown'
    <2>1. /\ pc' = [pc EXCEPT ![t] = IF t = Reader THEN "idle" ELSE "done"]
          /\ t = Reader => received' = received + arg[t].n
          /\ t # Reader => received' = received
      BY <1>8, ReturnsStep
    <2>2. CASE t = Reader
      BY <1>8, <2>1, <2>2 DEF EOFKnown, TypeOK, Roles
    <2>3. CASE t # Reader
      BY <1>8, <2>1, <2>3 DEF EOFKnown, TypeOK
    <2> QED BY <2>2, <2>3
  <1>9. ASSUME NEW t \in Threads, AlreadyClosed(t) PROVE EOFKnown'
    <2>1. err \in Errors \cup {None}
      BY DEF TypeOK
    <2> QED BY <1>8, <1>9, <2>1 DEF AlreadyClosed
  <1>10. ASSUME NEW t \in Threads, LockAndCancel(t) PROVE EOFKnown'
    BY <1>10 DEF EOFKnown, TypeOK, LockAndCancel
  <1>11. ASSUME NEW t \in Threads, CloseBody(t) PROVE EOFKnown'
    <2>1. /\ Returns(t, err') /\ pc[t] \in {"lock", "closeBody"}
          /\ arg' = arg /\ inner' = inner /\ got' = got
      BY <1>11 DEF CloseBody
    <2>2. err' \in Errors \cup {None}
      BY <1>11, ResultKinds DEF CloseBody, TypeOK, Errors
    <2>3. err' = "eof" => arg[t].err = "eof"
      BY <1>11 DEF CloseBody, Errors
    <2>4. t # Reader => arg[t].err # "eof"
      <3>1. t # Reader => arg[t] = Nothing
        BY DEF Roles
      <3>2. Nothing.err # "eof"
        BY DEF Nothing, Errors
      <3> QED BY <3>1, <3>2
    <2>5. PICK e \in Errors \cup {None} : err' = e
      BY <2>2
    <2>6. e = "eof" => t = Reader /\ arg[t].err = "eof"
      BY <2>3, <2>4, <2>5
    <2>7. Returns(t, e)
      BY <2>1, <2>5
    <2> QED BY <1>8, <2>1, <2>5, <2>6, <2>7
  <1> QED
    BY <1>1, <1>2, <1>3, <1>4, <1>5, <1>6, <1>7, <1>9, <1>10, <1>11
    DEF Next, Read, Close

\* The error told first is the one on record.
LEMMA LastWordStep == TypeOK /\ MuHeld /\ Roles /\ LastWord /\ [Next]_vars => LastWord'
  <1> SUFFICES ASSUME TypeOK, MuHeld, Roles, LastWord, [Next]_vars PROVE LastWord'
    OBVIOUS
  <1> USE WhoIsWho, NoneIsNoError DEF closeVars
  <1>1. CASE ReadClosed
    <2>1. closed /\ mu = None
      BY <1>1, ReadErrKinds DEF ReadClosed
    <2> QED BY <1>1, <2>1 DEF LastWord, ReadErr, ReadClosed
  <1>2. CASE InnerRead \/ OrphanRead \/ Cancel \/ UNCHANGED vars
    BY <1>2 DEF LastWord, ReadErr, InnerRead, OrphanRead, Cancel, vars
  <1>3. CASE StartRead
    <2>1. ~closed
      BY <1>3, ReadErrKinds DEF StartRead
    <2> QED BY <1>3, <2>1 DEF LastWord, StartRead
  <1>4. CASE SelectCtx \/ SelectData \/ SelectErr
    <2>1. out = None /\ out' = out
      BY <1>4 DEF LastWord, SelectCtx, SelectData, SelectErr
    <2> QED BY <2>1 DEF LastWord
  <1>5. ASSUME NEW c \in Closers, CallClose(c) PROVE LastWord'
    BY <1>5 DEF LastWord, ReadErr, TypeOK, CallClose
  <1>6. ASSUME NEW t \in Threads, LockAndCancel(t) PROVE LastWord'
    BY <1>6 DEF LastWord, LockAndCancel
  <1>7. ASSUME NEW t \in Threads, AlreadyClosed(t) PROVE LastWord'
    <2>1. CASE t = Reader
      BY <1>7, <2>1 DEF LastWord, ReadErr, TypeOK, AlreadyClosed, Returns
    <2>2. CASE t # Reader
      BY <1>7, <2>2 DEF LastWord, ReadErr, TypeOK, AlreadyClosed, Returns
    <2> QED BY <2>1, <2>2
  <1>8. ASSUME NEW t \in Threads, CloseBody(t) PROVE LastWord'
    <2>1. mu = t /\ closed /\ mu' = None /\ closed' = closed
      BY <1>8 DEF CloseBody, MuHeld
    <2>2. out = None
      BY <2>1 DEF LastWord
    <2>3. CASE t = Reader
      <3>1. out' = err' /\ pc'[Reader] = "idle"
        BY <1>8, <2>3 DEF CloseBody, Returns, TypeOK
      <3> QED BY <2>1, <3>1 DEF LastWord, ReadErr
    <2>4. CASE t # Reader
      <3>1. out' = out
        BY <1>8, <2>4 DEF CloseBody, Returns
      <3> QED BY <2>2, <3>1 DEF LastWord
    <2> QED BY <2>3, <2>4
  <1> QED
    BY <1>1, <1>2, <1>3, <1>4, <1>5, <1>6, <1>7, <1>8 DEF Next, Read, Close

-----------------------------------------------------------------------------
\* The inductive invariant holds from the start and is kept.
LEMMA Invariant == Spec => []Inv
  <1>1. Init => Inv
    <2> SUFFICES ASSUME Init PROVE Inv
      OBVIOUS
    <2> USE ChunksAssumption, WhoIsWho, NoneIsNoError
    <2>1. TypeOK
      <3>1. [t \in Threads |-> "idle"] \in [Threads -> {"idle", "select", "lock", "closeBody", "done"}]
        OBVIOUS
      <3>2. /\ left \in 0 .. Chunks /\ received \in Nat /\ received + left <= Chunks
            /\ ending \in {"eof", "fail"} /\ inner \in {"none", "reading", "done"}
        BY DEF Init
      <3>3. arg \in [Threads -> Result] /\ got \in Result
        BY ResultKinds DEF Init
      <3>4. bodyOpen \in BOOLEAN /\ ctxDone \in BOOLEAN /\ closed \in BOOLEAN
        BY DEF Init
      <3> QED BY <3>1, <3>2, <3>3, <3>4 DEF Init, TypeOK
    <2>2. MuHeld /\ Roles
      <3>1. \A t \in Threads : pc[t] = "idle" /\ arg[t] = Nothing
        BY DEF Init
      <3>2. mu = None /\ err = None /\ inner = "none"
        BY DEF Init
      <3>3. MuHeld
        BY <3>1, <3>2 DEF MuHeld
      <3> QED BY <3>1, <3>2, <3>3 DEF Roles
    <2>4. Orphaned /\ LastWord
      BY DEF Init, Orphaned, OneReadOfBody, LastWord
    <2>3. Conserved /\ EOFKnown
      <3>1. /\ pc[Reader] = "idle" /\ inner = "none" /\ err # "eof"
            /\ left = Chunks /\ received = 0
        BY DEF Init, Errors
      <3> QED BY <3>1 DEF Conserved, EOFKnown
    <2> QED BY <2>1, <2>2, <2>3, <2>4 DEF Inv
  <1>2. Inv /\ [Next]_vars => Inv'
    BY TypeStep, MuStep, RolesStep, OrphanStep, ConservedStep, EOFStep, LastWordStep
    DEF Inv
  <1> QED BY <1>1, <1>2, PTL DEF Spec

\* The type invariant of CancelableReader.
THEOREM TypeCorrect == Spec => []TypeOK
  <1>1. Inv => TypeOK
    BY DEF Inv
  <1> QED BY <1>1, Invariant, PTL

\* However often Read gives up on rc.Read (iter.go:82-88), the body never has
\* two readers.
THEOREM OneReader == Spec => []OneReadOfBody
  <1>1. Inv => OneReadOfBody
    BY DEF Inv, Orphaned
  <1> QED BY <1>1, Invariant, PTL

\* When Read returns io.EOF no chunk was lost, whatever raced with it.
THEOREM EOFIsComplete == Spec => []EOFMeansAll
  <1>1. Inv => EOFMeansAll
    <2> SUFFICES ASSUME Inv, out = "eof" PROVE received = Chunks
      BY DEF EOFMeansAll
    <2>1. ReadErr = "eof"
      BY NoneIsNoError DEF Inv, LastWord, Errors
    <2> QED BY <2>1, ReadErrKinds DEF Inv, EOFKnown
  <1> QED BY <1>1, Invariant, PTL
-----------------------------------------------------------------------------
\* What a Read that close() ends is to its caller: the last one, or one without an
\* error when the reader was closed without.
LEMMA LastRead ==
    ASSUME Inv, NEW e \in Errors \cup {None}, pc[Reader] \in {"lock", "closeBody"},
           Returns(Reader, e), e = "eof" => received + arg[Reader].n = Chunks
    PROVE  Stream!Next
  <1> USE WhoIsWho, ChunksAssumption
  <1>1. arg[Reader].n \in {0, 1} /\ received \in Nat /\ left \in Nat
    BY ResultKinds DEF Inv, TypeOK
  <1>2. received' = received + arg[Reader].n /\ out' = e
    BY DEF Returns
  <1>3. out = None
    BY DEF Inv, LastWord
  <1>4. received + arg[Reader].n <= Chunks
    BY <1>1 DEF Inv, Conserved
  <1>5. CASE e = None
    <2>1. Stream!Read(arg[Reader].n)
      BY <1>2, <1>3, <1>4, <1>5 DEF Stream!Read, Stream!Receive
    <2> QED BY <1>1, <2>1 DEF Stream!Next
  <1>6. CASE e # None
    <2>1. Stream!ReadLast(arg[Reader].n)
      BY <1>2, <1>3, <1>4, <1>6 DEF Stream!ReadLast, Stream!Receive
    <2> QED BY <1>1, <2>1 DEF Stream!Next
  <1> QED BY <1>5, <1>6

\* CancelableReader implements ByteStream: whatever cancels or closes the reader, its
\* caller gets the chunks in order, all of them before io.EOF, and one last error.
THEOREM Refinement == Spec => IsByteStream
  <1>1. Init => Stream!Init
    BY DEF Init, Stream!Init
  <1>2. Inv /\ [Next]_vars => [Stream!Next]_(Stream!vars)
    <2> SUFFICES ASSUME Inv, [Next]_vars PROVE Stream!Next \/ UNCHANGED <<received, out>>
      BY DEF Stream!vars
    <2> USE WhoIsWho, ChunksAssumption DEF closeVars
    <2>1. CASE ReadClosed
      <3>1. out' = ReadErr /\ ReadErr \in Errors /\ received' = received
        BY <2>1, ReadErrKinds DEF ReadClosed, Inv
      <3>2. out # None => out' = out
        BY <3>1 DEF Inv, LastWord
      <3>3. received + 0 <= Chunks /\ received' = received + 0
        BY <3>1 DEF Inv, TypeOK
      <3>4. out' = "eof" => received' = Chunks
        BY <3>1, ReadErrKinds DEF Inv, EOFKnown
      <3>5. out = None => Stream!ReadLast(0)
        BY <3>1, <3>3, <3>4 DEF Stream!ReadLast, Stream!Receive
      <3> QED BY <3>1, <3>2, <3>5 DEF Stream!Next
    <2>2. CASE SelectData
      <3>1. received' = received + got.n /\ out' = out /\ got.n \in {0, 1}
        BY <2>2, ResultKinds DEF SelectData, Inv, TypeOK
      <3>2. out = None
        BY <2>2 DEF SelectData, Inv, LastWord
      <3>3. received + left + got.n = Chunks
        BY <2>2 DEF SelectData, Inv, Conserved
      <3>4. received + got.n <= Chunks
        BY <3>1, <3>3 DEF Inv, TypeOK
      <3>5. Stream!Read(got.n)
        BY <3>1, <3>2, <3>4 DEF Stream!Read, Stream!Receive
      <3> QED BY <3>1, <3>5 DEF Stream!Next
    <2>3. ASSUME NEW t \in Threads, AlreadyClosed(t)
          PROVE  Stream!Next \/ UNCHANGED <<received, out>>
      <3>1. CASE t = Reader
        <4>1. err \in Errors \cup {None} /\ err # "eof"
          BY <2>3, <3>1 DEF AlreadyClosed, Inv, TypeOK, EOFKnown
        <4>2. pc[Reader] \in {"lock", "closeBody"} /\ Returns(Reader, err)
          BY <2>3, <3>1 DEF AlreadyClosed
        <4> QED BY <4>1, <4>2, LastRead
      <3>2. CASE t # Reader
        BY <2>3, <3>2 DEF AlreadyClosed, Returns
      <3> QED BY <3>1, <3>2
    <2>4. ASSUME NEW t \in Threads, CloseBody(t)
          PROVE  Stream!Next \/ UNCHANGED <<received, out>>
      <3>1. CASE t = Reader
        <4>1. PICK e \in Errors \cup {None} : err' = e
          BY <2>4, ResultKinds DEF CloseBody, Inv, TypeOK, Errors
        <4>2. pc[Reader] \in {"lock", "closeBody"} /\ Returns(Reader, e)
          BY <2>4, <3>1, <4>1 DEF CloseBody
        <4>3. e = "eof" => arg[Reader].err = "eof"
          BY <2>4, <3>1, <4>1, NoneIsNoError DEF CloseBody, Errors
        <4>4. e = "eof" => received + arg[Reader].n = Chunks
          BY <4>2, <4>3 DEF Inv, EOFKnown
        <4> QED BY <4>2, <4>4, LastRead
      <3>2. CASE t # Reader
        BY <2>4, <3>2 DEF CloseBody, Returns
      <3> QED BY <3>1, <3>2
    <2>5. ASSUME NEW t \in Threads, LockAndCancel(t) PROVE UNCHANGED <<received, out>>
      BY <2>5 DEF LockAndCancel
    <2>6. ASSUME NEW c \in Closers, CallClose(c) PROVE UNCHANGED <<received, out>>
      BY <2>6 DEF CallClose
    <2>7. CASE \/ StartRead \/ SelectCtx \/ SelectErr \/ InnerRead \/ OrphanRead
               \/ Cancel \/ UNCHANGED vars
      BY <2>7 DEF StartRead, SelectCtx, SelectErr, InnerRead, OrphanRead, Cancel, vars
    <2> QED
      BY <2>1, <2>2, <2>3, <2>4, <2>5, <2>6, <2>7 DEF Next, Read, Close
  <1> QED BY <1>1, <1>2, Invariant, PTL DEF Spec, IsByteStream, Stream!Spec
=============================================================================
