-------------------------- MODULE RequestBodyProofs --------------------------
(***************************************************************************)
(* For documents of any length and any number of attempts: a request body  *)
(* that ends without an error is a whole document.                         *)
(*                                                                         *)
(* Every chunk is with the encoder, in the gzip.Writer or on the wire      *)
(* (Sums), an encoder ends with io.EOF only when it has nothing left       *)
(* (SourceEOF), and gzip passes that on only after it has written what it  *)
(* held (CopiedAll).                                                       *)
(***************************************************************************)
EXTENDS RequestBody, TLAPS

Shape ==
    /\ attempt \in 0 .. MaxAttempts
    /\ encoder \in [Attempts -> {"off", "write", "done"}]
    /\ left \in [Attempts -> 0 .. Chunks]
    /\ srcEnd \in [Attempts -> Ends \cup {None}]
    /\ held \in Nat
    /\ copyErr # "eof"
    /\ sent \in Nat

\* DoReq starts the first attempt, and nothing is sent before.
Started ==
    /\ attempt = 0 <=> doReq = "idle"
    /\ doReq = "idle" => transport = "idle"
    /\ \A a \in Attempts : a > attempt => left[a] = Chunks
    /\ attempt > 1 => transport # "idle"

\* An encoder that ended with io.EOF has written all.
SourceEOF == \A a \in Attempts : srcEnd[a] = "eof" => encodable /\ left[a] = 0

\* Where the chunks of the current document are.
Sums ==
    /\ compress /\ attempt <= 1 => sent + held + left[1] = Chunks
    /\ ~compress /\ attempt = 1 => sent + left[1] = Chunks
    /\ attempt > 1 => sent + left[attempt] = Chunks
    /\ attempt = 0 => sent = 0 /\ held = 0

\* What gzip has come to.
GzipUse ==
    /\ ~compress => gzip = "off"
    /\ attempt = 0 => gzip = "off"
    /\ zipEnd # None => gzip \in {"close", "wait", "done"}

\* When io.Copy ended without an error, nothing was left; when the pipe ended
\* without one, nothing was held either, unless nobody reads any more.
CopiedAll ==
    /\ gzip \in {"trailer", "end"} /\ copyErr = None => encodable /\ left[1] = 0
    /\ gzip = "end" /\ copyErr = None => held = 0 \/ zipClosed
    /\ zipEnd = "eof" => encodable /\ left[1] = 0 /\ (held = 0 \/ zipClosed)

\* Only the transport closes the pipe of gzip, and it stops reading then.
PipeUse == zipClosed /\ attempt <= 1 => transport = "ended"

\* The transport has seen no end while it still reads.
SeenLast == transport # "ended" => seen = None

RInv == /\ Shape /\ Started /\ SourceEOF /\ Sums /\ GzipUse
        /\ CopiedAll /\ PipeUse /\ SeenLast /\ CompleteOrBroken

-----------------------------------------------------------------------------
\* The variables the argument needs keep their shape.
LEMMA ShapeStep == RInv /\ [Next]_vars => Shape'
  <1> SUFFICES ASSUME RInv, [Next]_vars PROVE Shape'
    OBVIOUS
  <1> USE ConstAssumption, NoneIsNoEnd DEF RInv, Shape, Attempts, Ends, vars, request, source, zip, net
  <1>1. CASE DoReq
    BY <1>1 DEF DoReq, Starts, Shape, Started
  <1>2. CASE AuthFails
    BY <1>2 DEF AuthFails, Shape, Started
  <1>3. CASE Answered
    BY <1>3 DEF Answered, Shape, Started
  <1>4. CASE CloseBody
    BY <1>4 DEF CloseBody, CloseSource, Shape, Started
  <1>5. CASE Returned
    BY <1>5 DEF Returned, Shape, Started
  <1>6. CASE GzipRead
    BY <1>6 DEF GzipRead, TakeChunk, Shape, Started
  <1>7. CASE GzipReadsEnd
    BY <1>7 DEF GzipReadsEnd, SourceEnd
  <1>8. CASE GzipFlush
    BY <1>8 DEF GzipFlush, TakeHeld, Shape, Started
  <1>9. CASE GzipFlushFails
    BY <1>9 DEF GzipFlushFails
  <1>10. CASE GzipTrailer
    BY <1>10 DEF GzipTrailer, TakeHeld, Shape, Started
  <1>11. CASE GzipEnds
    BY <1>11 DEF GzipEnds, Shape, Started
  <1>12. CASE GzipClosesSource
    BY <1>12 DEF GzipClosesSource, CloseSource, Shape, Started
  <1>13. CASE GzipDone
    BY <1>13 DEF GzipDone, Shape, Started
  <1>14. CASE BeginSend
    BY <1>14 DEF BeginSend, Shape, Started
  <1>15. CASE SendChunk
    BY <1>15 DEF SendChunk, TakeChunk, Zipped, Shape, Started
  <1>16. CASE SendEnds
    BY <1>16 DEF SendEnds, Stop, CloseSource, Zipped, BodyEnd, SourceEnd, Shape, Started
  <1>17. CASE SendBreaks
    BY <1>17 DEF SendBreaks, Stop, CloseSource, Zipped, Shape, Started
  <1>18. CASE Retry
    BY <1>18 DEF Retry, Starts, Shape, Started
  <1>19. ASSUME NEW a \in Attempts, Encode(a) PROVE Shape'
    BY <1>19 DEF Encode, EncodeFails, EncodeEnds, Shape, Started
  <1>20. CASE Ended \/ UNCHANGED vars
    BY <1>20 DEF Ended, Shape, Started
  <1> QED
    BY <1>1, <1>2, <1>3, <1>4, <1>5, <1>6, <1>7, <1>8, <1>9, <1>10, <1>11, <1>12, <1>13, <1>14, <1>15, <1>16, <1>17, <1>18, <1>19, <1>20 DEF Next, Do, Gzip, Send

\* The bookkeeping of attempts.
LEMMA StartedStep == RInv /\ [Next]_vars => Started'
  <1> SUFFICES ASSUME RInv, [Next]_vars PROVE Started'
    OBVIOUS
  <1> USE ConstAssumption, NoneIsNoEnd DEF RInv, Shape, Attempts, Ends, vars, request, source, zip, net
  <1>1. CASE DoReq
    BY <1>1 DEF DoReq, Starts, Started
  <1>2. CASE AuthFails
    BY <1>2 DEF AuthFails, Started
  <1>3. CASE Answered
    BY <1>3 DEF Answered, Started
  <1>4. CASE CloseBody
    BY <1>4 DEF CloseBody, CloseSource, Started
  <1>5. CASE Returned
    BY <1>5 DEF Returned, Started
  <1>6. CASE GzipRead
    BY <1>6 DEF GzipRead, TakeChunk, Started, GzipUse
  <1>7. CASE GzipReadsEnd
    BY <1>7 DEF GzipReadsEnd, SourceEnd, Started
  <1>8. CASE GzipFlush
    BY <1>8 DEF GzipFlush, TakeHeld, Started
  <1>9. CASE GzipFlushFails
    BY <1>9 DEF GzipFlushFails, Started
  <1>10. CASE GzipTrailer
    BY <1>10 DEF GzipTrailer, TakeHeld, Started
  <1>11. CASE GzipEnds
    BY <1>11 DEF GzipEnds, Started
  <1>12. CASE GzipClosesSource
    BY <1>12 DEF GzipClosesSource, CloseSource, Started
  <1>13. CASE GzipDone
    BY <1>13 DEF GzipDone, Started
  <1>14. CASE BeginSend
    BY <1>14 DEF BeginSend, Started
  <1>15. CASE SendChunk
    BY <1>15 DEF SendChunk, TakeChunk, Zipped, Started
  <1>16. CASE SendEnds
    BY <1>16 DEF SendEnds, Stop, CloseSource, Zipped, BodyEnd, SourceEnd, Started
  <1>17. CASE SendBreaks
    BY <1>17 DEF SendBreaks, Stop, CloseSource, Zipped, Started
  <1>18. CASE Retry
    BY <1>18 DEF Retry, Starts, Started
  <1>19. ASSUME NEW a \in Attempts, Encode(a) PROVE Started'
    BY <1>19 DEF Encode, EncodeFails, EncodeEnds, Started
  <1>20. CASE Ended \/ UNCHANGED vars
    BY <1>20 DEF Ended, Started
  <1> QED
    BY <1>1, <1>2, <1>3, <1>4, <1>5, <1>6, <1>7, <1>8, <1>9, <1>10, <1>11, <1>12, <1>13, <1>14, <1>15, <1>16, <1>17, <1>18, <1>19, <1>20 DEF Next, Do, Gzip, Send

\* A source that has ended stays empty.
LEMMA SourceEOFStep == RInv /\ [Next]_vars => SourceEOF'
  <1> SUFFICES ASSUME RInv, [Next]_vars PROVE SourceEOF'
    OBVIOUS
  <1> USE ConstAssumption, NoneIsNoEnd DEF RInv, Shape, Attempts, Ends, vars, request, source, zip, net
  <1>1. CASE DoReq
    BY <1>1 DEF DoReq, Starts, SourceEOF, Started
  <1>2. CASE AuthFails
    BY <1>2 DEF AuthFails, SourceEOF, Started
  <1>3. CASE Answered
    BY <1>3 DEF Answered, SourceEOF, Started
  <1>4. CASE CloseBody
    BY <1>4 DEF CloseBody, CloseSource, SourceEOF, Started
  <1>5. CASE Returned
    BY <1>5 DEF Returned, SourceEOF, Started
  <1>6. CASE GzipRead
    BY <1>6 DEF GzipRead, TakeChunk, SourceEOF, Started
  <1>7. CASE GzipReadsEnd
    BY <1>7 DEF GzipReadsEnd, SourceEnd, SourceEOF, Started
  <1>8. CASE GzipFlush
    BY <1>8 DEF GzipFlush, TakeHeld, SourceEOF, Started
  <1>9. CASE GzipFlushFails
    BY <1>9 DEF GzipFlushFails, SourceEOF, Started
  <1>10. CASE GzipTrailer
    BY <1>10 DEF GzipTrailer, TakeHeld, SourceEOF, Started
  <1>11. CASE GzipEnds
    BY <1>11 DEF GzipEnds, SourceEOF, Started
  <1>12. CASE GzipClosesSource
    BY <1>12 DEF GzipClosesSource, CloseSource, SourceEOF, Started
  <1>13. CASE GzipDone
    BY <1>13 DEF GzipDone, SourceEOF, Started
  <1>14. CASE BeginSend
    BY <1>14 DEF BeginSend, SourceEOF, Started
  <1>15. CASE SendChunk
    BY <1>15 DEF SendChunk, TakeChunk, Zipped, SourceEOF, Started
  <1>16. CASE SendEnds
    BY <1>16 DEF SendEnds, Stop, CloseSource, Zipped, BodyEnd, SourceEnd, SourceEOF, Started
  <1>17. CASE SendBreaks
    BY <1>17 DEF SendBreaks, Stop, CloseSource, Zipped, SourceEOF, Started
  <1>18. CASE Retry
    BY <1>18 DEF Retry, Starts, SourceEOF, Started
  <1>19. ASSUME NEW a \in Attempts, Encode(a) PROVE SourceEOF'
    BY <1>19 DEF Encode, EncodeFails, EncodeEnds, SourceEOF, Started
  <1>20. CASE Ended \/ UNCHANGED vars
    BY <1>20 DEF Ended, SourceEOF, Started
  <1> QED
    BY <1>1, <1>2, <1>3, <1>4, <1>5, <1>6, <1>7, <1>8, <1>9, <1>10, <1>11, <1>12, <1>13, <1>14, <1>15, <1>16, <1>17, <1>18, <1>19, <1>20 DEF Next, Do, Gzip, Send

\* No chunk is lost or doubled on its way.
LEMMA SumsStep == RInv /\ [Next]_vars => Sums'
  <1> SUFFICES ASSUME RInv, [Next]_vars PROVE Sums'
    OBVIOUS
  <1> USE ConstAssumption, NoneIsNoEnd DEF RInv, Shape, Attempts, Ends, vars, request, source, zip, net
  <1>1. CASE DoReq
    BY <1>1 DEF DoReq, Starts, Sums, Started
  <1>2. CASE AuthFails
    BY <1>2 DEF AuthFails, Sums, Started
  <1>3. CASE Answered
    BY <1>3 DEF Answered, Sums, Started
  <1>4. CASE CloseBody
    BY <1>4 DEF CloseBody, CloseSource, Sums, Started
  <1>5. CASE Returned
    BY <1>5 DEF Returned, Sums, Started
  <1>6. CASE GzipRead
    <2>1. compress /\ attempt >= 1
      BY <1>6 DEF GzipRead, GzipUse
    <2>2. /\ left[1] \in Nat /\ left[1] > 0
          /\ left' = [left EXCEPT ![1] = left[1] - 1]
          /\ held' = held + 1 /\ sent' = sent
          /\ UNCHANGED <<compress, attempt>>
      BY <1>6 DEF GzipRead, TakeChunk
    <2>3. /\ left'[1] = left[1] - 1
          /\ attempt > 1 => left'[attempt] = left[attempt]
      BY <2>2
    <2> QED
      BY <2>1, <2>2, <2>3 DEF Sums
  <1>7. CASE GzipReadsEnd
    BY <1>7 DEF GzipReadsEnd, SourceEnd, Sums, Started
  <1>8. CASE GzipFlush
    <2>1. compress /\ attempt = 1
      BY <1>8 DEF GzipFlush, TakeHeld, GzipUse
    <2>2. /\ held' = 0 /\ sent' = sent + held
          /\ UNCHANGED <<compress, attempt, left>>
      BY <1>8 DEF GzipFlush, TakeHeld
    <2> QED
      BY <2>1, <2>2 DEF Sums
  <1>9. CASE GzipFlushFails
    BY <1>9 DEF GzipFlushFails, Sums, Started
  <1>10. CASE GzipTrailer
    <2>1. CASE TakeHeld
      <3>1. compress /\ attempt = 1
        BY <1>10, <2>1 DEF GzipTrailer, TakeHeld, GzipUse
      <3>2. /\ held' = 0 /\ sent' = sent + held
            /\ UNCHANGED <<compress, attempt, left>>
        BY <1>10, <2>1 DEF GzipTrailer, TakeHeld
      <3> QED
        BY <3>1, <3>2 DEF Sums
    <2>2. CASE UNCHANGED <<held, net>>
      BY <1>10, <2>2 DEF GzipTrailer, Sums
    <2> QED
      BY <1>10, <2>1, <2>2 DEF GzipTrailer
  <1>11. CASE GzipEnds
    BY <1>11 DEF GzipEnds, Sums, Started
  <1>12. CASE GzipClosesSource
    BY <1>12 DEF GzipClosesSource, CloseSource, Sums, Started
  <1>13. CASE GzipDone
    BY <1>13 DEF GzipDone, Sums, Started
  <1>14. CASE BeginSend
    BY <1>14 DEF BeginSend, Sums, Started
  <1>15. CASE SendChunk
    BY <1>15 DEF SendChunk, TakeChunk, Zipped, Sums, Started
  <1>16. CASE SendEnds
    BY <1>16 DEF SendEnds, Stop, CloseSource, Zipped, BodyEnd, SourceEnd, Sums, Started
  <1>17. CASE SendBreaks
    BY <1>17 DEF SendBreaks, Stop, CloseSource, Zipped, Sums, Started
  <1>18. CASE Retry
    BY <1>18 DEF Retry, Starts, Sums, Started
  <1>19. ASSUME NEW a \in Attempts, Encode(a) PROVE Sums'
    BY <1>19 DEF Encode, EncodeFails, EncodeEnds, Sums, Started
  <1>20. CASE Ended \/ UNCHANGED vars
    BY <1>20 DEF Ended, Sums, Started
  <1> QED
    BY <1>1, <1>2, <1>3, <1>4, <1>5, <1>6, <1>7, <1>8, <1>9, <1>10, <1>11, <1>12, <1>13, <1>14, <1>15, <1>16, <1>17, <1>18, <1>19, <1>20 DEF Next, Do, Gzip, Send

\* gzip runs when it should.
LEMMA GzipUseStep == RInv /\ [Next]_vars => GzipUse'
  <1> SUFFICES ASSUME RInv, [Next]_vars PROVE GzipUse'
    OBVIOUS
  <1> USE ConstAssumption, NoneIsNoEnd DEF RInv, Shape, Attempts, Ends, vars, request, source, zip, net
  <1>1. CASE DoReq
    BY <1>1 DEF DoReq, Starts, GzipUse, Started
  <1>2. CASE AuthFails
    BY <1>2 DEF AuthFails, GzipUse, Started
  <1>3. CASE Answered
    BY <1>3 DEF Answered, GzipUse, Started
  <1>4. CASE CloseBody
    BY <1>4 DEF CloseBody, CloseSource, GzipUse, Started
  <1>5. CASE Returned
    BY <1>5 DEF Returned, GzipUse, Started
  <1>6. CASE GzipRead
    BY <1>6 DEF GzipRead, TakeChunk, GzipUse, Started
  <1>7. CASE GzipReadsEnd
    BY <1>7 DEF GzipReadsEnd, SourceEnd, GzipUse, Started
  <1>8. CASE GzipFlush
    BY <1>8 DEF GzipFlush, TakeHeld, GzipUse, Started
  <1>9. CASE GzipFlushFails
    BY <1>9 DEF GzipFlushFails, GzipUse, Started
  <1>10. CASE GzipTrailer
    BY <1>10 DEF GzipTrailer, TakeHeld, GzipUse, Started
  <1>11. CASE GzipEnds
    BY <1>11 DEF GzipEnds, GzipUse, Started
  <1>12. CASE GzipClosesSource
    BY <1>12 DEF GzipClosesSource, CloseSource, GzipUse, Started
  <1>13. CASE GzipDone
    BY <1>13 DEF GzipDone, GzipUse, Started
  <1>14. CASE BeginSend
    BY <1>14 DEF BeginSend, GzipUse, Started
  <1>15. CASE SendChunk
    BY <1>15 DEF SendChunk, TakeChunk, Zipped, GzipUse, Started
  <1>16. CASE SendEnds
    BY <1>16 DEF SendEnds, Stop, CloseSource, Zipped, BodyEnd, SourceEnd, GzipUse, Started
  <1>17. CASE SendBreaks
    BY <1>17 DEF SendBreaks, Stop, CloseSource, Zipped, GzipUse, Started
  <1>18. CASE Retry
    BY <1>18 DEF Retry, Starts, GzipUse, Started
  <1>19. ASSUME NEW a \in Attempts, Encode(a) PROVE GzipUse'
    BY <1>19 DEF Encode, EncodeFails, EncodeEnds, GzipUse, Started
  <1>20. CASE Ended \/ UNCHANGED vars
    BY <1>20 DEF Ended, GzipUse, Started
  <1> QED
    BY <1>1, <1>2, <1>3, <1>4, <1>5, <1>6, <1>7, <1>8, <1>9, <1>10, <1>11, <1>12, <1>13, <1>14, <1>15, <1>16, <1>17, <1>18, <1>19, <1>20 DEF Next, Do, Gzip, Send

\* gzip passes the end on only behind the data.
LEMMA CopiedAllStep == RInv /\ [Next]_vars => CopiedAll'
  <1> SUFFICES ASSUME RInv, [Next]_vars PROVE CopiedAll'
    OBVIOUS
  <1> USE ConstAssumption, NoneIsNoEnd DEF RInv, Shape, Attempts, Ends, vars, request, source, zip, net
  <1>1. CASE DoReq
    BY <1>1 DEF DoReq, Starts, CopiedAll, Started
  <1>2. CASE AuthFails
    BY <1>2 DEF AuthFails, CopiedAll, Started
  <1>3. CASE Answered
    BY <1>3 DEF Answered, CopiedAll, Started
  <1>4. CASE CloseBody
    BY <1>4 DEF CloseBody, CloseSource, CopiedAll, Started
  <1>5. CASE Returned
    BY <1>5 DEF Returned, CopiedAll, Started
  <1>6. CASE GzipRead
    BY <1>6 DEF GzipRead, TakeChunk, CopiedAll, Started
  <1>7. CASE GzipReadsEnd
    BY <1>7 DEF GzipReadsEnd, SourceEnd, CopiedAll, SourceEOF, GzipUse
  <1>8. CASE GzipFlush
    BY <1>8 DEF GzipFlush, TakeHeld, CopiedAll, Started
  <1>9. CASE GzipFlushFails
    BY <1>9 DEF GzipFlushFails, CopiedAll, Started
  <1>10. CASE GzipTrailer
    BY <1>10 DEF GzipTrailer, TakeHeld, CopiedAll, Started
  <1>11. CASE GzipEnds
    BY <1>11 DEF GzipEnds, CopiedAll, GzipUse
  <1>12. CASE GzipClosesSource
    BY <1>12 DEF GzipClosesSource, CloseSource, CopiedAll, Started
  <1>13. CASE GzipDone
    BY <1>13 DEF GzipDone, CopiedAll, Started
  <1>14. CASE BeginSend
    BY <1>14 DEF BeginSend, CopiedAll, Started
  <1>15. CASE SendChunk
    BY <1>15 DEF SendChunk, TakeChunk, Zipped, CopiedAll, Started
  <1>16. CASE SendEnds
    BY <1>16 DEF SendEnds, Stop, CloseSource, Zipped, BodyEnd, SourceEnd, CopiedAll, Started
  <1>17. CASE SendBreaks
    BY <1>17 DEF SendBreaks, Stop, CloseSource, Zipped, CopiedAll, Started
  <1>18. CASE Retry
    BY <1>18 DEF Retry, Starts, CopiedAll, Started
  <1>19. ASSUME NEW a \in Attempts, Encode(a) PROVE CopiedAll'
    BY <1>19 DEF Encode, EncodeFails, EncodeEnds, CopiedAll, Started
  <1>20. CASE Ended \/ UNCHANGED vars
    BY <1>20 DEF Ended, CopiedAll, Started
  <1> QED
    BY <1>1, <1>2, <1>3, <1>4, <1>5, <1>6, <1>7, <1>8, <1>9, <1>10, <1>11, <1>12, <1>13, <1>14, <1>15, <1>16, <1>17, <1>18, <1>19, <1>20 DEF Next, Do, Gzip, Send

\* A closed pipe has no reader.
LEMMA PipeUseStep == RInv /\ [Next]_vars => PipeUse'
  <1> SUFFICES ASSUME RInv, [Next]_vars PROVE PipeUse'
    OBVIOUS
  <1> USE ConstAssumption, NoneIsNoEnd DEF RInv, Shape, Attempts, Ends, vars, request, source, zip, net
  <1>1. CASE DoReq
    BY <1>1 DEF DoReq, Starts, PipeUse, Started
  <1>2. CASE AuthFails
    BY <1>2 DEF AuthFails, PipeUse, Started
  <1>3. CASE Answered
    BY <1>3 DEF Answered, PipeUse, Started
  <1>4. CASE CloseBody
    BY <1>4 DEF CloseBody, CloseSource, PipeUse, Started
  <1>5. CASE Returned
    BY <1>5 DEF Returned, PipeUse, Started
  <1>6. CASE GzipRead
    BY <1>6 DEF GzipRead, TakeChunk, PipeUse, Started
  <1>7. CASE GzipReadsEnd
    BY <1>7 DEF GzipReadsEnd, SourceEnd, PipeUse, Started
  <1>8. CASE GzipFlush
    BY <1>8 DEF GzipFlush, TakeHeld, PipeUse, Started
  <1>9. CASE GzipFlushFails
    BY <1>9 DEF GzipFlushFails, PipeUse, Started
  <1>10. CASE GzipTrailer
    BY <1>10 DEF GzipTrailer, TakeHeld, PipeUse, Started
  <1>11. CASE GzipEnds
    BY <1>11 DEF GzipEnds, PipeUse, Started
  <1>12. CASE GzipClosesSource
    BY <1>12 DEF GzipClosesSource, CloseSource, PipeUse, Started
  <1>13. CASE GzipDone
    BY <1>13 DEF GzipDone, PipeUse, Started
  <1>14. CASE BeginSend
    BY <1>14 DEF BeginSend, PipeUse, Started
  <1>15. CASE SendChunk
    BY <1>15 DEF SendChunk, TakeChunk, Zipped, PipeUse, Started
  <1>16. CASE SendEnds
    BY <1>16 DEF SendEnds, Stop, CloseSource, Zipped, BodyEnd, SourceEnd, PipeUse, Started
  <1>17. CASE SendBreaks
    BY <1>17 DEF SendBreaks, Stop, CloseSource, Zipped, PipeUse, Started
  <1>18. CASE Retry
    BY <1>18 DEF Retry, Starts, PipeUse, Started
  <1>19. ASSUME NEW a \in Attempts, Encode(a) PROVE PipeUse'
    BY <1>19 DEF Encode, EncodeFails, EncodeEnds, PipeUse, Started
  <1>20. CASE Ended \/ UNCHANGED vars
    BY <1>20 DEF Ended, PipeUse, Started
  <1> QED
    BY <1>1, <1>2, <1>3, <1>4, <1>5, <1>6, <1>7, <1>8, <1>9, <1>10, <1>11, <1>12, <1>13, <1>14, <1>15, <1>16, <1>17, <1>18, <1>19, <1>20 DEF Next, Do, Gzip, Send

\* The end is the last thing seen.
LEMMA SeenLastStep == RInv /\ [Next]_vars => SeenLast'
  <1> SUFFICES ASSUME RInv, [Next]_vars PROVE SeenLast'
    OBVIOUS
  <1> USE ConstAssumption, NoneIsNoEnd DEF RInv, Shape, Attempts, Ends, vars, request, source, zip, net
  <1>1. CASE DoReq
    BY <1>1 DEF DoReq, Starts, SeenLast, Started
  <1>2. CASE AuthFails
    BY <1>2 DEF AuthFails, SeenLast, Started
  <1>3. CASE Answered
    BY <1>3 DEF Answered, SeenLast, Started
  <1>4. CASE CloseBody
    BY <1>4 DEF CloseBody, CloseSource, SeenLast, Started
  <1>5. CASE Returned
    BY <1>5 DEF Returned, SeenLast, Started
  <1>6. CASE GzipRead
    BY <1>6 DEF GzipRead, TakeChunk, SeenLast, Started
  <1>7. CASE GzipReadsEnd
    BY <1>7 DEF GzipReadsEnd, SourceEnd, SeenLast, Started
  <1>8. CASE GzipFlush
    BY <1>8 DEF GzipFlush, TakeHeld, SeenLast, Started
  <1>9. CASE GzipFlushFails
    BY <1>9 DEF GzipFlushFails, SeenLast, Started
  <1>10. CASE GzipTrailer
    BY <1>10 DEF GzipTrailer, TakeHeld, SeenLast, Started
  <1>11. CASE GzipEnds
    BY <1>11 DEF GzipEnds, SeenLast, Started
  <1>12. CASE GzipClosesSource
    BY <1>12 DEF GzipClosesSource, CloseSource, SeenLast, Started
  <1>13. CASE GzipDone
    BY <1>13 DEF GzipDone, SeenLast, Started
  <1>14. CASE BeginSend
    BY <1>14 DEF BeginSend, SeenLast, Started
  <1>15. CASE SendChunk
    BY <1>15 DEF SendChunk, TakeChunk, Zipped, SeenLast, Started
  <1>16. CASE SendEnds
    BY <1>16 DEF SendEnds, Stop, CloseSource, Zipped, BodyEnd, SourceEnd, SeenLast, Started
  <1>17. CASE SendBreaks
    BY <1>17 DEF SendBreaks, Stop, CloseSource, Zipped, SeenLast, Started
  <1>18. CASE Retry
    BY <1>18 DEF Retry, Starts, SeenLast, Started
  <1>19. ASSUME NEW a \in Attempts, Encode(a) PROVE SeenLast'
    BY <1>19 DEF Encode, EncodeFails, EncodeEnds, SeenLast, Started
  <1>20. CASE Ended \/ UNCHANGED vars
    BY <1>20 DEF Ended, SeenLast, Started
  <1> QED
    BY <1>1, <1>2, <1>3, <1>4, <1>5, <1>6, <1>7, <1>8, <1>9, <1>10, <1>11, <1>12, <1>13, <1>14, <1>15, <1>16, <1>17, <1>18, <1>19, <1>20 DEF Next, Do, Gzip, Send

\* An end without an error comes behind the whole document.
LEMMA CompleteOrBrokenStep == RInv /\ [Next]_vars => CompleteOrBroken'
  <1> SUFFICES ASSUME RInv, [Next]_vars PROVE CompleteOrBroken'
    OBVIOUS
  <1> USE ConstAssumption, NoneIsNoEnd DEF RInv, Shape, Attempts, Ends, vars, request, source, zip, net
  <1>1. CASE DoReq
    BY <1>1 DEF DoReq, Starts, CompleteOrBroken, Started
  <1>2. CASE AuthFails
    BY <1>2 DEF AuthFails, CompleteOrBroken, Started
  <1>3. CASE Answered
    BY <1>3 DEF Answered, CompleteOrBroken, Started
  <1>4. CASE CloseBody
    BY <1>4 DEF CloseBody, CloseSource, CompleteOrBroken, Started
  <1>5. CASE Returned
    BY <1>5 DEF Returned, CompleteOrBroken, Started
  <1>6. CASE GzipRead
    BY <1>6 DEF GzipRead, TakeChunk, CompleteOrBroken, Started
  <1>7. CASE GzipReadsEnd
    BY <1>7 DEF GzipReadsEnd, SourceEnd, CompleteOrBroken, Started
  <1>8. CASE GzipFlush
    BY <1>8 DEF GzipFlush, TakeHeld, CompleteOrBroken, SeenLast
  <1>9. CASE GzipFlushFails
    BY <1>9 DEF GzipFlushFails, CompleteOrBroken, Started
  <1>10. CASE GzipTrailer
    BY <1>10 DEF GzipTrailer, TakeHeld, CompleteOrBroken, SeenLast
  <1>11. CASE GzipEnds
    BY <1>11 DEF GzipEnds, CompleteOrBroken, Started
  <1>12. CASE GzipClosesSource
    BY <1>12 DEF GzipClosesSource, CloseSource, CompleteOrBroken, Started
  <1>13. CASE GzipDone
    BY <1>13 DEF GzipDone, CompleteOrBroken, Started
  <1>14. CASE BeginSend
    BY <1>14 DEF BeginSend, CompleteOrBroken, Started
  <1>15. CASE SendChunk
    BY <1>15 DEF SendChunk, CompleteOrBroken, SeenLast
  <1>16. CASE SendEnds
    <2>1. /\ transport = "send" /\ attempt \in Attempts
          /\ seen' = BodyEnd /\ UNCHANGED <<encodable, sent>>
      BY <1>16 DEF SendEnds, Stop, Started
    <2>2. CASE Zipped /\ BodyEnd = "eof"
      <3>1. encodable /\ left[1] = 0 /\ held = 0
        BY <2>1, <2>2 DEF BodyEnd, Zipped, CopiedAll, PipeUse
      <3>2. sent = Chunks
        BY <2>2, <3>1 DEF Zipped, Sums
      <3> QED
        BY <2>1, <3>1, <3>2 DEF CompleteOrBroken
    <2>3. CASE ~Zipped /\ BodyEnd = "eof"
      <3>1. encodable /\ left[attempt] = 0
        BY <2>1, <2>3 DEF BodyEnd, SourceEnd, SourceEOF
      <3>2. sent + left[attempt] = Chunks
        BY <2>1, <2>3 DEF Zipped, Sums
      <3> QED
        BY <2>1, <3>1, <3>2 DEF CompleteOrBroken
    <2>4. CASE BodyEnd # "eof"
      BY <2>1, <2>4 DEF CompleteOrBroken
    <2> QED
      BY <2>2, <2>3, <2>4
  <1>17. CASE SendBreaks
    BY <1>17 DEF SendBreaks, Stop, CloseSource, Zipped, CompleteOrBroken, Started
  <1>18. CASE Retry
    BY <1>18 DEF Retry, Starts, CompleteOrBroken, Started
  <1>19. ASSUME NEW a \in Attempts, Encode(a) PROVE CompleteOrBroken'
    BY <1>19 DEF Encode, EncodeFails, EncodeEnds, CompleteOrBroken, Started
  <1>20. CASE Ended \/ UNCHANGED vars
    BY <1>20 DEF Ended, CompleteOrBroken, Started
  <1> QED
    BY <1>1, <1>2, <1>3, <1>4, <1>5, <1>6, <1>7, <1>8, <1>9, <1>10, <1>11, <1>12, <1>13, <1>14, <1>15, <1>16, <1>17, <1>18, <1>19, <1>20 DEF Next, Do, Gzip, Send

-----------------------------------------------------------------------------
\* The invariant holds before the call.
LEMMA InitRInv == Init => RInv
  BY ConstAssumption, NoneIsNoEnd
     DEF Init, RInv, Shape, Started, SourceEOF, Sums, GzipUse, CopiedAll,
         PipeUse, SeenLast, CompleteOrBroken, Attempts, Ends

\* The invariant is inductive.
LEMMA NextRInv == RInv /\ [Next]_vars => RInv'
  BY ShapeStep, StartedStep, SourceEOFStep, SumsStep, GzipUseStep, CopiedAllStep,
     PipeUseStep, SeenLastStep, CompleteOrBrokenStep DEF RInv

\* A body that ends without an error is a whole document.
THEOREM BodyIsWhole == Spec => []CompleteOrBroken
  <1>1. RInv => CompleteOrBroken
    BY DEF RInv
  <1> QED
    BY <1>1, InitRInv, NextRInv, PTL DEF Spec

-----------------------------------------------------------------------------
(* The type invariant: Shape, and what the argument above does not need.    *)

Kinds ==
    /\ encodable \in BOOLEAN /\ compress \in BOOLEAN
    /\ doReq \in {"idle", "do", "close", "wait", "done"}
    /\ srcClosed \in [Attempts -> BOOLEAN]
    /\ gzip \in {"off", "copy", "flush", "trailer", "end", "close", "wait", "done"}
    /\ copyErr \in {None, "marshal", "closed"}
    /\ zipEnd \in Ends \cup {None}
    /\ zipClosed \in BOOLEAN
    /\ transport \in {"idle", "send", "ended"}
    /\ wire \in {"none", "plain", "gzip"}
    /\ seen \in Ends \cup {None}

\* gzip holds no more than the first encoder has written.
HeldFits == held + left[1] <= Chunks

\* The transport closes one of the two readers.
LEMMA StopTyped ==
  ASSUME Kinds, NEW end \in Ends, Stop(end)
  PROVE  Kinds'
  <1>1. /\ transport' = "ended" /\ seen' = end
        /\ UNCHANGED <<request, doReq, gzip, copyErr, zipEnd, wire>>
    BY DEF Stop
  <1>2. CASE Zipped
    BY <1>1, <1>2 DEF Stop, Kinds, source, request
  <1>3. CASE ~Zipped
    <2>1. srcClosed' \in [Attempts -> BOOLEAN] /\ UNCHANGED zipClosed
      BY <1>3 DEF Stop, CloseSource, Kinds
    <2> QED
      BY <1>1, <2>1 DEF Kinds, request
  <1> QED
    BY <1>2, <1>3

\* The other variables have their types.
LEMMA KindsStep == RInv /\ Kinds /\ [Next]_vars => Kinds'
  <1> SUFFICES ASSUME RInv, Kinds, [Next]_vars PROVE Kinds'
    OBVIOUS
  <1> USE ConstAssumption, NoneIsNoEnd DEF RInv, Kinds, Shape, Attempts, Ends, vars, request, source, zip, net
  <1>1. CASE DoReq
    BY <1>1 DEF DoReq, Starts
  <1>2. CASE AuthFails
    BY <1>2 DEF AuthFails
  <1>3. CASE Answered
    BY <1>3 DEF Answered
  <1>4. CASE CloseBody
    BY <1>4 DEF CloseBody, CloseSource
  <1>5. CASE Returned
    BY <1>5 DEF Returned
  <1>6. CASE GzipRead
    BY <1>6 DEF GzipRead, TakeChunk
  <1>7. CASE GzipReadsEnd
    BY <1>7 DEF GzipReadsEnd, SourceEnd
  <1>8. CASE GzipFlush
    BY <1>8 DEF GzipFlush, TakeHeld
  <1>9. CASE GzipFlushFails
    BY <1>9 DEF GzipFlushFails
  <1>10. CASE GzipTrailer
    BY <1>10 DEF GzipTrailer, TakeHeld
  <1>11. CASE GzipEnds
    BY <1>11 DEF GzipEnds
  <1>12. CASE GzipClosesSource
    BY <1>12 DEF GzipClosesSource, CloseSource
  <1>13. CASE GzipDone
    BY <1>13 DEF GzipDone
  <1>14. CASE BeginSend
    BY <1>14 DEF BeginSend
  <1>15. CASE SendChunk
    BY <1>15 DEF SendChunk, TakeChunk, Zipped
  <1>16. CASE SendEnds
    <2>1. attempt \in Attempts /\ BodyEnd # None /\ Stop(BodyEnd)
      BY <1>16 DEF SendEnds, Started
    <2>2. BodyEnd \in Ends
      BY <2>1 DEF BodyEnd, SourceEnd
    <2> QED
      BY <2>1, <2>2, StopTyped
  <1>17. CASE SendBreaks
    BY <1>17, StopTyped DEF SendBreaks, Started
  <1>18. CASE Retry
    BY <1>18 DEF Retry, Starts
  <1>19. ASSUME NEW a \in Attempts, Encode(a) PROVE Kinds'
    BY <1>19 DEF Encode, EncodeFails, EncodeEnds
  <1>20. CASE Ended \/ UNCHANGED vars
    BY <1>20 DEF Ended
  <1> QED
    BY <1>1, <1>2, <1>3, <1>4, <1>5, <1>6, <1>7, <1>8, <1>9, <1>10, <1>11, <1>12, <1>13, <1>14, <1>15, <1>16, <1>17, <1>18, <1>19, <1>20 DEF Next, Do, Gzip, Send

\* What gzip holds was the encoder's.
LEMMA HeldFitsStep == RInv /\ HeldFits /\ [Next]_vars => HeldFits'
  <1> SUFFICES ASSUME RInv, HeldFits, [Next]_vars PROVE HeldFits'
    OBVIOUS
  <1> USE ConstAssumption, NoneIsNoEnd DEF RInv, HeldFits, Shape, Attempts, Ends, vars, request, source, zip, net
  <1>1. CASE DoReq
    BY <1>1 DEF DoReq, Starts
  <1>2. CASE AuthFails
    BY <1>2 DEF AuthFails
  <1>3. CASE Answered
    BY <1>3 DEF Answered
  <1>4. CASE CloseBody
    BY <1>4 DEF CloseBody, CloseSource
  <1>5. CASE Returned
    BY <1>5 DEF Returned
  <1>6. CASE GzipRead
    BY <1>6 DEF GzipRead, TakeChunk
  <1>7. CASE GzipReadsEnd
    BY <1>7 DEF GzipReadsEnd, SourceEnd
  <1>8. CASE GzipFlush
    BY <1>8 DEF GzipFlush, TakeHeld
  <1>9. CASE GzipFlushFails
    BY <1>9 DEF GzipFlushFails
  <1>10. CASE GzipTrailer
    BY <1>10 DEF GzipTrailer, TakeHeld
  <1>11. CASE GzipEnds
    BY <1>11 DEF GzipEnds
  <1>12. CASE GzipClosesSource
    BY <1>12 DEF GzipClosesSource, CloseSource
  <1>13. CASE GzipDone
    BY <1>13 DEF GzipDone
  <1>14. CASE BeginSend
    BY <1>14 DEF BeginSend
  <1>15. CASE SendChunk
    BY <1>15 DEF SendChunk, TakeChunk, Zipped
  <1>16. CASE SendEnds
    BY <1>16 DEF SendEnds, Stop, CloseSource, BodyEnd, SourceEnd
  <1>17. CASE SendBreaks
    BY <1>17 DEF SendBreaks, Stop, CloseSource
  <1>18. CASE Retry
    BY <1>18 DEF Retry, Starts
  <1>19. ASSUME NEW a \in Attempts, Encode(a) PROVE HeldFits'
    BY <1>19 DEF Encode, EncodeFails, EncodeEnds
  <1>20. CASE Ended \/ UNCHANGED vars
    BY <1>20 DEF Ended
  <1> QED
    BY <1>1, <1>2, <1>3, <1>4, <1>5, <1>6, <1>7, <1>8, <1>9, <1>10, <1>11, <1>12, <1>13, <1>14, <1>15, <1>16, <1>17, <1>18, <1>19, <1>20 DEF Next, Do, Gzip, Send

\* What is on the wire is part of the document: Sums leaves no more.
LEMMA SentFits == RInv => sent \in 0 .. Chunks
  <1> SUFFICES ASSUME RInv PROVE sent \in 0 .. Chunks
    OBVIOUS
  <1> USE ConstAssumption DEF RInv, Shape, Sums, Attempts
  <1>1. attempt \in Attempts => left[attempt] \in 0 .. Chunks
    OBVIOUS
  <1>2. left[1] \in 0 .. Chunks
    OBVIOUS
  <1>3. CASE attempt > 1
    BY <1>1, <1>3
  <1>4. CASE attempt = 0
    BY <1>4
  <1>5. CASE attempt = 1
    BY <1>2, <1>5
  <1> QED
    BY <1>3, <1>4, <1>5

\* The type invariant, for documents of any length and any number of attempts.
THEOREM TypeCorrect == Spec => []TypeOK
  <1>1. Init => RInv /\ Kinds /\ HeldFits
    <2>1. Init => RInv
      BY InitRInv
    <2>2. Init => Kinds
      BY NoneIsNoEnd DEF Init, Kinds, Ends
    <2>3. Init => HeldFits
      BY ConstAssumption DEF Init, HeldFits, Attempts
    <2> QED
      BY <2>1, <2>2, <2>3
  <1>2. RInv /\ Kinds /\ HeldFits /\ [Next]_vars => (RInv /\ Kinds /\ HeldFits)'
    BY NextRInv, KindsStep, HeldFitsStep
  <1>3. RInv /\ Kinds /\ HeldFits => TypeOK
    <2> SUFFICES ASSUME RInv, Kinds, HeldFits PROVE TypeOK
      OBVIOUS
    <2>1. left[1] \in 0 .. Chunks /\ held \in Nat
      BY ConstAssumption DEF RInv, Shape, Attempts
    <2>2. held \in 0 .. Chunks
      BY <2>1, ConstAssumption DEF HeldFits
    <2> QED
      BY <2>2, SentFits DEF TypeOK, RInv, Shape, Kinds
  <1> QED
    BY <1>1, <1>2, <1>3, PTL DEF Spec
=============================================================================
