--------------------------- MODULE ResultRowsProofs ---------------------------
(***************************************************************************)
(* Theorems about ResultRows, for responses of any length that are cut off *)
(* anywhere: its types, which bound how far the decoder gets, that the     *)
(* iterators close the body at the end, that a closed iterator yields      *)
(* nothing more, and that io.EOF and EOQ come after all rows, QueryIndex   *)
(* belongs to the row, and the metadata of a whole response are parsed.    *)
(***************************************************************************)
EXTENDS ResultRows, FiniteSetTheorems, TLAPS

\* The response, which stays.
ResponseOK ==
    /\ [mode |-> mode, text |-> text] \in Responses
    /\ cut \in 0 .. Len(text)
    /\ ending \in {"eof", "partial", "fail"}

\* The decoder passes a symbol for each row, metadata value and query.
Bounded ==
    /\ pos \in 1 .. cut + 1
    /\ rows \in Nat /\ metas \in Nat /\ queryIndex \in Nat
    /\ rows + metas + queryIndex < pos

\* The iterator's fields.
FieldsOK ==
    /\ pc \in {"idle", "results", "begin", "keys", "row", "finish", "trailer"}
    /\ begun \in BOOLEAN /\ closed \in BOOLEAN /\ bodyOpen \in BOOLEAN
    /\ out \in {"none", "row", "eof", "eoq", "error"}
    /\ quit \in BOOLEAN
    /\ hasRows \in BOOLEAN /\ legacy \in BOOLEAN /\ mclosed \in BOOLEAN

\* Nothing is read before the first Next.
Fresh ==
    /\ pc # "idle" => begun
    /\ (~begun /\ ~IsClosed) \/ pc = "results" => rows = 0 /\ metas = 0 /\ queryIndex = 0

TypeInv == ResponseOK /\ Bounded /\ FieldsOK /\ Fresh

-----------------------------------------------------------------------------
(* The decoder.                                                             *)

\* The text is one of the responses.
LEMMA TextTyped ==
    ASSUME ResponseOK
    PROVE  text \in Seq(Symbols) /\ Len(text) \in Nat /\ cut \in Nat /\ cut <= Len(text)
  <1>1. [mode |-> mode, text |-> text] \in [mode : Modes, text : Seq(Symbols)]
    BY ResponsesAssumption DEF ResponseOK
  <1>2. text \in Seq(Symbols)
    BY <1>1
  <1> QED
    BY <1>2 DEF ResponseOK

\* TypeInv is stronger than TypeOK.
LEMMA TypeInvImplies == TypeInv => TypeOK
  BY TextTyped DEF TypeInv, ResponseOK, Bounded, FieldsOK, TypeOK

\* What the decoder finds at p, and where it is then.
LEMMA DecoderMoves ==
    ASSUME ResponseOK, NEW p \in Nat \ {0}
    PROVE  /\ After(p) \in Nat /\ After(p) > p
           /\ Tok(p) \in Symbols => After(p) \in 1 .. cut + 1
           /\ Stuck(p) \in 1 .. cut + 1
           /\ p <= cut + 1 => Stuck(p) >= p
  <1>1. Skip(p) \in {p, p + 1}
    BY DEF Skip
  <1>2. After(p) \in Nat /\ After(p) > p
    BY <1>1 DEF After
  <1>3. CASE Skip(p) <= cut
    BY <1>1, <1>2, <1>3, TextTyped DEF Stuck, Min, After
  <1>4. CASE ~(Skip(p) <= cut)
    <2>1. Tok(p) \in {"eof", "error"}
      BY <1>4 DEF Tok
    <2>2. Tok(p) \notin Symbols
      BY <2>1 DEF Symbols, Values, Keys
    <2> QED BY <1>2, <2>2, TextTyped DEF Stuck, Min
  <1> QED BY <1>3, <1>4

\* From where it is: the next symbol, the one behind it, and the row.
LEMMA FromHere ==
    ASSUME ResponseOK, Bounded
    PROVE  /\ cut \in Nat /\ pos \in Nat /\ pos <= cut + 1
           /\ After(pos) \in Nat /\ After(pos) > pos
           /\ Tok(pos) \in Symbols => After(pos) \in 1 .. cut + 1
           /\ Stuck(pos) \in pos .. cut + 1
           /\ After(After(pos)) \in Nat /\ After(After(pos)) > After(pos)
           /\ Tok(After(pos)) \in Symbols => After(After(pos)) \in 1 .. cut + 1
           /\ Tok(pos) \in Symbols => Stuck(After(pos)) \in pos .. cut + 1
           /\ After(Item) \in Nat /\ After(Item) > pos
           /\ Tok(Item) \in Symbols => After(Item) \in 1 .. cut + 1
           /\ Stuck(Item) \in pos .. cut + 1
  <1>1. pos \in Nat \ {0} /\ cut \in Nat /\ pos <= cut + 1
    BY TextTyped DEF Bounded
  <1>2. /\ After(pos) \in Nat \ {0} /\ After(pos) > pos
        /\ Tok(pos) \in Symbols => After(pos) \in 1 .. cut + 1
        /\ Stuck(pos) \in pos .. cut + 1
    BY <1>1, DecoderMoves
  <1>3. /\ After(After(pos)) \in Nat /\ After(After(pos)) > After(pos)
        /\ Tok(After(pos)) \in Symbols => After(After(pos)) \in 1 .. cut + 1
        /\ Stuck(After(pos)) \in 1 .. cut + 1
        /\ After(pos) <= cut + 1 => Stuck(After(pos)) >= After(pos)
    BY <1>2, DecoderMoves
  <1>4. Item \in Nat \ {0} /\ Item >= pos /\ Item <= cut + 1
    <2>1. "id" \in Symbols
      BY DEF Symbols, Keys
    <2> QED BY <1>1, <1>2, <2>1 DEF Item
  <1>5. /\ After(Item) \in Nat /\ After(Item) > Item
        /\ Tok(Item) \in Symbols => After(Item) \in 1 .. cut + 1
        /\ Stuck(Item) \in 1 .. cut + 1 /\ Stuck(Item) >= Item
    BY <1>4, DecoderMoves
  <1> QED BY <1>1, <1>2, <1>3, <1>4, <1>5

-----------------------------------------------------------------------------
(* Types.                                                                   *)

\* They hold at first.
LEMMA InitTypeInv == Init => TypeInv
  <1> SUFFICES ASSUME Init PROVE TypeInv
    OBVIOUS
  <1>1. PICK r \in Responses : mode = r.mode /\ text = r.text
    BY DEF Init
  <1>2. r \in [mode : Modes, text : Seq(Symbols)]
    BY <1>1, ResponsesAssumption
  <1>3. [mode |-> mode, text |-> text] = r
    BY <1>1, <1>2
  <1>4. ResponseOK
    BY <1>1, <1>3 DEF Init, ResponseOK
  <1>5. Bounded
    BY <1>4, TextTyped DEF Init, Bounded
  <1> QED
    BY <1>4, <1>5 DEF Init, TypeInv, FieldsOK, Fresh, IsClosed

\* The response stays.
LEMMA ResponseStays == [Next]_vars => UNCHANGED response
  BY DEF Next, NextCall, Steps, Close, vars, NextClosed, NextBegin, NextRow,
         NextQuery, BeginResults, Begin, BeginArray, BeginMeta, DecodeItem, DecodeFails, NoMore,
         Finish, Trailer, TrailerEnds

\* The decoder never gets beyond what has arrived.
LEMMA BoundedStep == ASSUME TypeInv, [Next]_vars PROVE Bounded'
  <1>1. ResponseOK /\ Bounded /\ UNCHANGED <<text, cut>>
    BY ResponseStays DEF TypeInv, response
  <1>2. /\ "obj" \in Symbols /\ "arr" \in Symbols /\ "endarr" \in Symbols
        /\ "rows" \in Symbols /\ "row" \in Symbols
        /\ Keys \subseteq Symbols /\ Values \subseteq Symbols
    BY DEF Symbols, Keys, Values
  <1>3. \A p \in {1, 2, 3} : Stuck(p) \in 1 .. cut + 1 /\ (Tok(p) \in Symbols => After(p) \in 1 .. cut + 1)
    BY <1>1, DecoderMoves
  <1> USE DEF Bounded, counts, multi
  <1>4. CASE NextCall
    BY <1>1, <1>4 DEF NextCall, NextClosed, NextBegin, NextRow, NextQuery, EndOfQueries,
                      CloseMulti, Return
  <1>5. CASE BeginResults
    <2>1. rows = 0 /\ metas = 0 /\ queryIndex = 0
      BY <1>5 DEF BeginResults, TypeInv, Fresh
    <2>2. UNCHANGED <<rows, metas, queryIndex>>
          /\ \/ pos' \in {1, Stuck(1), Stuck(2), Stuck(3)}
             \/ pos' = After(3) /\ Tok(3) \in Symbols
      BY <1>2, <1>5 DEF BeginResults, BeginFails, Return, Goto
    <2>3. pos' \in 1 .. cut + 1
      BY <1>1, <1>3, <2>2, FromHere
    <2> QED BY <1>1, <2>1, <2>2, <2>3
  <1>6. CASE Begin
    <2>1. UNCHANGED <<rows, metas, queryIndex>>
          /\ (pos' \in {pos, Stuck(pos)} \/ (pos' = After(pos) /\ Tok(pos) \in Symbols))
      BY <1>2, <1>6 DEF Begin, BeginFails, EndOfQueries, CloseMulti, Return, Goto
    <2> QED BY <1>1, <2>1, FromHere
  <1>7. CASE BeginArray
    <2>1. UNCHANGED <<rows, metas>> /\ Tok(pos) \in Symbols
      BY <1>2, <1>7 DEF BeginArray
    <2>2. CASE Tok(After(pos)) = "arr"
      <3>1. pos' = After(After(pos)) /\ Tok(After(pos)) \in Symbols
            /\ queryIndex' \in {queryIndex, queryIndex + 1}
        BY <1>2, <1>7, <2>2 DEF BeginArray, Goto
      <3> QED BY <1>1, <2>1, <3>1, FromHere
    <2>3. CASE Tok(After(pos)) # "arr"
      <3>1. pos' = Stuck(After(pos)) /\ queryIndex' = queryIndex
        BY <1>7, <2>3 DEF BeginArray, BeginFails, Return
      <3> QED BY <1>1, <2>1, <3>1, FromHere
    <2> QED BY <2>2, <2>3
  <1>8. CASE BeginMeta \/ Trailer
    <2>1. UNCHANGED <<rows, queryIndex>>
      BY <1>8 DEF BeginMeta, Trailer
    <2>2. CASE ParseMeta
      <3>1. /\ metas' = metas + 1 /\ pos' = After(After(pos))
            /\ Tok(After(pos)) \in Symbols
        BY <1>2, <2>2 DEF ParseMeta, Goto
      <3> QED BY <1>1, <2>1, <3>1, FromHere
    <2>3. CASE metas' = metas /\ pos' = cut + 1
      BY <1>1, <2>1, <2>3, FromHere
    <2> QED BY <1>8, <2>2, <2>3 DEF BeginMeta, Trailer, BeginFails, Finished, Return
  <1>9. CASE DecodeItem
    <2>1. UNCHANGED <<metas, queryIndex>> /\ rows' = rows + 1 /\ pos' = After(Item)
          /\ Tok(Item) \in Symbols
      BY <1>2, <1>9 DEF DecodeItem, Return
    <2> QED BY <1>1, <2>1, FromHere
  <1>10. CASE DecodeFails \/ NoMore
    <2>1. UNCHANGED <<rows, metas, queryIndex>> /\ pos' \in {pos, Stuck(Item)}
      BY <1>10 DEF DecodeFails, NoMore, Return, Goto
    <2> QED BY <1>1, <2>1, FromHere
  <1>11. CASE Finish \/ TrailerEnds
    <2>1. UNCHANGED <<rows, metas, queryIndex>>
          /\ (pos' = Stuck(pos) \/ (pos' = After(pos) /\ Tok(pos) \in Symbols))
      BY <1>2, <1>11 DEF Finish, TrailerEnds, Finished, Return, Goto
    <2> QED BY <1>1, <2>1, FromHere
  <1>12. CASE Close
    BY <1>1, <1>12 DEF Close, CloseMulti
  <1>13. CASE UNCHANGED vars
    BY <1>1, <1>13 DEF vars
  <1> QED
    BY <1>4, <1>5, <1>6, <1>7, <1>8, <1>9, <1>10, <1>11, <1>12, <1>13 DEF Next, Steps

\* The fields keep their types, and nothing is read before the first Next.
LEMMA FieldsStep == ASSUME TypeInv, [Next]_vars PROVE FieldsOK' /\ Fresh'
  <1>1. FieldsOK /\ Fresh /\ UNCHANGED response
    BY ResponseStays DEF TypeInv
  <1> USE DEF FieldsOK, Fresh, IsClosed, response, counts, multi
  <1>2. CASE NextCall
    <2>1. CASE NextClosed
      BY <1>1, <2>1 DEF NextClosed, MayNext
    <2>2. CASE NextBegin
      BY <1>1, <2>2 DEF NextBegin, MayNext
    <2>3. CASE NextRow
      BY <1>1, <2>3 DEF NextRow, MayNext
    <2>4. CASE NextQuery
      BY <1>1, <2>4 DEF NextQuery, MayNext, EndOfQueries, CloseMulti, Return
    <2> QED BY <1>2, <2>1, <2>2, <2>3, <2>4 DEF NextCall
  <1>3. CASE BeginResults
    BY <1>1, <1>3 DEF BeginResults, BeginFails, Return, Goto
  <1>4. CASE Begin \/ BeginArray \/ BeginMeta
    <2>1. CASE Begin
      BY <1>1, <2>1 DEF Begin, BeginFails, EndOfQueries, CloseMulti, Return, Goto
    <2>2. CASE BeginArray
      BY <1>1, <2>2 DEF BeginArray, BeginFails, Return, Goto
    <2>3. CASE BeginMeta
      BY <1>1, <2>3 DEF BeginMeta, ParseMeta, BeginFails, Return, Goto
    <2> QED BY <1>4, <2>1, <2>2, <2>3
  <1>5. CASE DecodeItem \/ DecodeFails \/ NoMore
    BY <1>1, <1>5 DEF DecodeItem, DecodeFails, NoMore, Return, Goto
  <1>6. CASE Finish \/ Trailer \/ TrailerEnds
    <2>1. CASE Finish
      BY <1>1, <2>1 DEF Finish, Finished, CloseIter, Return, Goto
    <2>2. CASE Trailer
      BY <1>1, <2>2 DEF Trailer, ParseMeta, Finished, CloseIter, Return, Goto
    <2>3. CASE TrailerEnds
      BY <1>1, <2>3 DEF TrailerEnds, Finished, CloseIter, Return
    <2> QED BY <1>6, <2>1, <2>2, <2>3
  <1>7. CASE Close
    BY <1>1, <1>7 DEF Close, CloseMulti, CloseIter
  <1>8. CASE UNCHANGED vars
    BY <1>1, <1>8 DEF vars
  <1> QED
    BY <1>2, <1>3, <1>4, <1>5, <1>6, <1>7, <1>8 DEF Next, Steps

\* TypeInv is inductive.
LEMMA NextTypeInv == TypeInv /\ [Next]_vars => TypeInv'
  <1> SUFFICES ASSUME TypeInv, [Next]_vars PROVE TypeInv'
    OBVIOUS
  <1>1. ResponseOK'
    BY ResponseStays DEF TypeInv, ResponseOK, response
  <1> QED
    BY <1>1, BoundedStep, FieldsStep DEF TypeInv

\* The types, for responses of any length: the decoder does not get beyond what has
\* arrived, and no more rows and values come out of a response than it has symbols.
THEOREM TypeCorrect == Spec => []TypeOK
  <1> QED
    BY InitTypeInv, NextTypeInv, TypeInvImplies, PTL DEF Spec

-----------------------------------------------------------------------------
(* The body.                                                                *)

\* With a single response the body is closed with the iterator, and before io.EOF.
BodyInv == mode # "multi" /\ (closed \/ out = "eof") => ~bodyOpen

\* Every step.
LEMMA BodyStep == BodyInv /\ [Next]_vars => BodyInv'
  <1> SUFFICES ASSUME BodyInv, [Next]_vars, mode # "multi" PROVE BodyInv'
    BY DEF BodyInv, Next, NextCall, Steps, Close, vars, response, NextClosed, NextBegin, NextRow,
           NextQuery, BeginResults, Begin, BeginArray, BeginMeta, DecodeItem, DecodeFails, NoMore,
           Finish, Trailer, TrailerEnds
  <1> USE DEF BodyInv, response, counts, multi
  <1>1. CASE NextCall
    BY <1>1 DEF NextCall, NextClosed, IsClosed, NextBegin, NextRow, NextQuery, EndOfQueries,
                CloseMulti, Return
  <1>2. CASE BeginResults \/ Begin \/ BeginArray \/ BeginMeta
    BY <1>2 DEF BeginResults, Begin, BeginArray, BeginMeta, BeginFails, EndOfQueries, CloseMulti,
                ParseMeta, Goto, Return
  <1>3. CASE DecodeItem \/ DecodeFails \/ NoMore
    BY <1>3 DEF DecodeItem, DecodeFails, NoMore, Goto, Return
  <1>4. CASE Finish \/ Trailer \/ TrailerEnds
    BY <1>4 DEF Finish, Trailer, TrailerEnds, Finished, CloseIter, ParseMeta, Goto, Return
  <1>5. CASE Close
    BY <1>5 DEF Close, CloseIter
  <1>6. CASE UNCHANGED vars
    BY <1>6 DEF vars
  <1> QED BY <1>1, <1>2, <1>3, <1>4, <1>5, <1>6 DEF Next, Steps

\* The iterators of a single response close its body before they return io.EOF.
THEOREM BodyClosedAtEnd == Spec => []EndClosesBody
  <1>1. Init => BodyInv
    BY DEF Init, BodyInv
  <1>2. BodyInv => EndClosesBody
    BY DEF BodyInv, EndClosesBody, Ended, Returned
  <1> QED
    BY <1>1, <1>2, BodyStep, PTL DEF Spec

-----------------------------------------------------------------------------
(* Close.                                                                   *)

\* The iterator is marked closed, and no call of Next is under way.
QuitInv == quit => pc = "idle" /\ IsClosed

\* Every step.
LEMMA QuitStep == QuitInv /\ [Next]_vars => QuitInv' /\ (quit => UNCHANGED rows)
  <1> SUFFICES ASSUME QuitInv, [Next]_vars PROVE QuitInv' /\ (quit => UNCHANGED rows)
    OBVIOUS
  <1> USE DEF QuitInv, IsClosed, response, counts, multi
  <1>1. CASE NextCall
    BY <1>1 DEF NextCall, NextClosed, NextBegin, NextRow, NextQuery
  <1>2. CASE Steps
    <2>1. ~quit /\ UNCHANGED quit
      BY <1>2 DEF Steps, BeginResults, Begin, BeginArray, BeginMeta, DecodeItem, DecodeFails,
                  NoMore, Finish, Trailer, TrailerEnds
    <2> QED BY <2>1
  <1>3. CASE Close
    BY <1>3 DEF Close, CloseMulti, CloseIter
  <1>4. CASE UNCHANGED vars
    BY <1>4 DEF vars
  <1> QED BY <1>1, <1>2, <1>3, <1>4 DEF Next

\* Whatever rows the decoder has buffered: none is returned after Close.
THEOREM NoRowBehindClose == Spec => NoRowAfterClose
  <1>1. Init => QuitInv
    BY DEF Init, QuitInv
  <1>2. QuitInv /\ [Next]_vars => [quit => UNCHANGED rows]_vars
    BY QuitStep
  <1> QED
    BY <1>1, <1>2, QuitStep, PTL DEF Spec, NoRowAfterClose

-----------------------------------------------------------------------------
(* Counting symbols.                                                        *)

\* One by one.
LEMMA CountNext ==
    ASSUME NEW t, NEW s, NEW n \in Nat
    PROVE  /\ Count(t, s, n) \in Nat /\ Count(t, s, 0) = 0
           /\ Count(t, s, n + 1) = Count(t, s, n) + (IF t[n + 1] = s THEN 1 ELSE 0)
  <1> DEFINE Of(m) == {i \in 1 .. m : t[i] = s}
  <1>1. ASSUME NEW m \in Nat PROVE IsFiniteSet(Of(m)) /\ Cardinality(Of(m)) \in Nat
    <2>1. IsFiniteSet(1 .. m) /\ Of(m) \in SUBSET (1 .. m)
      BY FS_Interval
    <2> QED BY <2>1, FS_Subset, FS_CardinalityType
  <1>2. Of(0) = {} /\ Cardinality({}) = 0
    BY FS_EmptySet
  <1>3. CASE t[n + 1] = s
    <2>1. Of(n + 1) = Of(n) \cup {n + 1} /\ n + 1 \notin Of(n)
      BY <1>3
    <2> QED BY <1>1, <1>2, <1>3, <2>1, FS_AddElement DEF Count
  <1>4. CASE t[n + 1] # s
    <2>1. Of(n + 1) = Of(n)
      BY <1>4
    <2> QED BY <1>1, <1>2, <1>4, <2>1 DEF Count
  <1> QED BY <1>3, <1>4

\* From the symbol before p on.
LEMMA CountUpTo ==
    ASSUME NEW t, NEW s, NEW p \in Nat, p # 0
    PROVE  /\ Count(t, s, p - 1) \in Nat
           /\ Count(t, s, p) = Count(t, s, p - 1) + (IF t[p] = s THEN 1 ELSE 0)
           /\ Count(t, s, p + 1) = Count(t, s, p) + (IF t[p + 1] = s THEN 1 ELSE 0)
  <1>1. PICK n \in Nat : p = n + 1
    BY p - 1 \in Nat
  <1>2. p - 1 = n
    BY <1>1
  <1> QED BY <1>1, <1>2, CountNext

\* Between two places.
LEMMA CountBetween ==
    ASSUME NEW t, NEW s, NEW m \in Nat, NEW n \in Nat, m <= n
    PROVE  /\ Count(t, s, m) \in Nat /\ Count(t, s, n) \in Nat
           /\ Count(t, s, m) <= Count(t, s, n)
           /\ (\E k \in m + 1 .. n : t[k] = s) => Count(t, s, m) < Count(t, s, n)
           /\ (\A k \in m + 1 .. n : t[k] # s) => Count(t, s, m) = Count(t, s, n)
  <1> DEFINE A == {i \in 1 .. m : t[i] = s}
             B == {i \in 1 .. n : t[i] = s}
  <1>1. Count(t, s, m) \in Nat /\ Count(t, s, n) \in Nat
    BY CountNext
  <1>2. IsFiniteSet(B) /\ A \in SUBSET B
    <2>1. IsFiniteSet(1 .. n) /\ B \in SUBSET (1 .. n) /\ A \in SUBSET B
      BY FS_Interval
    <2> QED BY <2>1, FS_Subset
  <1>3. Cardinality(A) <= Cardinality(B) /\ (Cardinality(A) = Cardinality(B) => A = B)
    BY <1>2, FS_Subset
  <1>4. ASSUME NEW k \in m + 1 .. n, t[k] = s PROVE A # B
    BY <1>4
  <1>5. ASSUME \A k \in m + 1 .. n : t[k] # s PROVE A = B
    <2>1. \A k \in 1 .. n : k \in 1 .. m \/ k \in m + 1 .. n
      OBVIOUS
    <2> QED BY <1>2, <1>5, <2>1
  <1> QED BY <1>1, <1>3, <1>4, <1>5 DEF Count

\* What Token and Decode pass, from p: a comma or a colon, and the symbol they return.
LEMMA Passed ==
    ASSUME ResponseOK, NEW p \in Nat, p \in 1 .. cut + 1,
           NEW s, s \in {"row", "val", "obj"}
    PROVE  /\ Tok(p) \in Symbols \cup {"eof", "error"}
           /\ Tok(p) \in Symbols =>
                /\ After(p) \in p + 1 .. cut + 1 /\ text[After(p) - 1] = Tok(p)
                /\ Count(text, s, After(p) - 1) =
                     Count(text, s, p - 1) + (IF Tok(p) = s THEN 1 ELSE 0)
           /\ Tok(p) \notin Symbols =>
                Stuck(p) = cut + 1 /\ Count(text, s, cut) = Count(text, s, p - 1)
  <1>1. p \in Nat /\ p - 1 \in Nat /\ cut \in Nat /\ cut <= Len(text) /\ text \in Seq(Symbols)
    BY TextTyped
  <1>2. \A i \in 1 .. cut : text[i] \in Symbols
    BY <1>1
  <1>3. "eof" \notin Symbols /\ "error" \notin Symbols /\ s \notin {"comma", "colon"}
    BY DEF Symbols, Values, Keys
  <1>4. /\ Count(text, s, p - 1) \in Nat
        /\ Count(text, s, p) = Count(text, s, p - 1) + (IF text[p] = s THEN 1 ELSE 0)
        /\ Count(text, s, p + 1) = Count(text, s, p) + (IF text[p + 1] = s THEN 1 ELSE 0)
    BY <1>1, CountUpTo
  <1>5. CASE p <= cut /\ text[p] \in {"comma", "colon"}
    <2>1. Skip(p) = p + 1 /\ After(p) = p + 2 /\ Count(text, s, p) = Count(text, s, p - 1)
      BY <1>1, <1>3, <1>4, <1>5 DEF Skip, After
    <2>2. CASE p + 1 <= cut
      <3>1. Tok(p) = text[p + 1] /\ p + 1 \in 1 .. cut
        BY <1>1, <2>1, <2>2 DEF Tok
      <3>2. After(p) - 1 = p + 1 /\ After(p) \in p + 1 .. cut + 1
        BY <1>1, <2>1, <2>2
      <3> QED BY <1>2, <1>4, <2>1, <3>1, <3>2
    <2>3. CASE ~(p + 1 <= cut)
      <3>1. Tok(p) \in {"eof", "error"} /\ p = cut
        BY <1>1, <1>5, <2>1, <2>3 DEF Tok
      <3>2. Stuck(p) = cut + 1
        BY <1>1, <2>1, <3>1 DEF Stuck, Min
      <3> QED BY <1>3, <2>1, <3>1, <3>2
    <2> QED BY <2>2, <2>3
  <1>6. CASE p <= cut /\ text[p] \notin {"comma", "colon"}
    <2>1. Skip(p) = p /\ After(p) = p + 1 /\ Tok(p) = text[p] /\ p \in 1 .. cut
      BY <1>1, <1>6 DEF Skip, After, Tok
    <2>2. After(p) - 1 = p /\ After(p) \in p + 1 .. cut + 1
      BY <1>1, <2>1
    <2> QED BY <1>2, <1>4, <2>1, <2>2
  <1>7. CASE ~(p <= cut)
    <2>1. p = cut + 1 /\ p - 1 = cut
      BY <1>1, <1>7
    <2>2. Skip(p) = p /\ After(p) = p + 1 /\ Tok(p) \in {"eof", "error"}
      BY <1>1, <1>7 DEF Skip, After, Tok
    <2>3. Stuck(p) = cut + 1
      BY <1>1, <2>1, <2>2 DEF Stuck, Min
    <2> QED BY <1>3, <2>1, <2>2, <2>3
  <1> QED BY <1>5, <1>6, <1>7

-----------------------------------------------------------------------------
(* Where Next can be.                                                       *)

\* A response with one array or object: also the one an old server sends to
\* multiQueriesRows.
Single == mode # "multi" \/ legacy

\* Nothing is left to read.
AtEnd == pos = cut + 1

\* The iterator a mode has, and the ways through Next that it takes.
Ways ==
    /\ mode # "multi" => ~legacy /\ ~hasRows /\ ~mclosed /\ pc # "results"
    /\ legacy => hasRows /\ ~Several(text)
    /\ mode = "multi" /\ pc \notin {"idle", "results"} => hasRows
    /\ mode \in {"feed", "object"} => pc \in {"idle", "begin", "row", "finish"}

\* Whether the iterator is closed while Next runs, and at the first call.
Openings ==
    /\ pc = "results" \/ (~begun /\ ~IsClosed) => pos = 1 /\ ~closed /\ ~legacy /\ ~hasRows
    /\ ~begun /\ ~IsClosed => pc = "idle" /\ out = "none"
    /\ pc \in {"row", "finish", "trailer"} \/ (Single /\ pc # "idle") => ~closed
    /\ pc = "begin" /\ Single => pos = 1 /\ rows = 0 /\ metas = 0
    /\ quit => pc = "idle"
    /\ IF quit THEN IsClosed ELSE pc # "idle" => ~IsClosed

\* Between two calls: the iterator is closed behind the last row, or the decoder is at
\* the end of what arrived, or Next is called no more.
Endings ==
    /\ pc = "idle" /\ begun => out # "none"
    /\ Returned("eoq") => closed /\ mode = "multi" /\ ~legacy
    /\ mode = "multi" /\ out \in {"row", "eoq"} => hasRows
    /\ mclosed /\ hasRows => closed
    /\ Ended /\ mode # "multi" => closed
    /\ Ended /\ hasRows => closed \/ AtEnd
    /\ Ended /\ hasRows /\ ~legacy => mclosed \/ AtEnd
    /\ Single /\ closed /\ ~quit => out \in {"eof", "error"}

Control == Ways /\ Openings /\ Endings

\* A response whose second symbol is "results" is no old server's.
LEMMA OldServer ==
    ASSUME ResponseOK, Tok(2) \in Keys, Tok(2) # "results"
    PROVE  ~Several(text)
  BY DEF Several, Tok, Skip, Keys

\* They hold at first.
LEMMA ControlInit == Init => Control
  BY DEF Init, Control, Ways, Openings, Endings, IsClosed, Single, Returned, Ended

\* A call of Next.
LEMMA ControlNextCall == ASSUME TypeInv, Control, NextCall PROVE Control'
  <1> USE DEF Control, Ways, Openings, Endings, IsClosed, Single, Returned, Ended, AtEnd,
              response, counts, multi
  <1>1. CASE NextClosed
    BY <1>1 DEF NextClosed, MayNext
  <1>2. CASE NextBegin
    BY <1>2 DEF NextBegin, MayNext, TypeInv, Fresh
  <1>3. CASE NextRow
    BY <1>3 DEF NextRow, MayNext
  <1>4. CASE NextQuery
    BY <1>4 DEF NextQuery, MayNext, EndOfQueries, CloseMulti, Return
  <1> QED BY <1>1, <1>2, <1>3, <1>4 DEF NextCall

\* The steps of Next to the first row, or to the next query's.
LEMMA ControlBegin ==
    ASSUME TypeInv, Control, BeginResults \/ Begin \/ BeginArray \/ BeginMeta
    PROVE  Control'
  <1> USE DEF Control, Ways, Openings, Endings, IsClosed, Single, Returned, Ended, AtEnd,
              response, counts, multi
  <1>1. CASE BeginResults
    <2>1. /\ pc = "results" /\ pos = 1 /\ ~closed /\ ~legacy /\ ~hasRows /\ ~quit /\ ~mclosed
          /\ mode = "multi" /\ begun /\ rows = 0 /\ metas = 0
      BY <1>1 DEF BeginResults, TypeInv, Fresh
    <2>2. UNCHANGED <<mode, text, cut, begun, rows, metas, quit, closed, mclosed>>
      BY <1>1 DEF BeginResults, BeginFails
    <2>3. \/ hasRows' = FALSE /\ legacy' = FALSE /\ pc' = "idle" /\ out' \in {"eof", "error"}
          \/ hasRows' = TRUE /\ legacy' = FALSE /\ pc' = "begin"
          \/ /\ hasRows' = TRUE /\ legacy' = TRUE /\ pc' = "begin" /\ pos' = 1
             /\ Tok(2) \in Keys /\ Tok(2) # "results"
      BY <1>1, <2>1 DEF BeginResults, BeginFails, Return, Goto
    <2>4. Tok(2) \in Keys /\ Tok(2) # "results" => ~Several(text)
      BY OldServer DEF TypeInv
    <2> QED BY <2>1, <2>2, <2>3, <2>4
  <1>2. CASE Begin
    BY <1>2 DEF Begin, BeginFails, EndOfQueries, CloseMulti, Return, Goto, TypeInv, Fresh
  <1>3. CASE BeginArray
    BY <1>3 DEF BeginArray, BeginFails, Return, Goto, TypeInv, Fresh
  <1>4. CASE BeginMeta
    BY <1>4 DEF BeginMeta, ParseMeta, BeginFails, Return, Goto, TypeInv, Fresh
  <1> QED BY <1>1, <1>2, <1>3, <1>4

\* The steps of Next from a row to the end.
LEMMA ControlRows ==
    ASSUME TypeInv, Control,
           DecodeItem \/ DecodeFails \/ NoMore \/ Finish \/ Trailer \/ TrailerEnds
    PROVE  Control'
  <1> USE DEF Control, Ways, Openings, Endings, IsClosed, Single, Returned, Ended, AtEnd,
              response, counts, multi
  <1>1. CASE DecodeItem
    BY <1>1 DEF DecodeItem, Return, TypeInv, Fresh
  <1>2. CASE DecodeFails \/ NoMore
    BY <1>2 DEF DecodeFails, NoMore, Return, Goto, TypeInv, Fresh
  <1>3. CASE Finish
    BY <1>3 DEF Finish, Finished, CloseIter, Return, Goto, TypeInv, Fresh
  <1>4. CASE Trailer
    BY <1>4 DEF Trailer, ParseMeta, Finished, CloseIter, Return, Goto, TypeInv, Fresh
  <1>5. CASE TrailerEnds
    BY <1>5 DEF TrailerEnds, Finished, CloseIter, Return, TypeInv, Fresh
  <1> QED BY <1>1, <1>2, <1>3, <1>4, <1>5

\* Every step.
LEMMA ControlStep == TypeInv /\ Control /\ [Next]_vars => Control'
  <1> SUFFICES ASSUME TypeInv, Control, [Next]_vars PROVE Control'
    OBVIOUS
  <1>1. CASE NextCall
    BY <1>1, ControlNextCall
  <1>2. CASE Steps
    BY <1>2, ControlBegin, ControlRows DEF Steps
  <1>3. CASE Close
    BY <1>3 DEF Close, CloseMulti, CloseIter, Control, Ways, Openings, Endings, IsClosed,
                Single, Returned, Ended, AtEnd, response, counts, multi
  <1>4. CASE UNCHANGED vars
    BY <1>4 DEF vars, Control, Ways, Openings, Endings, IsClosed, Single, Returned, Ended,
                AtEnd, response, counts, multi
  <1> QED BY <1>1, <1>2, <1>3, <1>4 DEF Next

-----------------------------------------------------------------------------
(* What was read.                                                           *)

\* The rows and values of one array that the decoder has passed were counted; of several
\* queries it has passed the '{' of the response and one for each query.
InSync ==
    IF Single
    THEN rows = Count(text, "row", pos - 1) /\ metas = Count(text, "val", pos - 1)
    ELSE Count(text, "obj", pos - 1) = queryIndex + 2

\* The decoder has passed all rows of the array, or of the query.
PastRows ==
    IF Single
    THEN rows = Count(text, "row", Len(text)) /\ metas = Count(text, "val", pos - 1)
    ELSE /\ Count(text, "obj", pos - 1) = queryIndex + 2
         /\ \A i \in pos .. Len(text) :
              text[i] = "row" => Count(text, "obj", i) > queryIndex + 2

\* While Next runs.  After an error at its end a query may be read further, in vain.
Reading ==
    /\ pc = "begin" /\ ~Single =>
         \/ AtEnd
         \/ closed /\ Count(text, "obj", pos - 1) = queryIndex + 2
         \/ ~closed /\ Count(text, "obj", pos - 1) = 1 /\ queryIndex = 0
    /\ pc = "keys" =>
         IF Single \/ ~closed THEN InSync ELSE Count(text, "obj", pos - 1) = queryIndex + 3
    /\ pc \in {"row", "finish"} => InSync \/ (AtEnd /\ mode # "feed")
    /\ pc = "finish" /\ mode = "feed" => AtEnd
    /\ pc = "trailer" => PastRows

\* When it has returned.
Given ==
    /\ Returned("row") => InSync
    /\ Returned("eoq") => PastRows
    /\ Ended /\ mode = "feed" => rows = Count(text, "row", cut)
    /\ Ended /\ Single /\ closed /\ mode # "feed" => rows = Count(text, "row", Len(text))
    /\ Ended /\ mode \in {"rows", "changes"} /\ cut = Len(text) =>
         metas = Count(text, "val", cut)

RowsInv == TypeInv /\ Control /\ Reading /\ Given

\* The response follows the syntax of its kind.
LEMMA SyntaxHere == ResponseOK => SyntaxOK(mode, text)
  <1> SUFFICES ASSUME ResponseOK PROVE SyntaxOK(mode, text)
    OBVIOUS
  <1> DEFINE r == [mode |-> mode, text |-> text]
  <1>1. r \in Responses /\ r.mode = mode /\ r.text = text
    BY DEF ResponseOK
  <1> HIDE DEF r
  <1> QED BY <1>1, SyntaxAssumption

\* multiQueriesRows.begin has passed one '{'.
LEMMA ResultsPassed ==
    ASSUME ResponseOK, Tok(1) = "obj", Tok(2) = "results", Tok(3) = "arr"
    PROVE  Count(text, "obj", After(3) - 1) = 1
  <1>1. text[1] = "obj" /\ text[2] # "obj" /\ 3 \in 1 .. cut + 1
    BY TextTyped DEF Tok, Skip
  <1>2. /\ Count(text, "obj", 0) = 0 /\ 0 + 1 = 1 /\ 1 + 1 = 2
        /\ Count(text, "obj", 0 + 1) = Count(text, "obj", 0) + (IF text[0 + 1] = "obj" THEN 1 ELSE 0)
        /\ Count(text, "obj", 1 + 1) = Count(text, "obj", 1) + (IF text[1 + 1] = "obj" THEN 1 ELSE 0)
    BY CountNext
  <1>3. Count(text, "obj", 2) = 1
    BY <1>1, <1>2
  <1>4. "arr" \in Symbols /\ "arr" # "obj" /\ 3 - 1 = 2
    BY DEF Symbols
  <1> QED BY <1>1, <1>3, <1>4, Passed

\* A metadata key and its value: never a row, in an array.
LEMMA MetaPassed ==
    ASSUME ResponseOK, Bounded, Tok(pos) \in Keys, Tok(After(pos)) \in Values, mode # "object"
    PROVE  LET q == After(After(pos)) - 1
           IN  /\ q \in pos .. cut
               /\ Count(text, "row", q) = Count(text, "row", pos - 1)
               /\ Count(text, "val", q) = Count(text, "val", pos - 1) + 1
               /\ Count(text, "obj", q) = Count(text, "obj", pos - 1)
  <1> DEFINE p == After(pos)
             q == After(p) - 1
  <1>1. Keys \subseteq Symbols \ Values /\ Values \subseteq Symbols
        /\ "obj" \notin Values /\ "obj" \notin Keys
    BY DEF Symbols, Keys, Values
  <1>2. pos \in Nat /\ pos \in 1 .. cut + 1 /\ cut \in Nat /\ cut <= Len(text)
    BY TextTyped DEF Bounded
  <1>3. /\ p \in pos + 1 .. cut + 1 /\ text[p - 1] \in Keys
        /\ \A s \in {"row", "val", "obj"} : Count(text, s, p - 1) = Count(text, s, pos - 1)
    <2>1. ASSUME NEW s, s \in {"row", "val", "obj"}
          PROVE  /\ p \in pos + 1 .. cut + 1 /\ text[p - 1] = Tok(pos)
                 /\ Count(text, s, p - 1) = Count(text, s, pos - 1) + (IF Tok(pos) = s THEN 1 ELSE 0)
      BY <1>1, <1>2, <2>1, Passed
    <2>2. ASSUME NEW s, s \in {"row", "val", "obj"} PROVE Tok(pos) # s
      BY <1>1, <2>2 DEF Values
    <2>3. ASSUME NEW s PROVE Count(text, s, pos - 1) \in Nat
      <3>1. pos - 1 \in Nat
        BY <1>2
      <3> QED BY <3>1, CountNext
    <2>4. ASSUME NEW s \in {"row", "val", "obj"}
          PROVE  Count(text, s, p - 1) = Count(text, s, pos - 1)
      BY <2>1, <2>2, <2>3
    <2> QED BY <2>1, <2>4
  <1>4. /\ After(p) \in p + 1 .. cut + 1 /\ text[q] = Tok(p)
        /\ \A s \in {"row", "val", "obj"} :
             Count(text, s, q) = Count(text, s, p - 1) + (IF Tok(p) = s THEN 1 ELSE 0)
    BY <1>1, <1>2, <1>3, Passed
  <1>5. p \in 2 .. Len(text) /\ q \in p .. cut
    BY <1>2, <1>3, <1>4
  <1>6. text[p] = "colon"
    BY <1>3, <1>5, SyntaxHere DEF SyntaxOK
  <1>7. q = p + 1
    BY <1>2, <1>3, <1>5, <1>6 DEF After, Skip
  <1>8. Tok(p) # "row"
    <2>1. q \in 2 .. Len(text) /\ q - 1 = p
      BY <1>2, <1>5, <1>7
    <2> QED BY <1>4, <1>6, <2>1, SyntaxHere DEF SyntaxOK
  <1>9. Tok(p) = "val" /\ "val" # "row" /\ "val" # "obj"
    BY <1>8 DEF Values
  <1>10. q \in pos .. cut
    BY <1>2, <1>3, <1>5
  <1>11. \A s \in {"row", "val", "obj"} : Count(text, s, pos - 1) \in Nat
    <2>1. pos - 1 \in Nat
      BY <1>2
    <2> QED BY <2>1, CountNext
  <1> QED BY <1>3, <1>4, <1>9, <1>10, <1>11

\* A delimiter or another symbol that is not counted.
LEMMA OtherPassed ==
    ASSUME ResponseOK, NEW p \in Nat, p \in 1 .. cut + 1,
           Tok(p) \in Symbols \ {"row", "val", "obj"}
    PROVE  /\ After(p) - 1 \in p .. cut /\ text[After(p) - 1] = Tok(p)
           /\ Count(text, "row", After(p) - 1) = Count(text, "row", p - 1)
           /\ Count(text, "val", After(p) - 1) = Count(text, "val", p - 1)
           /\ Count(text, "obj", After(p) - 1) = Count(text, "obj", p - 1)
  <1>1. cut \in Nat /\ p - 1 \in Nat
    BY TextTyped
  <1>2. ASSUME NEW s, s \in {"row", "val", "obj"}
        PROVE  /\ After(p) \in p + 1 .. cut + 1 /\ text[After(p) - 1] = Tok(p)
               /\ Count(text, s, After(p) - 1) = Count(text, s, p - 1)
    <2>1. /\ After(p) \in p + 1 .. cut + 1 /\ text[After(p) - 1] = Tok(p)
          /\ Count(text, s, After(p) - 1) = Count(text, s, p - 1) + (IF Tok(p) = s THEN 1 ELSE 0)
      BY <1>2, Passed
    <2>2. Count(text, s, p - 1) \in Nat /\ Tok(p) # s
      BY <1>1, <1>2, CountNext
    <2> QED BY <2>1, <2>2
  <1>3. After(p) - 1 \in p .. cut
    BY <1>1, <1>2
  <1> QED BY <1>2, <1>3

\* Nothing that is counted is left where no symbol is found.
LEMMA NothingLeft ==
    ASSUME ResponseOK, NEW p \in Nat, p \in 1 .. cut + 1, Tok(p) \in {"eof", "error"}
    PROVE  /\ Stuck(p) = cut + 1
           /\ Count(text, "row", cut) = Count(text, "row", p - 1)
           /\ Count(text, "val", cut) = Count(text, "val", p - 1)
           /\ Count(text, "obj", cut) = Count(text, "obj", p - 1)
  <1>1. Tok(p) \notin Symbols
    BY DEF Symbols, Values, Keys
  <1> QED BY <1>1, Passed

\* decodeItem passes one row, behind its document's ID in an object.
LEMMA RowPassed ==
    ASSUME ResponseOK, Bounded, Tok(Item) = "row"
    PROVE  /\ ~AtEnd
           /\ Count(text, "row", After(Item) - 1) = Count(text, "row", pos - 1) + 1
           /\ Count(text, "val", After(Item) - 1) = Count(text, "val", pos - 1)
           /\ Count(text, "obj", After(Item) - 1) = Count(text, "obj", pos - 1)
  <1>1. pos \in Nat /\ pos \in 1 .. cut + 1 /\ cut \in Nat /\ pos - 1 \in Nat
    BY TextTyped DEF Bounded
  <1>2. {"row", "id"} \subseteq Symbols
    BY DEF Symbols, Values, Keys
  <1>3. ~AtEnd
    <2>1. CASE AtEnd
      <3>1. Tok(pos) \in {"eof", "error"}
        BY <1>1, <2>1 DEF AtEnd, Tok, Skip
      <3>2. Item = pos
        BY <3>1 DEF Item
      <3> QED BY <3>1, <3>2
    <2> QED BY <2>1
  <1>4. /\ Item \in Nat /\ Item \in 1 .. cut + 1
        /\ Count(text, "row", Item - 1) = Count(text, "row", pos - 1)
        /\ Count(text, "val", Item - 1) = Count(text, "val", pos - 1)
        /\ Count(text, "obj", Item - 1) = Count(text, "obj", pos - 1)
    <2>1. CASE Item = pos
      BY <1>1, <2>1
    <2>2. CASE Item = After(pos) /\ Tok(pos) = "id"
      <3>1. Tok(pos) \in Symbols \ {"row", "val", "obj"}
        BY <1>2, <2>2
      <3>2. After(pos) - 1 \in pos .. cut /\ After(pos) \in Nat
        BY <1>1, <3>1, OtherPassed, FromHere
      <3>3. After(pos) \in 1 .. cut + 1
        BY <1>1, <3>2
      <3> QED BY <1>1, <2>2, <3>1, <3>2, <3>3, OtherPassed
    <2> QED BY <2>1, <2>2 DEF Item
  <1>5. /\ Count(text, "row", After(Item) - 1) = Count(text, "row", Item - 1) + 1
        /\ Count(text, "val", After(Item) - 1) = Count(text, "val", Item - 1) + 0
        /\ Count(text, "obj", After(Item) - 1) = Count(text, "obj", Item - 1) + 0
    BY <1>2, <1>4, Passed
  <1>6. Count(text, "val", Item - 1) \in Nat /\ Count(text, "obj", Item - 1) \in Nat
    <2>1. Item - 1 \in Nat
      BY <1>4
    <2> QED BY <2>1, CountNext
  <1> QED BY <1>3, <1>4, <1>5, <1>6

\* Behind the end of an array there are no more of its rows.
LEMMA ArrayPassed ==
    ASSUME ResponseOK, Bounded, Control, Tok(pos) = "endarr", InSync
    PROVE  LET k == After(pos) - 1
           IN  IF Single
               THEN rows = Count(text, "row", Len(text)) /\ metas = Count(text, "val", k)
               ELSE /\ Count(text, "obj", k) = queryIndex + 2
                    /\ \A i \in k + 1 .. Len(text) :
                         text[i] = "row" => Count(text, "obj", i) > queryIndex + 2
  <1> DEFINE k == After(pos) - 1
  <1>1. pos \in Nat /\ pos \in 1 .. cut + 1 /\ cut \in Nat /\ cut <= Len(text) /\ Len(text) \in Nat
    BY TextTyped DEF Bounded
  <1>2. Tok(pos) \in Symbols \ {"row", "val", "obj"}
    BY DEF Symbols
  <1>3. /\ k \in pos .. cut /\ text[k] = "endarr"
        /\ Count(text, "row", k) = Count(text, "row", pos - 1)
        /\ Count(text, "val", k) = Count(text, "val", pos - 1)
        /\ Count(text, "obj", k) = Count(text, "obj", pos - 1)
    BY <1>1, <1>2, OtherPassed
  <1>4. k \in Nat /\ k >= 1 /\ k <= Len(text) /\ k \in 1 .. Len(text)
    BY <1>1, <1>3
  <1> HIDE DEF k
  <1>5. ASSUME NEW j \in k + 1 .. Len(text), text[j] = "row"
        PROVE  \E m \in k + 1 .. j : text[m] = "obj"
    <2>1. j \in 1 .. Len(text) /\ k < j
      BY <1>4
    <2>2. PICK m \in k .. j : text[m] = "obj"
      BY <1>3, <1>4, <1>5, <2>1, SyntaxHere DEF SyntaxOK
    <2>3. m # k
      BY <1>3, <2>2
    <2>4. m \in k + 1 .. j
      BY <1>4, <2>2, <2>3
    <2> QED BY <2>2, <2>4
  <1>6. CASE Single
    <2>1. ~(mode = "multi" /\ Several(text))
      BY <1>6 DEF Control, Ways, Single
    <2>2. \A i \in k + 1 .. Len(text) : text[i] # "row"
      <3> SUFFICES ASSUME NEW j \in k + 1 .. Len(text), text[j] = "row" PROVE FALSE
        OBVIOUS
      <3>1. PICK m \in k + 1 .. j : text[m] = "obj"
        BY <1>5
      <3>2. m \in 1 .. Len(text) /\ m # 1
        BY <1>4, <3>1
      <3> QED BY <2>1, <3>1, <3>2, SyntaxHere DEF SyntaxOK
    <2>3. Count(text, "row", Len(text)) = Count(text, "row", k)
      BY <1>1, <1>4, <2>2, CountBetween
    <2> QED BY <1>3, <1>6, <2>3 DEF InSync, k
  <1>7. CASE ~Single
    <2>1. Count(text, "obj", k) = queryIndex + 2
      BY <1>3, <1>7 DEF InSync
    <2>2. ASSUME NEW i \in k + 1 .. Len(text), text[i] = "row"
          PROVE  Count(text, "obj", i) > queryIndex + 2
      <3>1. i \in Nat /\ k <= i
        BY <1>4
      <3>2. \E m \in k + 1 .. i : text[m] = "obj"
        BY <1>5, <2>2
      <3>3. /\ Count(text, "obj", k) < Count(text, "obj", i)
            /\ Count(text, "obj", k) \in Nat /\ Count(text, "obj", i) \in Nat
        BY <1>4, <3>1, <3>2, CountBetween
      <3> QED BY <2>1, <3>3
    <2> QED BY <1>7, <2>1, <2>2 DEF k
  <1> QED BY <1>6, <1>7

\* Behind the '}' of a response of one array or object there is nothing.
LEMMA ObjectPassed ==
    ASSUME ResponseOK, Bounded, Tok(pos) = "endobj", ~(mode = "multi" /\ Several(text))
    PROVE  /\ Count(text, "row", Len(text)) = Count(text, "row", pos - 1)
           /\ Count(text, "val", Len(text)) = Count(text, "val", pos - 1)
  <1>1. pos \in Nat /\ pos \in 1 .. cut + 1 /\ cut \in Nat /\ cut <= Len(text) /\ Len(text) \in Nat
    BY TextTyped DEF Bounded
  <1>2. Tok(pos) \in Symbols \ {"row", "val", "obj"}
    BY DEF Symbols
  <1>3. /\ After(pos) - 1 \in pos .. cut /\ text[After(pos) - 1] = "endobj"
        /\ Count(text, "row", After(pos) - 1) = Count(text, "row", pos - 1)
        /\ Count(text, "val", After(pos) - 1) = Count(text, "val", pos - 1)
    BY <1>1, <1>2, OtherPassed
  <1>4. After(pos) - 1 \in 1 .. Len(text)
    BY <1>1, <1>3
  <1>5. After(pos) - 1 = Len(text)
    BY <1>3, <1>4, SyntaxHere DEF SyntaxOK
  <1> QED BY <1>3, <1>5

\* Where decodeItem finds the end, the decoder is there.
LEMMA ItemStuck ==
    ASSUME ResponseOK, Bounded, Tok(Item) = "eof"
    PROVE  Stuck(Item) = cut + 1
  <1>1. pos \in Nat /\ pos \in 1 .. cut + 1 /\ cut \in Nat
    BY TextTyped DEF Bounded
  <1>2. "id" \in Symbols
    BY DEF Symbols, Keys
  <1>3. Item \in Nat /\ Item \in 1 .. cut + 1
    <2>1. CASE Item = pos
      BY <1>1, <2>1
    <2>2. CASE Item = After(pos) /\ Tok(pos) = "id"
      BY <1>1, <1>2, <2>2, FromHere
    <2> QED BY <2>1, <2>2 DEF Item
  <1> QED BY <1>3, NothingLeft

\* A call of Next, and Close.
LEMMA RowsNextCall ==
    ASSUME RowsInv, NextCall \/ Close \/ UNCHANGED vars
    PROVE  Reading' /\ Given'
  <1>1. TypeInv /\ Control /\ Reading /\ Given
    BY DEF RowsInv
  <1> USE DEF Control, Ways, Openings, Endings, Reading, Given, InSync, PastRows, IsClosed,
              Single, Returned, Ended, AtEnd, response, counts, multi
  <1>2. CASE NextClosed
    BY <1>1, <1>2 DEF NextClosed, MayNext
  <1>3. CASE NextBegin
    BY <1>1, <1>3 DEF NextBegin, MayNext
  <1>4. CASE NextRow
    BY <1>1, <1>4 DEF NextRow, MayNext
  <1>5. CASE NextQuery
    BY <1>1, <1>5 DEF NextQuery, MayNext, EndOfQueries, CloseMulti, Return
  <1>6. CASE Close
    BY <1>1, <1>6 DEF Close, CloseMulti, CloseIter
  <1>7. CASE UNCHANGED vars
    BY <1>1, <1>7 DEF vars
  <1> QED BY <1>2, <1>3, <1>4, <1>5, <1>6, <1>7 DEF NextCall

\* The begin of a response and of a query.
LEMMA RowsBegin ==
    ASSUME RowsInv, BeginResults \/ Begin \/ BeginArray
    PROVE  Reading' /\ Given'
  <1>1. TypeInv /\ ResponseOK /\ Bounded /\ Control /\ Reading /\ Given
    BY DEF RowsInv, TypeInv
  <1>2. pos \in Nat /\ pos \in 1 .. cut + 1 /\ cut \in Nat
    BY <1>1, TextTyped DEF Bounded
  <1>3. {"obj", "arr", "endarr", "rows"} \subseteq Symbols
    BY DEF Symbols, Keys
  <1> USE DEF Reading, Given, InSync, Single, Returned, Ended, AtEnd, response, counts, multi
  <1>4. CASE BeginResults
    <2>1. mode = "multi" /\ ~closed /\ ~legacy /\ queryIndex = 0 /\ pc = "results"
      BY <1>1, <1>4 DEF BeginResults, Control, Ways, Openings, TypeInv, Fresh
    <2>2. UNCHANGED <<mode, text, cut, quit, closed, rows, metas, queryIndex>>
      BY <1>4 DEF BeginResults, BeginFails
    <2>3. \/ hasRows' = FALSE /\ pc' = "idle" /\ out' \in {"eof", "error"} /\ legacy' = FALSE
          \/ pc' = "begin" /\ legacy' = TRUE
          \/ /\ pc' = "begin" /\ legacy' = FALSE /\ pos' = After(3)
             /\ Tok(1) = "obj" /\ Tok(2) = "results" /\ Tok(3) = "arr"
      BY <1>1, <1>4, <2>1 DEF BeginResults, BeginFails, Return, Goto, Control, Openings
    <2> QED BY <1>1, <2>1, <2>2, <2>3, ResultsPassed
  <1>5. CASE Begin
    <2>1. UNCHANGED <<mode, text, cut, quit, rows, metas, legacy, queryIndex>> /\ pc = "begin"
      BY <1>5 DEF Begin, BeginFails, EndOfQueries, CloseMulti
    <2>2. CASE mode = "feed"
      <3>1. pc' = "row" /\ pos' = pos
        BY <1>5, <2>2 DEF Begin, Goto
      <3>2. pos = 1 /\ rows = 0 /\ metas = 0
        BY <1>1, <2>1, <2>2 DEF Control, Openings
      <3>3. Count(text, "row", pos - 1) = 0 /\ Count(text, "val", pos - 1) = 0
        BY <3>2, CountNext
      <3> QED BY <2>1, <2>2, <3>1, <3>2, <3>3
    <2>3. CASE mode # "feed" /\ Tok(pos) = "obj"
      <3>1. /\ pc' \in {"row", "keys"} /\ pos' = After(pos) /\ closed' = closed
            /\ pc' = "row" => mode = "object"
        BY <1>5, <2>3 DEF Begin, Goto
      <3>2. ~AtEnd
        BY <1>2, <2>3 DEF Tok, Skip
      <3>3. /\ Count(text, "row", After(pos) - 1) = Count(text, "row", pos - 1) + 0
            /\ Count(text, "val", After(pos) - 1) = Count(text, "val", pos - 1) + 0
            /\ Count(text, "obj", After(pos) - 1) = Count(text, "obj", pos - 1) + 1
        BY <1>1, <1>2, <1>3, <2>3, Passed
      <3>4. CASE Single
        <4>1. pos = 1 /\ rows = 0 /\ metas = 0
          BY <1>1, <2>1, <3>4 DEF Control, Openings
        <4>2. Count(text, "row", pos - 1) = 0 /\ Count(text, "val", pos - 1) = 0
          BY <4>1, CountNext
        <4> QED BY <2>1, <2>3, <3>1, <3>3, <3>4, <4>1, <4>2
      <3>5. CASE ~Single
        <4>1. mode = "multi" /\ pc' = "keys"
          BY <3>1, <3>5
        <4>2. \/ closed /\ Count(text, "obj", pos - 1) = queryIndex + 2
              \/ ~closed /\ Count(text, "obj", pos - 1) = 1 /\ queryIndex = 0
          BY <1>1, <2>1, <3>2, <3>5
        <4>3. /\ closed => Count(text, "obj", After(pos) - 1) = queryIndex + 3
              /\ ~closed => Count(text, "obj", After(pos) - 1) = queryIndex + 2
          <5>1. queryIndex \in Nat
            BY <1>1 DEF Bounded
          <5> QED BY <3>3, <4>2, <5>1
        <4> QED BY <2>1, <3>1, <3>5, <4>1, <4>3
      <3> QED BY <3>4, <3>5
    <2>4. CASE mode # "feed" /\ Tok(pos) # "obj"
      <3>1. pc' = "idle" /\ (out' = "error" \/ (out' = "eof" /\ closed))
        BY <1>5, <2>4 DEF Begin, BeginFails, EndOfQueries, CloseMulti, Return
      <3>2. closed => ~Single /\ mode = "multi"
        BY <1>1, <2>1 DEF Control, Openings
      <3> QED BY <2>1, <2>4, <3>1, <3>2
    <2> QED BY <2>2, <2>3, <2>4
  <1>6. CASE BeginArray
    <2>1. /\ UNCHANGED <<mode, text, cut, quit, rows, metas, legacy>> /\ pc = "keys"
          /\ Tok(pos) = "rows"
      BY <1>6 DEF BeginArray, BeginFails
    <2>2. CASE Tok(After(pos)) # "arr"
      <3>1. pc' = "idle" /\ out' = "error"
        BY <1>6, <2>2 DEF BeginArray, BeginFails, Return
      <3> QED BY <3>1
    <2>3. CASE Tok(After(pos)) = "arr"
      <3>1. /\ pc' = "row" /\ pos' = After(After(pos)) /\ closed' = FALSE
            /\ queryIndex' = IF closed THEN queryIndex + 1 ELSE queryIndex
        BY <1>6, <2>3 DEF BeginArray, Goto
      <3>2. Tok(pos) \in Symbols \ {"row", "val", "obj"}
            /\ Tok(After(pos)) \in Symbols \ {"row", "val", "obj"}
        BY <1>3, <2>1, <2>3
      <3>3. After(pos) \in Nat /\ After(pos) \in 1 .. cut + 1
        BY <1>1, <1>2, <3>2, FromHere
      <3>4. \A s \in {"row", "val", "obj"} :
                Count(text, s, After(After(pos)) - 1) = Count(text, s, pos - 1)
        BY <1>1, <1>2, <3>2, <3>3, OtherPassed
      <3>5. Single => ~closed
        BY <1>1, <2>1 DEF Control, Openings
      <3>6. queryIndex \in Nat
        BY <1>1 DEF Bounded
      <3> QED BY <1>1, <2>1, <3>1, <3>4, <3>5, <3>6
    <2> QED BY <2>2, <2>3
  <1> QED BY <1>4, <1>5, <1>6

\* The metadata, before the rows and behind them.
LEMMA RowsMeta ==
    ASSUME RowsInv, BeginMeta \/ Trailer
    PROVE  Reading' /\ Given'
  <1>1. TypeInv /\ ResponseOK /\ Bounded /\ Control /\ Reading /\ Given
    BY DEF RowsInv, TypeInv
  <1>2. pos \in Nat /\ pos \in 1 .. cut + 1 /\ cut \in Nat /\ cut <= Len(text) /\ Len(text) \in Nat
    BY <1>1, TextTyped DEF Bounded
  <1>3. /\ UNCHANGED <<mode, text, cut, quit, rows, legacy, hasRows, queryIndex>>
        /\ pc \in {"keys", "trailer"} /\ ~quit /\ mode \notin {"feed", "object"}
    BY <1>1 DEF BeginMeta, Trailer, response, multi, Control, Ways, Openings
  <1> USE DEF Reading, Given, InSync, PastRows, Single, Returned, Ended, AtEnd
  <1>4. CASE ParseMeta
    <2> DEFINE q == After(After(pos)) - 1
    <2>1. /\ Tok(pos) \in Keys /\ Tok(After(pos)) \in Values
          /\ metas' = metas + 1 /\ pc' = pc /\ pos' = After(After(pos)) /\ UNCHANGED <<out, closed>>
      BY <1>4 DEF ParseMeta, Goto
    <2>2. /\ q \in pos .. cut
          /\ Count(text, "row", q) = Count(text, "row", pos - 1)
          /\ Count(text, "val", q) = Count(text, "val", pos - 1) + 1
          /\ Count(text, "obj", q) = Count(text, "obj", pos - 1)
      BY <1>1, <1>3, <2>1, MetaPassed
    <2>3. pos' - 1 = q /\ \A i \in pos' .. Len(text) : i \in pos .. Len(text)
      BY <1>1, <1>2, <2>1, <2>2, FromHere
    <2> HIDE DEF q
    <2>4. CASE pc = "keys"
      BY <1>1, <1>3, <2>1, <2>2, <2>3, <2>4
    <2>5. CASE pc = "trailer"
      BY <1>1, <1>3, <2>1, <2>2, <2>3, <2>5
    <2> QED BY <1>3, <2>4, <2>5
  <1>5. CASE BeginMeta /\ ~ParseMeta
    <2>1. /\ pc' = "idle" /\ out' \in {"eof", "error"} /\ closed' = closed
          /\ mode # "multi" => out' = "error"
      BY <1>5 DEF BeginMeta, BeginFails, Return
    <2>2. Single => ~closed
      BY <1>1, <1>3 DEF Control, Openings
    <2> QED BY <1>3, <2>1, <2>2
  <1>6. CASE Trailer /\ ~ParseMeta
    <2>1. /\ pc = "trailer" /\ pc' = "idle" /\ pos' = cut + 1 /\ metas' = metas
          /\ out' = IF MetaError # "eof" THEN "error"
                    ELSE IF mode = "multi" /\ ~legacy THEN "eoq" ELSE "eof"
      BY <1>6 DEF Trailer, Finished, Return
    <2>2. CASE MetaError # "eof"
      BY <2>1, <2>2
    <2>3. CASE MetaError = "eof"
      <3>1. \/ Tok(pos) = "eof"
            \/ Tok(pos) \in Keys /\ Tok(After(pos)) = "eof"
        BY <2>3 DEF MetaError
      <3>2. /\ Count(text, "row", cut) = Count(text, "row", pos - 1)
            /\ Count(text, "val", cut) = Count(text, "val", pos - 1)
            /\ Count(text, "obj", cut) = Count(text, "obj", pos - 1)
        <4>1. CASE Tok(pos) = "eof"
          BY <1>1, <1>2, <4>1, NothingLeft
        <4>2. CASE Tok(pos) \in Keys /\ Tok(After(pos)) = "eof"
          <5>1. Tok(pos) \in Symbols \ {"row", "val", "obj"}
            BY <4>2 DEF Symbols, Keys, Values
          <5>2. After(pos) \in Nat /\ After(pos) \in 1 .. cut + 1
            BY <1>1, <1>2, <5>1, FromHere
          <5> QED BY <1>1, <1>2, <4>2, <5>1, <5>2, OtherPassed, NothingLeft
        <4> QED BY <3>1, <4>1, <4>2
      <3>3. pos' - 1 = cut /\ \A i \in pos' .. Len(text) : i \in pos .. Len(text)
        BY <1>2, <2>1
      <3>4. CASE Single
        BY <1>1, <1>3, <2>1, <2>3, <3>2, <3>3, <3>4
      <3>5. CASE ~Single
        BY <1>1, <1>3, <2>1, <2>3, <3>2, <3>3, <3>5
      <3> QED BY <3>4, <3>5
    <2> QED BY <2>2, <2>3
  <1> QED BY <1>4, <1>5, <1>6

\* The rows, and the end of their array.
LEMMA RowsRows ==
    ASSUME RowsInv, DecodeItem \/ DecodeFails \/ NoMore \/ Finish \/ TrailerEnds
    PROVE  Reading' /\ Given'
  <1>1. TypeInv /\ ResponseOK /\ Bounded /\ Control /\ Reading /\ Given
    BY DEF RowsInv, TypeInv
  <1>2. pos \in Nat /\ pos \in 1 .. cut + 1 /\ cut \in Nat /\ cut <= Len(text) /\ Len(text) \in Nat
    BY <1>1, TextTyped DEF Bounded
  <1>3. /\ UNCHANGED <<mode, text, cut, quit, metas, legacy, hasRows, queryIndex>>
        /\ pc \in {"row", "finish", "trailer"} /\ ~quit
    BY <1>1 DEF DecodeItem, DecodeFails, NoMore, Finish, TrailerEnds, response, counts, multi,
                Control, Openings
  <1> USE DEF Reading, Given, InSync, PastRows, Single, Returned, Ended, AtEnd
  <1>4. CASE DecodeItem
    <2>1. /\ pc = "row" /\ Tok(Item) = "row" /\ rows' = rows + 1 /\ closed' = closed
          /\ pc' = "idle" /\ out' = "row" /\ pos' = After(Item)
      BY <1>4 DEF DecodeItem, Return
    <2>2. /\ ~AtEnd
          /\ Count(text, "row", After(Item) - 1) = Count(text, "row", pos - 1) + 1
          /\ Count(text, "val", After(Item) - 1) = Count(text, "val", pos - 1)
          /\ Count(text, "obj", After(Item) - 1) = Count(text, "obj", pos - 1)
      BY <1>1, <2>1, RowPassed
    <2> QED BY <1>1, <1>3, <2>1, <2>2
  <1>5. CASE DecodeFails
    <2>1. /\ pc = "row" /\ rows' = rows
          /\ \/ pc' = "idle" /\ out' = "error"
             \/ pc' = "finish" /\ pos' = Stuck(Item) /\ Tok(Item) = "eof"
      BY <1>5 DEF DecodeFails, Return, Goto, counts
    <2>2. CASE pc' = "idle" /\ out' = "error"
      BY <2>2
    <2>3. CASE pc' = "finish" /\ pos' = Stuck(Item) /\ Tok(Item) = "eof"
      <3>1. pos' = cut + 1
        BY <1>1, <1>2, <2>3, ItemStuck
      <3>2. CASE mode # "feed"
        BY <1>3, <2>3, <3>1, <3>2
      <3>3. CASE mode = "feed"
        <4>1. Item = pos /\ Single /\ InSync /\ pos' - 1 = cut
          BY <1>1, <1>2, <2>1, <3>1, <3>3 DEF Item
        <4>2. /\ Count(text, "row", cut) = Count(text, "row", pos - 1)
              /\ Count(text, "val", cut) = Count(text, "val", pos - 1)
          BY <1>1, <1>2, <2>3, <4>1, NothingLeft
        <4> QED BY <1>3, <2>1, <2>3, <3>1, <3>3, <4>1, <4>2
      <3> QED BY <3>2, <3>3
    <2> QED BY <2>1, <2>2, <2>3
  <1>6. CASE NoMore
    <2>1. pc = "row" /\ rows' = rows /\ pc' = "finish" /\ pos' = pos /\ ~More(pos)
      BY <1>6 DEF NoMore, Goto, counts
    <2>2. mode = "feed" => pos = cut + 1
      <3>1. mode = "feed" /\ pos <= cut => text[pos] = "row"
        BY <1>1, <1>2, SyntaxHere DEF SyntaxOK
      <3> QED BY <1>2, <2>1, <3>1 DEF More
    <2> QED BY <1>1, <1>3, <2>1, <2>2
  <1>7. CASE Finish
    <2>1. pc = "finish" /\ rows' = rows
      BY <1>7 DEF Finish, counts
    <2>2. Tok(pos) \in {"endarr", "endobj"} => ~AtEnd
      BY <1>2 DEF Tok, Skip
    <2>3. CASE Tok(pos) = "endarr" /\ mode \notin {"feed", "object"}
      <3>1. pc' = "trailer" /\ pos' = After(pos) /\ closed' = closed
        BY <1>7, <2>3 DEF Finish, Goto
      <3>2. InSync
        BY <1>1, <2>1, <2>2, <2>3
      <3>3. LET k == After(pos) - 1
            IN  IF Single
                THEN rows = Count(text, "row", Len(text)) /\ metas = Count(text, "val", k)
                ELSE /\ Count(text, "obj", k) = queryIndex + 2
                     /\ \A i \in k + 1 .. Len(text) :
                          text[i] = "row" => Count(text, "obj", i) > queryIndex + 2
        BY <1>1, <2>3, <3>2, ArrayPassed
      <3>4. pos' = (After(pos) - 1) + 1
        BY <1>1, <3>1, FromHere
      <3> QED BY <1>3, <2>1, <3>1, <3>3, <3>4
    <2>4. CASE mode = "feed" /\ Tok(pos) # "error"
      <3>1. pc' = "idle" /\ out' = "eof"
        BY <1>7, <2>4 DEF Finish, Finished, Return
      <3>2. AtEnd /\ InSync
        BY <1>1, <2>1, <2>4
      <3> QED BY <1>2, <1>3, <2>1, <2>4, <3>1, <3>2
    <2>5. CASE mode = "object" /\ Tok(pos) = "endobj"
      <3>1. pc' = "idle" /\ out' = "eof" /\ pos' = Stuck(pos)
        BY <1>7, <2>5 DEF Finish, Finished, Return
      <3>2. InSync /\ Single
        BY <1>1, <2>1, <2>2, <2>5
      <3>3. Count(text, "row", Len(text)) = Count(text, "row", pos - 1)
        BY <1>1, <2>5, ObjectPassed
      <3> QED BY <1>3, <2>1, <2>5, <3>1, <3>2, <3>3
    <2>6. CASE ~(\/ Tok(pos) = "endarr" /\ mode \notin {"feed", "object"}
                 \/ mode = "feed" /\ Tok(pos) # "error"
                 \/ mode = "object" /\ Tok(pos) = "endobj")
      <3>1. pc' = "idle" /\ out' = "error"
        BY <1>7, <2>6 DEF Finish, Finished, Return
      <3> QED BY <3>1
    <2> QED BY <2>3, <2>4, <2>5, <2>6
  <1>8. CASE TrailerEnds
    <2>1. /\ pc = "trailer" /\ pc' = "idle" /\ pos' = Stuck(pos) /\ rows' = rows
          /\ out' = IF Tok(pos) # "endobj" THEN "error"
                    ELSE IF mode = "multi" /\ ~legacy THEN "eoq" ELSE "eof"
          /\ mode \notin {"feed", "object"}
      BY <1>1, <1>8 DEF TrailerEnds, Finished, Return, counts, Control, Ways
    <2>2. CASE Tok(pos) # "endobj"
      BY <2>1, <2>2
    <2>3. CASE Tok(pos) = "endobj"
      <3>1. CASE Single
        <4>1. ~(mode = "multi" /\ Several(text))
          BY <1>1, <3>1 DEF Control, Ways
        <4>2. Count(text, "val", Len(text)) = Count(text, "val", pos - 1)
          BY <1>1, <2>3, <4>1, ObjectPassed
        <4> QED BY <1>1, <1>3, <2>1, <2>3, <3>1, <4>2
      <3>2. CASE ~Single
        <4>1. Tok(pos) \in Symbols \ {"row", "val", "obj"}
          BY <2>3 DEF Symbols
        <4>2. /\ After(pos) - 1 \in pos .. cut
              /\ Count(text, "obj", After(pos) - 1) = Count(text, "obj", pos - 1)
          BY <1>1, <1>2, <4>1, OtherPassed
        <4>3. pos' = After(pos)
          BY <1>1, <1>2, <2>1, <4>2, FromHere DEF Stuck, Min
        <4>4. \A i \in pos' .. Len(text) : i \in pos .. Len(text)
          BY <1>1, <1>2, <4>3, FromHere
        <4> QED BY <1>1, <1>3, <2>1, <2>3, <3>2, <4>2, <4>3, <4>4
      <3> QED BY <3>1, <3>2
    <2> QED BY <2>2, <2>3
  <1> QED BY <1>4, <1>5, <1>6, <1>7, <1>8

\* RowsInv holds at first, before any symbol is read.
LEMMA RowsInit == Init => RowsInv
  <1> SUFFICES ASSUME Init PROVE Reading /\ Given
    BY InitTypeInv, ControlInit DEF RowsInv
  <1> QED BY DEF Init, Reading, Given, Returned, Ended

\* RowsInv is inductive.
LEMMA RowsStep == RowsInv /\ [Next]_vars => RowsInv'
  <1> SUFFICES ASSUME RowsInv, [Next]_vars PROVE RowsInv'
    OBVIOUS
  <1>1. TypeInv' /\ Control'
    BY NextTypeInv, ControlStep DEF RowsInv
  <1>2. Reading' /\ Given'
    BY RowsNextCall, RowsBegin, RowsMeta, RowsRows DEF Next, Steps
  <1> QED BY <1>1, <1>2 DEF RowsInv

\* The rows of a query are the ones behind its '{' and before the next.
LEMMA RowsOfQuery ==
    ASSUME RowsInv, Returned("eoq"), NEW i \in 1 .. Len(text), text[i] = "row"
    PROVE  i < pos <=> Count(text, "obj", i) - 2 <= queryIndex
  <1>1. /\ Count(text, "obj", pos - 1) = queryIndex + 2
        /\ \A j \in pos .. Len(text) : text[j] = "row" => Count(text, "obj", j) > queryIndex + 2
    BY DEF RowsInv, Given, PastRows, Control, Endings, Single
  <1>2. pos \in Nat \ {0} /\ queryIndex \in Nat /\ i \in Nat /\ Len(text) \in Nat
    BY TextTyped DEF RowsInv, TypeInv, Bounded
  <1>3. Count(text, "obj", i) \in Nat
    BY <1>2, CountNext
  <1>4. CASE i < pos
    <2>1. pos - 1 \in Nat /\ i <= pos - 1
      BY <1>2, <1>4
    <2>2. Count(text, "obj", i) <= Count(text, "obj", pos - 1)
      BY <1>2, <2>1, CountBetween
    <2> QED BY <1>1, <1>2, <1>3, <1>4, <2>2
  <1>5. CASE ~(i < pos)
    <2>1. i \in pos .. Len(text)
      BY <1>2, <1>5
    <2>2. Count(text, "obj", i) > queryIndex + 2
      BY <1>1, <2>1
    <2> QED BY <1>2, <1>3, <1>5, <2>2
  <1> QED BY <1>4, <1>5

\* Wherever the body of a response of any length breaks off: io.EOF comes after all rows
\* the server meant to send, of a feed after all that arrived, and EOQ after all rows of
\* its query and before any of the next.
THEOREM AllRowsBeforeEnd == Spec => []RowsAllDelivered
  <1>1. RowsInv => RowsAllDelivered
    <2> SUFFICES ASSUME RowsInv PROVE RowsAllDelivered
      OBVIOUS
    <2>1. Ended /\ mode = "feed" => rows = Count(text, "row", cut)
      BY DEF RowsInv, Given
    <2>2. Ended /\ (mode \notin {"feed", "multi"} \/ (legacy /\ closed)) =>
            rows = Count(text, "row", Len(text))
      BY DEF RowsInv, Given, Control, Ways, Endings, Single
    <2>3. Returned("eoq") =>
            \A i \in 1 .. Len(text) :
              text[i] = "row" => (i < pos <=> Count(text, "obj", i) - 2 <= queryIndex)
      BY RowsOfQuery
    <2> QED BY <2>1, <2>2, <2>3 DEF RowsAllDelivered
  <1> QED
    BY <1>1, RowsInit, RowsStep, PTL DEF Spec

\* QueryIndex is the number of the query whose rows Next is returning, counted by the
\* objects of the response, whatever the queries before it looked like.
THEOREM RowsBelongToQuery == Spec => []RowOfQuery
  <1>1. RowsInv => RowOfQuery
    <2> SUFFICES ASSUME RowsInv, Returned("row"), mode = "multi", ~legacy
                 PROVE  queryIndex = Count(text, "obj", pos - 1) - 2
      BY DEF RowOfQuery
    <2>1. Count(text, "obj", pos - 1) = queryIndex + 2 /\ queryIndex \in Nat
      BY DEF RowsInv, TypeInv, Bounded, Given, InSync, Single
    <2> QED BY <2>1
  <1> QED
    BY <1>1, RowsInit, RowsStep, PTL DEF Spec

\* When io.EOF is returned all metadata of a whole response was parsed, before the rows
\* or behind them.
THEOREM AllMetaParsed == Spec => []MetaAllParsed
  <1>1. RowsInv => MetaAllParsed
    BY DEF RowsInv, Given, MetaAllParsed
  <1> QED
    BY <1>1, RowsInit, RowsStep, PTL DEF Spec
=============================================================================
