---------------------------- MODULE TxParser_proofs ----------------------------
(***************************************************************************)
(* The parser on every buffer, for every limit and every sequence of       *)
(* transactions: it reads inside the transaction, what an accepted         *)
(* transaction shows was read from it, and the review shows all of it.     *)
(*                                                                         *)
(* Nothing clears parser_tx_obj between two transactions, so the argument  *)
(* is about the order of the reads: each reads another element, and an     *)
(* accepted transaction is one whose reads all took place.                 *)
(***************************************************************************)
EXTENDS TxParser, FiniteSetTheorems, TLAPS

Parsing == {"reading", "parsed", "ok"}

\* The elements the first n reads are for.
Done(n) == {Reads(k) : k \in (0..(n - 1)) \ {6}}

\* The reads end with the last of the transaction, not before and not after.
ReadsEnd ==
    /\ status = "reading" => pos < Last
    /\ status \in {"parsed", "ok"} => pos = Last

\* What is fresh is what was read, whatever is left of earlier transactions.
FreshIsRead == status \in Parsing => fresh = Done(pos)

\* What was accepted can be shown.
AcceptedIsShown == status = "ok" => \A i \in Items : ItemAnswer(i) = "ok"

PInv == ParserTypeOK /\ ReadsEnd /\ FreshIsRead /\ StaysInBuffer /\ AcceptedIsShown

-----------------------------------------------------------------------------
(* The order of the reads.                                                 *)

\* What a number of 16 bits is.
LEMMA U16Bounds ==
    /\ \A n \in U16Values : n \in Nat /\ n <= 65535
    /\ \A n \in Nat : n <= 65535 => n \in U16Values
<1>1. PICK most \in Nat : most = 65535
  OBVIOUS
<1>2. U16Values = 0..most
  BY <1>1 DEF U16Values
<1>3. /\ \A n \in 0..most : n \in Nat /\ n <= most
      /\ \A n \in Nat : n <= most => n \in 0..most
  OBVIOUS
<1>4. /\ \A n \in U16Values : n \in Nat /\ n <= most
      /\ \A n \in Nat : n <= most => n \in U16Values
  BY <1>2, <1>3
<1>5. QED
  BY <1>1, <1>4

\* The same of bytes.
LEMMA ByteBounds ==
    /\ \A n \in Byte : n \in Nat /\ n <= 255
    /\ \A n \in Nat : n <= 255 => n \in Byte
BY DEF Byte

HeaderNames == {"format", "owner", "target", "quantity", "reward", "last_tx"}

\* The fields by name, and where they are.
LEMMA Names ==
    /\ Header[1] = Field("format") /\ Header[2] = Field("owner")
    /\ Header[3] = Field("target") /\ Header[4] = Field("quantity")
    /\ Header[5] = Field("reward") /\ Header[6] = Field("last_tx")
    /\ Trailer[1] = Field("data_size") /\ Trailer[2] = Field("data_root")
    /\ Fields = {Field(name) : name \in HeaderNames \cup {"data_size", "data_root"}}
<1>1. /\ Header[1] = Field("format") /\ Header[2] = Field("owner")
      /\ Header[3] = Field("target") /\ Header[4] = Field("quantity")
      /\ Header[5] = Field("reward") /\ Header[6] = Field("last_tx")
      /\ Trailer[1] = Field("data_size") /\ Trailer[2] = Field("data_root")
  BY DEF Header, Trailer
<1>2. {Header[i] : i \in 1..6} = {Field(name) : name \in HeaderNames}
  BY <1>1 DEF HeaderNames
<1>3. {Trailer[i] : i \in 1..2} = {Field(name) : name \in {"data_size", "data_root"}}
  BY <1>1
<1>4. QED
  BY <1>1, <1>2, <1>3 DEF Fields

\* Elements are told apart by their kind and their number.
LEMMA Apart ==
    /\ \A m, n : Field(m) = Field(n) => m = n
    /\ \A i, j : Key(i) = Key(j) => i = j
    /\ \A i, j : Value(i) = Value(j) => i = j
    /\ \A i, j : Key(i) # Value(j)
    /\ \A n, i : i # 0 => Field(n) # Key(i) /\ Field(n) # Value(i)
BY DEF Field, Key, Value

\* What each read is for: the header, the tags by turns, and the trailer.
LEMMA ReadKinds ==
    ASSUME tags_count \in Nat, NEW k \in Nat, k < Last, k # 6
    PROVE  \/ k < 6 /\ Reads(k) = Header[k + 1]
           \/ \E i \in 1..tags_count : k = 5 + 2 * i /\ Reads(k) = Key(i)
           \/ \E i \in 1..tags_count : k = 6 + 2 * i /\ Reads(k) = Value(i)
           \/ k = 7 + 2 * tags_count /\ Reads(k) = Field("data_size")
           \/ k = 8 + 2 * tags_count /\ Reads(k) = Field("data_root")
<1>1. CASE k < 6
  BY <1>1 DEF Reads
<1>2. CASE k \in 7..(Last - 3) /\ k % 2 = 1
  <2> DEFINE i == (k - 5) \div 2
  <2>1. i \in 1..tags_count /\ k = 5 + 2 * i
    BY <1>2 DEF Last
  <2>2. Reads(k) = Key(i)
    BY <1>2 DEF Reads
  <2>3. QED
    BY <2>1, <2>2
<1>3. CASE k \in 7..(Last - 3) /\ k % 2 # 1
  <2> DEFINE i == (k - 6) \div 2
  <2>1. i \in 1..tags_count /\ k = 6 + 2 * i
    BY <1>3 DEF Last
  <2>2. Reads(k) = Value(i)
    BY <1>3 DEF Reads
  <2>3. QED
    BY <2>1, <2>2
<1>4. CASE k > 6 /\ k = Last - 2
  <2>1. Reads(k) = Trailer[1]
    BY <1>4 DEF Reads, Last
  <2>2. QED
    BY <1>4, <2>1, Names DEF Last
<1>5. CASE k > 6 /\ k = Last - 1
  <2>1. Reads(k) = Trailer[2]
    BY <1>5 DEF Reads, Last
  <2>2. QED
    BY <1>5, <2>1, Names DEF Last
<1>6. QED
  BY <1>1, <1>2, <1>3, <1>4, <1>5 DEF Last

\* The reads by what they are for.
LEMMA ReadOf ==
    ASSUME tags_count \in Nat
    PROVE  /\ \A k \in 0..5 : Reads(k) = Header[k + 1]
           /\ \A i \in 1..tags_count :
                 Reads(5 + 2 * i) = Key(i) /\ Reads(6 + 2 * i) = Value(i)
           /\ Reads(7 + 2 * tags_count) = Field("data_size")
           /\ Reads(8 + 2 * tags_count) = Field("data_root")
<1>1. ASSUME NEW i \in 1..tags_count
      PROVE  Reads(5 + 2 * i) = Key(i) /\ Reads(6 + 2 * i) = Value(i)
  <2>1. Reads(5 + 2 * i) = Key(i)
    <3> DEFINE k == 5 + 2 * i
    <3>1. k \in 7..(Last - 3) /\ k % 2 = 1 /\ (k - 5) \div 2 = i
      BY DEF Last
    <3> HIDE DEF k
    <3>2. Reads(k) = Key((k - 5) \div 2)
      BY <3>1 DEF Reads
    <3>3. QED
      BY <3>1, <3>2 DEF k
  <2>2. Reads(6 + 2 * i) = Value(i)
    <3> DEFINE k == 6 + 2 * i
    <3>1. k \in 7..(Last - 3) /\ k % 2 # 1 /\ (k - 6) \div 2 = i
      BY DEF Last
    <3> HIDE DEF k
    <3>2. Reads(k) = Value((k - 6) \div 2)
      BY <3>1 DEF Reads
    <3>3. QED
      BY <3>1, <3>2 DEF k
  <2>3. QED
    BY <2>1, <2>2
<1>2. Reads(7 + 2 * tags_count) = Trailer[1]
  BY DEF Reads, Last
<1>3. Reads(8 + 2 * tags_count) = Trailer[2]
  BY DEF Reads, Last
<1>4. \A k \in 0..5 : Reads(k) = Header[k + 1]
  BY DEF Reads
<1>5. QED
  BY <1>1, <1>2, <1>3, <1>4, Names

\* Every read is for another element.
LEMMA ReadsDiffer ==
    ASSUME tags_count \in Nat,
           NEW j \in Nat, j < Last, j # 6,
           NEW k \in Nat, k < Last, k # 6, Reads(j) = Reads(k)
    PROVE  j = k
<1>1. ASSUME NEW n \in Nat, n < 6
      PROVE  /\ \E name \in HeaderNames : Header[n + 1] = Field(name)
             /\ \A m \in Nat : m < 6 /\ Header[m + 1] = Header[n + 1] => m = n
  <2>1. n = 0 \/ n = 1 \/ n = 2 \/ n = 3 \/ n = 4 \/ n = 5
    BY <1>1
  <2>2. QED
    BY <1>1, <2>1, Names, Apart DEF HeaderNames
<1>2. \/ k < 6 /\ Reads(k) = Header[k + 1]
      \/ \E i \in 1..tags_count : k = 5 + 2 * i /\ Reads(k) = Key(i)
      \/ \E i \in 1..tags_count : k = 6 + 2 * i /\ Reads(k) = Value(i)
      \/ k = 7 + 2 * tags_count /\ Reads(k) = Field("data_size")
      \/ k = 8 + 2 * tags_count /\ Reads(k) = Field("data_root")
  BY ReadKinds
<1>3. CASE j < 6 /\ Reads(j) = Header[j + 1]
  <2>1. PICK name \in HeaderNames : Header[j + 1] = Field(name)
    BY <1>1, <1>3
  <2>2. Reads(k) = Field(name) /\ name # "data_size" /\ name # "data_root"
    BY <1>3, <2>1 DEF HeaderNames
  <2>3. k < 6 /\ Reads(k) = Header[k + 1]
    BY <1>2, <2>2, Apart
  <2>4. QED
    BY <1>1, <1>3, <2>3
<1>4. CASE \E i \in 1..tags_count : j = 5 + 2 * i /\ Reads(j) = Key(i)
  <2>1. ~(k < 6 /\ Reads(k) = Header[k + 1])
    BY <1>1, <1>4, Apart
  <2>2. QED
    BY <1>2, <1>4, <2>1, Apart
<1>5. CASE \E i \in 1..tags_count : j = 6 + 2 * i /\ Reads(j) = Value(i)
  <2>1. ~(k < 6 /\ Reads(k) = Header[k + 1])
    BY <1>1, <1>5, Apart
  <2>2. QED
    BY <1>2, <1>5, <2>1, Apart
<1>6. CASE \/ j = 7 + 2 * tags_count /\ Reads(j) = Field("data_size")
           \/ j = 8 + 2 * tags_count /\ Reads(j) = Field("data_root")
  <2>1. ~(k < 6 /\ Reads(k) = Header[k + 1])
    BY <1>1, <1>6, Apart DEF HeaderNames
  <2>2. QED
    BY <1>2, <1>6, <2>1, Apart
<1>7. QED
  BY <1>3, <1>4, <1>5, <1>6, ReadKinds

\* Every read but that of the count is for an element, if the count is within
\* its limit by then.
LEMMA ReadIsElement ==
    ASSUME tags_count \in Nat, NEW k \in Nat, k < Last, k # 6,
           k > 6 => tags_count <= MAX_NUMBER_TAGS
    PROVE  Reads(k) \in Elements
<1>1. CASE k < 6
  BY <1>1, ReadOf DEF Elements, Fields
<1>2. CASE k > 6
  <2>1. Field("data_size") \in Elements /\ Field("data_root") \in Elements
    BY Names DEF Elements
  <2>2. TagsUpTo(tags_count) \subseteq Elements
    BY <1>2, LimitsAssumption, U16Bounds DEF Elements, TagsUpTo
  <2>3. QED
    BY <1>2, <2>1, <2>2, ReadKinds DEF TagsUpTo
<1>3. QED
  BY <1>1, <1>2

-----------------------------------------------------------------------------
(* Every step keeps the invariant.                                         *)

\* Two bytes make a number of 16 bits.
LEMMA U16InRange ==
    ASSUME ParserTypeOK
    PROVE  /\ U16 \in U16Values
           /\ Len(buffer) \in U16Values
<1>1. buffer \in Seq(Byte) /\ Len(buffer) \in U16Values
  <2>1. CASE buffer = <<>>
    BY <2>1, U16Bounds
  <2>2. CASE buffer \in Buffers
    BY <2>2, BuffersAssumption
  <2>3. QED
    BY <2>1, <2>2 DEF ParserTypeOK
<1>2. ASSUME NEW i \in Nat \ {0} PROVE ByteAt(i) \in Byte
  BY <1>1, ByteBounds DEF ByteAt
<1>3. offset \in Nat
  BY <1>1 DEF ParserTypeOK
<1>4. ByteAt(offset + 1) \in Byte /\ ByteAt(offset + 2) \in Byte
  BY <1>2, <1>3
<1>5. QED
  BY <1>1, <1>4, U16Bounds, ByteBounds DEF U16

\* The application starts with nothing read.
LEMMA InitPInv == Init => PInv
<1> SUFFICES ASSUME Init PROVE PInv
  OBVIOUS
<1>1. ParserTypeOK
  BY LimitsAssumption, U16Bounds DEF Init, ParserTypeOK
<1>2. QED
  BY <1>1 DEF Init, PInv, ReadsEnd, FreshIsRead, StaysInBuffer,
              AcceptedIsShown, Parsing

\* The element that is read next is one of the object and not yet fresh.
LEMMA NextIsNew ==
    ASSUME PInv, ReadingElement
    PROVE  /\ Reads(pos) \in Elements
           /\ Reads(pos) \notin fresh
           /\ Done(pos + 1) = Done(pos) \cup {Reads(pos)}
           /\ fresh = Done(pos)
<1>1. /\ tags_count \in Nat /\ pos \in Nat /\ pos < Last /\ pos # 6
      /\ pos > 6 => tags_count <= MAX_NUMBER_TAGS
  BY U16Bounds DEF PInv, ParserTypeOK, ReadsEnd, ReadingElement
<1>2. Reads(pos) \in Elements
  BY <1>1, ReadIsElement
<1>3. fresh = Done(pos)
  BY DEF PInv, FreshIsRead, ReadingElement, Parsing
<1>4. Reads(pos) \notin Done(pos)
  <2>1. ASSUME NEW k \in (0..(pos - 1)) \ {6} PROVE Reads(k) # Reads(pos)
    <3>1. k \in Nat /\ k < Last /\ k # 6 /\ k # pos
      BY <1>1 DEF Last
    <3>2. QED
      BY <1>1, <3>1, ReadsDiffer
  <2>2. QED
    BY <2>1 DEF Done
<1>5. Done(pos + 1) = Done(pos) \cup {Reads(pos)}
  <2>1. (0..((pos + 1) - 1)) \ {6} = ((0..(pos - 1)) \ {6}) \cup {pos}
    BY <1>1
  <2>2. QED
    BY <2>1 DEF Done
<1>6. QED
  BY <1>2, <1>3, <1>4, <1>5

\* A new transaction.
LEMMA ParsePInv ==
    ASSUME PInv, NEW data \in Buffers, parser_parse(data)
    PROVE  PInv'
<1>1. ParserTypeOK'
  <2>1. Len(data) \in Nat
    BY BuffersAssumption, U16Bounds
  <2>2. parses' \in 0..MAX_PARSES
    BY LimitsAssumption DEF parser_parse, PInv, ParserTypeOK
  <2>3. QED
    BY <2>1, <2>2 DEF parser_parse, parser_init_context, PInv, ParserTypeOK, Errors
<1>2. fresh' = {} /\ pos' = 0 /\ status' \in {"no_data", "reading"}
  BY DEF parser_parse, parser_init_context
<1>3. Done(0)' = {}
  BY DEF Done
<1>4. Last' > 0
  BY <1>1, U16Bounds DEF ParserTypeOK, Last
<1>5. QED
  BY <1>1, <1>2, <1>3, <1>4
     DEF PInv, ReadsEnd, FreshIsRead, StaysInBuffer, AcceptedIsShown, Parsing

\* A read that meets the end of the buffer leaves the fresh elements alone: the
\* length it stores is that of another.
LEMMA TruncatedPInv ==
    ASSUME PInv, TruncatedLength \/ TruncatedElement
    PROVE  PInv'
<1>1. CASE TruncatedLength
  BY <1>1 DEF TruncatedLength, PInv, ParserTypeOK, Errors, ReadsEnd, FreshIsRead,
              StaysInBuffer, AcceptedIsShown, Parsing
<1>2. CASE TruncatedElement
  <2>1. /\ ReadingElement
        /\ len' = [len EXCEPT ![Reads(pos)] = U16]
        /\ offset' = offset + 2
        /\ status' = "unexpected_buffer_end"
        /\ UNCHANGED <<buffer, pos, ptr, tags_count, expert, fresh, parses>>
    BY <1>2 DEF TruncatedElement
  <2>2. U16 \in U16Values /\ Len(buffer) \in Nat
    BY U16InRange, U16Bounds DEF PInv
  <2>3. offset \in Nat /\ offset + 2 <= Len(buffer)
    BY <2>1, <2>2 DEF PInv, ParserTypeOK, ReadingElement, Available
  <2>4. Reads(pos) \in Elements /\ Reads(pos) \notin fresh
    BY <2>1, NextIsNew
  <2>5. ParserTypeOK'
    <3>1. len' \in [Elements -> U16Values]
      BY <2>1, <2>2 DEF PInv, ParserTypeOK
    <3>2. offset' \in 0..Len(buffer')
      BY <2>1, <2>2, <2>3
    <3>3. QED
      BY <2>1, <3>1, <3>2 DEF PInv, ParserTypeOK, Errors
  <2>6. \A e \in fresh : e \in Elements /\ len'[e] = len[e]
    BY <2>1, <2>4 DEF PInv, ParserTypeOK
  <2>7. StaysInBuffer'
    BY <2>1, <2>2, <2>3, <2>6, U16Bounds DEF PInv, ParserTypeOK, StaysInBuffer
  <2>8. QED
    BY <2>1, <2>5, <2>7
       DEF PInv, ReadsEnd, FreshIsRead, AcceptedIsShown, Parsing
<1>3. QED
  BY <1>1, <1>2

\* An element is read.
LEMMA ReadPInv ==
    ASSUME PInv, ReadElement
    PROVE  PInv'
<1> DEFINE e == Reads(pos)
           n == U16
<1>1. /\ ReadingElement /\ status = "reading" /\ pos # 6
      /\ Available(2 + n)
      /\ len' = [len EXCEPT ![e] = n]
      /\ ptr' = [ptr EXCEPT ![e] = offset + 2]
      /\ offset' = offset + 2 + n
      /\ pos' = pos + 1
      /\ fresh' = fresh \cup {e}
      /\ status' = IF ~Supported(e, n) THEN "unexpected_tx_version"
                   ELSE IF pos + 1 = Last THEN "parsed" ELSE "reading"
      /\ UNCHANGED <<buffer, tags_count, expert, parses>>
  BY DEF ReadElement, ReadingElement, Complete
<1>2. n \in U16Values /\ Len(buffer) \in U16Values
  BY U16InRange DEF PInv
<1>3. /\ e \in Elements /\ e \notin fresh /\ fresh = Done(pos)
      /\ Done(pos + 1) = Done(pos) \cup {e}
  BY <1>1, NextIsNew
<1> HIDE DEF e, n
<1>4. /\ offset \in Nat /\ n \in Nat /\ Len(buffer) \in Nat
      /\ offset + 2 + n <= Len(buffer) /\ offset + 2 \in U16Values
  BY <1>1, <1>2, U16Bounds DEF PInv, ParserTypeOK, Available
<1>5. pos \in Nat /\ pos < Last /\ Last \in Nat /\ Last' = Last
  <2>1. tags_count \in Nat
    BY U16Bounds DEF PInv, ParserTypeOK
  <2>2. pos \in Nat /\ pos < Last
    BY <1>1 DEF PInv, ParserTypeOK, ReadsEnd
  <2>3. Last \in Nat /\ Last' = Last
    BY <1>1, <2>1 DEF Last
  <2>4. QED
    BY <2>2, <2>3
<1>6. status' \in {"unexpected_tx_version", "parsed", "reading"}
  BY <1>1
<1>7. ParserTypeOK'
  <2>1. pos' > 6 => tags_count <= MAX_NUMBER_TAGS
    BY <1>1, <1>5 DEF PInv, ParserTypeOK
  <2>2. ptr' \in [Elements -> U16Values] /\ len' \in [Elements -> U16Values]
    BY <1>1, <1>2, <1>4 DEF PInv, ParserTypeOK
  <2>3. fresh' \subseteq Elements
    BY <1>1, <1>3 DEF PInv, ParserTypeOK
  <2>4. offset' \in 0..Len(buffer') /\ pos' \in Nat
    BY <1>1, <1>4, <1>5
  <2>5. QED
    BY <1>1, <1>6, <2>1, <2>2, <2>3, <2>4 DEF PInv, ParserTypeOK, Errors
<1>8. StaysInBuffer'
  <2> SUFFICES ASSUME NEW f \in fresh \cup {e}
               PROVE  ptr'[f] + len'[f] <= offset' /\ offset' <= Len(buffer')
    BY <1>1 DEF StaysInBuffer
  <2>1. CASE f = e
    BY <1>1, <1>3, <1>4, <2>1 DEF PInv, ParserTypeOK
  <2>2. CASE f # e
    <3>1. f \in fresh /\ f \in Elements
      BY <2>2 DEF PInv, ParserTypeOK
    <3>2. ptr[f] + len[f] <= offset /\ ptr[f] \in Nat /\ len[f] \in Nat
      BY <3>1, U16Bounds DEF PInv, StaysInBuffer, ParserTypeOK
    <3>3. ptr'[f] = ptr[f] /\ len'[f] = len[f]
      BY <1>1, <2>2, <3>1 DEF PInv, ParserTypeOK
    <3>4. QED
      BY <1>1, <1>4, <3>2, <3>3
  <2>3. QED
    BY <2>1, <2>2
<1>9. FreshIsRead'
  <2>1. \A m : Done(m)' = Done(m)
    BY <1>1 DEF Done, Reads, Last
  <2>2. QED
    BY <1>1, <1>3, <2>1 DEF FreshIsRead
<1>10. ReadsEnd'
  BY <1>1, <1>5 DEF ReadsEnd
<1>11. QED
  BY <1>6, <1>7, <1>8, <1>9, <1>10 DEF PInv, AcceptedIsShown

\* The count of the tags is read: it decides which reads are still to come,
\* and none of those already done.
LEMMA TagsCountPInv ==
    ASSUME PInv, ReadTagsCount
    PROVE  PInv'
<1> DEFINE n == U16
<1>1. /\ status = "reading" /\ pos = 6 /\ Available(2)
      /\ tags_count' = n
      /\ offset' = offset + 2
      /\ pos' = 7
      /\ status' = IF n <= MAX_NUMBER_TAGS THEN "reading" ELSE "value_out_of_range"
      /\ UNCHANGED <<buffer, ptr, len, expert, fresh, parses>>
  BY DEF ReadTagsCount, WithinLimit
<1>2. n \in U16Values /\ Len(buffer) \in U16Values
  BY U16InRange DEF PInv
<1> HIDE DEF n
<1>3. offset \in Nat /\ n \in Nat /\ Len(buffer) \in Nat /\ offset + 2 <= Len(buffer)
  BY <1>1, <1>2, U16Bounds DEF PInv, ParserTypeOK, Available
<1>4. ParserTypeOK'
  <2>1. offset' \in 0..Len(buffer')
    BY <1>1, <1>3
  <2>2. status' = "reading" => tags_count' <= MAX_NUMBER_TAGS
    BY <1>1
  <2>3. status' \in {"reading", "value_out_of_range"}
    BY <1>1
  <2>4. QED
    BY <1>1, <1>2, <2>1, <2>2, <2>3 DEF PInv, ParserTypeOK, Errors
<1>5. ReadsEnd'
  BY <1>1, <1>3 DEF ReadsEnd, Last
<1>6. FreshIsRead'
  <2>1. ASSUME NEW k \in 0..5 PROVE Reads(k)' = Reads(k)
    BY DEF Reads
  <2>2. (0..(7 - 1)) \ {6} = 0..5 /\ (0..(6 - 1)) \ {6} = 0..5
    OBVIOUS
  <2>3. Done(7)' = Done(6)
    BY <2>1, <2>2 DEF Done
  <2>4. fresh = Done(6)
    BY <1>1 DEF PInv, FreshIsRead, Parsing
  <2>5. QED
    BY <1>1, <2>3, <2>4 DEF FreshIsRead
<1>7. StaysInBuffer'
  <2> SUFFICES ASSUME NEW f \in fresh
               PROVE  ptr[f] + len[f] <= offset + 2 /\ offset + 2 <= Len(buffer)
    BY <1>1 DEF StaysInBuffer
  <2>1. ptr[f] + len[f] <= offset /\ ptr[f] \in Nat /\ len[f] \in Nat
    BY U16Bounds DEF PInv, StaysInBuffer, ParserTypeOK
  <2>2. QED
    BY <1>3, <2>1
<1>8. QED
  BY <1>1, <1>4, <1>5, <1>6, <1>7 DEF PInv, AcceptedIsShown

\* What the review answers depends on the object and on the mode alone.
LEMMA SameAnswers ==
    ASSUME UNCHANGED <<buffer, ptr, len, tags_count, expert>>
    PROVE  /\ Items' = Items
           /\ \A i : ItemAnswer(i)' = ItemAnswer(i)
<1>1. RootItems' = RootItems
  BY DEF RootItems
<1>2. Items' = Items
  BY <1>1 DEF Items, _getNumItems
<1>3. \A e : Bytes(e)' = Bytes(e)
  BY DEF Bytes, ByteAt
<1>4. \A i : parser_getItem(i)' = parser_getItem(i)
  BY <1>1 DEF parser_getItem, TagOfItem
<1>5. ASSUME NEW i PROVE ItemAnswer(i)' = ItemAnswer(i)
  <2>1. \A e : Displayable(e, Bytes(e))' = Displayable(e, Bytes(e))
    BY <1>3 DEF Displayable, Encodable
  <2>2. QED
    BY <1>1, <1>2, <1>4, <2>1 DEF ItemAnswer, BeyondTags, TagOfItem
<1>6. QED
  BY <1>2, <1>5

\* A transaction read to its end is accepted, or refused.
LEMMA ValidatePInv ==
    ASSUME PInv, parser_validate
    PROVE  PInv'
<1>1. /\ status = "parsed"
      /\ status' \in {"unexpected_error", "ok", "not_displayable"}
      /\ status' = "ok" => \A i \in Items : ItemAnswer(i) = "ok"
      /\ UNCHANGED <<buffer, offset, pos, ptr, len, tags_count, expert, fresh, parses>>
  BY DEF parser_validate
<1>2. AcceptedIsShown'
  BY <1>1, SameAnswers DEF AcceptedIsShown
<1>3. \A m : Done(m)' = Done(m)
  BY <1>1 DEF Done, Reads, Last
<1>4. FreshIsRead'
  BY <1>1, <1>3 DEF PInv, FreshIsRead, Parsing
<1>5. QED
  BY <1>1, <1>2, <1>4 DEF PInv, ParserTypeOK, Errors, ReadsEnd, StaysInBuffer, Last

\* Every step keeps the invariant.
LEMMA NextPInv == PInv /\ [Next]_vars => PInv'
<1> SUFFICES ASSUME PInv, [Next]_vars PROVE PInv'
  OBVIOUS
<1>1. CASE \E data \in Buffers : parser_parse(data)
  BY <1>1, ParsePInv
<1>2. CASE _read
  BY <1>2, TruncatedPInv, ReadPInv, TagsCountPInv DEF _read
<1>3. CASE parser_validate
  BY <1>3, ValidatePInv
<1>4. CASE Restart
  <2>1. ParserTypeOK'
    BY <1>4, LimitsAssumption, U16Bounds DEF Restart, PInv, ParserTypeOK
  <2>2. QED
    BY <1>4, <2>1 DEF Restart, PInv, ReadsEnd, FreshIsRead, StaysInBuffer,
                      AcceptedIsShown, Parsing
<1>5. CASE UNCHANGED vars
  <2>1. /\ \A m : Done(m)' = Done(m)
        /\ UNCHANGED <<buffer, offset, pos, ptr, len, tags_count, status,
                       expert, fresh, parses>>
    BY <1>5 DEF vars, Done, Reads, Last
  <2>2. FreshIsRead' /\ AcceptedIsShown'
    BY <2>1, SameAnswers DEF PInv, FreshIsRead, AcceptedIsShown
  <2>3. QED
    BY <2>1, <2>2 DEF PInv, ParserTypeOK, ReadsEnd, StaysInBuffer, Last
<1>6. QED
  BY <1>1, <1>2, <1>3, <1>4, <1>5 DEF Next

-----------------------------------------------------------------------------
(* The items of the review.                                                *)

\* A data root has a place among the items exactly when it has bytes.
LEMMA RootCounts ==
    ASSUME ParserTypeOK
    PROVE  /\ RootItems \in {0, 1}
           /\ RootItems = 0 <=> Bytes(Field("data_root")) = <<>>
<1> DEFINE r == Field("data_root")
<1>1. r \in Elements
  BY Names DEF Elements
<1> HIDE DEF r
<1>2. len[r] \in Nat
  BY <1>1, U16Bounds DEF ParserTypeOK
<1>3. RootItems = IF len[r] > 0 THEN 1 ELSE 0
  BY DEF RootItems, DATA_ROOT_NUM_UI_ITEMS, r
<1>4. Bytes(r) = <<>> <=> len[r] = 0
  <2>1. DOMAIN Bytes(r) = 1..len[r]
    BY DEF Bytes
  <2>2. CASE len[r] = 0
    <3>1. Bytes(r) = [i \in {} |-> ByteAt(ptr[r] + i)]
      BY <2>2 DEF Bytes
    <3>2. QED
      BY <2>2, <3>1
  <2>3. CASE len[r] # 0
    <3>1. 1 \in DOMAIN Bytes(r)
      BY <1>2, <2>1, <2>3
    <3>2. QED
      BY <2>3, <3>1
  <2>4. QED
    BY <2>2, <2>3
<1>5. QED
  BY <1>2, <1>3, <1>4 DEF r

\* How many items there are.
LEMMA ItemCount ==
    ASSUME ParserTypeOK
    PROVE  /\ expert => Items = 0..(4 + tags_count + RootItems)
           /\ ~expert => Items = 0..3
<1>1. tags_count \in Nat /\ RootItems \in Nat
  BY RootCounts, U16Bounds DEF ParserTypeOK
<1>2. QED
  BY <1>1 DEF Items, _getNumItems, CONST_NUM_UI_ITEMS, DATA_SIZE_NUM_UI_ITEMS

\* What each item displays: four fields of the header and, in expert mode, the
\* size of the data, its root if there is one, and the tags.
LEMMA ItemKinds ==
    ASSUME ParserTypeOK
    PROVE  /\ parser_getItem(0) = {Field("target")}
           /\ parser_getItem(1) = {Field("quantity")}
           /\ parser_getItem(2) = {Field("reward")}
           /\ parser_getItem(3) = {Field("last_tx")}
           /\ parser_getItem(4) = {Field("data_size")}
           /\ RootItems = 1 => parser_getItem(5) = {Field("data_root")}
           /\ \A k \in 1..tags_count :
                 parser_getItem(4 + RootItems + k) = {Key(k), Value(k)}
<1>1. tags_count \in Nat /\ RootItems \in {0, 1}
  BY RootCounts, U16Bounds DEF ParserTypeOK
<1>2. /\ parser_getItem(0) = {Header[3]}
      /\ parser_getItem(1) = {Header[4]}
      /\ parser_getItem(2) = {Header[5]}
      /\ parser_getItem(3) = {Header[6]}
  BY DEF parser_getItem
<1>3. parser_getItem(4) = {Field("data_size")}
  BY DEF parser_getItem
<1>4. RootItems = 1 => parser_getItem(5) = {Field("data_root")}
  BY DEF parser_getItem
<1>5. ASSUME NEW k \in 1..tags_count
      PROVE  parser_getItem(4 + RootItems + k) = {Key(k), Value(k)}
  <2> DEFINE i == 4 + RootItems + k
  <2>1. /\ i \in Nat /\ i > 4 /\ (i = 5 => RootItems = 0)
        /\ TagOfItem(i) = k
    BY <1>1 DEF TagOfItem, CONST_NUM_UI_ITEMS, DATA_SIZE_NUM_UI_ITEMS
  <2> HIDE DEF i
  <2>2. parser_getItem(i) = {Key(TagOfItem(i)), Value(TagOfItem(i))}
    BY <2>1 DEF parser_getItem
  <2>3. QED
    BY <2>1, <2>2 DEF i
<1>6. QED
  BY <1>2, <1>3, <1>4, <1>5, Names

\* Every item is one of those.
LEMMA ItemCases ==
    ASSUME ParserTypeOK, NEW i \in Items
    PROVE  \/ i \in {0, 1, 2, 3}
           \/ expert /\ i = 4
           \/ expert /\ i = 5 /\ RootItems = 1
           \/ expert /\ \E k \in 1..tags_count : i = 4 + RootItems + k
<1>1. tags_count \in Nat /\ RootItems \in {0, 1}
  BY RootCounts, U16Bounds DEF ParserTypeOK
<1>2. CASE ~expert
  BY <1>2, ItemCount
<1>3. CASE expert /\ i > 4 + RootItems
  <2>1. i - 4 - RootItems \in 1..tags_count /\ i = 4 + RootItems + (i - 4 - RootItems)
    BY <1>1, <1>3, ItemCount
  <2>2. QED
    BY <1>3, <2>1
<1>4. CASE expert /\ i <= 4 + RootItems
  BY <1>1, <1>4, ItemCount
<1>5. QED
  BY <1>1, <1>2, <1>3, <1>4, ItemCount

\* Every tag an item is of has its place in the array.
LEMMA NoneBeyond ==
    ASSUME ParserTypeOK, tags_count <= MAX_NUMBER_TAGS, NEW i \in Items
    PROVE  ~BeyondTags(i)
<1>1. tags_count \in Nat /\ RootItems \in {0, 1} /\ MAX_NUMBER_TAGS \in Nat
  BY RootCounts, LimitsAssumption, U16Bounds DEF ParserTypeOK
<1>2. i \in Nat /\ i <= 4 + tags_count + RootItems
  BY <1>1, ItemCount
<1>3. TagOfItem(i) <= tags_count
  BY <1>1, <1>2 DEF TagOfItem, CONST_NUM_UI_ITEMS, DATA_SIZE_NUM_UI_ITEMS
<1>4. TagOfItem(i) \in Int
  BY <1>1, <1>2 DEF TagOfItem, CONST_NUM_UI_ITEMS, DATA_SIZE_NUM_UI_ITEMS
<1>5. QED
  BY <1>1, <1>3, <1>4 DEF BeyondTags

\* A transaction read to its end has no more tags than the array.
LEMMA TagsBounded ==
    ASSUME PInv, status \in {"parsed", "ok"}
    PROVE  tags_count <= MAX_NUMBER_TAGS
<1>1. tags_count \in Nat /\ pos = 9 + 2 * tags_count
  BY U16Bounds DEF PInv, ParserTypeOK, ReadsEnd, Last
<1>2. status \in {"reading", "parsed", "ok"} /\ pos > 6
  BY <1>1
<1>3. QED
  BY <1>2 DEF PInv, ParserTypeOK

\* A transaction read to its end has had all its elements read.
LEMMA AllRead ==
    ASSUME PInv, status = "ok"
    PROVE  Fields \cup TagsUpTo(tags_count) \subseteq fresh
<1>1. tags_count \in Nat /\ pos = 9 + 2 * tags_count /\ fresh = Done(pos)
  BY U16Bounds DEF PInv, ParserTypeOK, ReadsEnd, FreshIsRead, Parsing, Last
<1>2. ASSUME NEW k \in Nat, k < pos, k # 6 PROVE Reads(k) \in fresh
  BY <1>1, <1>2 DEF Done
<1>3. ASSUME NEW k \in 0..5 PROVE Header[k + 1] \in fresh
  BY <1>1, <1>2, ReadOf
<1>4. \A i \in 1..6 : Header[i] \in fresh
  <2> SUFFICES ASSUME NEW i \in 1..6 PROVE Header[i] \in fresh
    OBVIOUS
  <2>1. i - 1 \in 0..5 /\ (i - 1) + 1 = i
    OBVIOUS
  <2>2. QED
    BY <1>3, <2>1
<1>5. Field("data_size") \in fresh /\ Field("data_root") \in fresh
  <2>1. /\ 7 + 2 * tags_count \in Nat /\ 7 + 2 * tags_count < pos
        /\ 8 + 2 * tags_count \in Nat /\ 8 + 2 * tags_count < pos
        /\ 7 + 2 * tags_count # 6 /\ 8 + 2 * tags_count # 6
    BY <1>1
  <2>2. QED
    BY <1>1, <1>2, <2>1, ReadOf
<1>6. ASSUME NEW i \in 1..tags_count PROVE Key(i) \in fresh /\ Value(i) \in fresh
  <2>1. /\ 5 + 2 * i \in Nat /\ 5 + 2 * i < pos /\ 5 + 2 * i # 6
        /\ 6 + 2 * i \in Nat /\ 6 + 2 * i < pos /\ 6 + 2 * i # 6
    BY <1>1
  <2>2. QED
    BY <1>1, <1>2, <2>1, ReadOf
<1>7. Fields \subseteq fresh
  BY <1>4, <1>5, Names DEF Fields
<1>8. QED
  BY <1>6, <1>7 DEF TagsUpTo

\* What the items display is of the transaction.
LEMMA ItemsAreOfTx ==
    ASSUME ParserTypeOK, NEW i \in Items
    PROVE  parser_getItem(i) \subseteq Fields \cup TagsUpTo(tags_count)
<1>1. /\ Field("target") \in Fields /\ Field("quantity") \in Fields
      /\ Field("reward") \in Fields /\ Field("last_tx") \in Fields
      /\ Field("data_size") \in Fields /\ Field("data_root") \in Fields
  BY Names DEF HeaderNames
<1>2. QED
  BY <1>1, ItemCases, ItemKinds DEF TagsUpTo

\* The invariant covers NothingStale.
LEMMA AcceptedIsFreshState == PInv => NothingStale
<1> SUFFICES ASSUME PInv, status = "ok"
             PROVE  /\ \A i \in Items : parser_getItem(i) \subseteq fresh
                    /\ Fields \cup TagsUpTo(tags_count) \subseteq fresh
  BY DEF NothingStale
<1>1. Fields \cup TagsUpTo(tags_count) \subseteq fresh
  BY AllRead
<1>2. ASSUME NEW i \in Items PROVE parser_getItem(i) \subseteq fresh
  BY <1>1, ItemsAreOfTx DEF PInv
<1>3. QED
  BY <1>1, <1>2

ReviewItems == {i \in 0..(MAX_NUMBER_TAGS + 8) : tx_getItem(i) = "ok"}

\* The review of an accepted transaction gets the items there are, one index
\* after the other: the index after the last has no data, though tx_getItem
\* lets it through its first check.
LEMMA ReviewIsItems ==
    ASSUME PInv, status = "ok", expert
    PROVE  /\ ReviewItems = Items
           /\ Items = 0..(Cardinality(Items) - 1)
<1>1. tags_count \in Nat /\ RootItems \in {0, 1} /\ MAX_NUMBER_TAGS \in Nat
  BY RootCounts, LimitsAssumption, U16Bounds DEF PInv, ParserTypeOK
<1>2. tags_count <= MAX_NUMBER_TAGS
  <2>1. pos > 6
    BY <1>1 DEF PInv, ReadsEnd, Last
  <2>2. QED
    BY <2>1 DEF PInv, ParserTypeOK
<1> DEFINE last == 4 + tags_count + RootItems
<1>3. last \in Nat /\ last <= MAX_NUMBER_TAGS + 8
  BY <1>1, <1>2
<1>4. Items = 0..last
  BY ItemCount DEF PInv
<1>5. _getNumItems = last + 1
  BY <1>1 DEF _getNumItems, CONST_NUM_UI_ITEMS, DATA_SIZE_NUM_UI_ITEMS
<1> HIDE DEF last
<1>6. ASSUME NEW i \in Nat PROVE tx_getItem(i) = "ok" <=> i \in Items
  <2>1. i \in Items => tx_getItem(i) = "ok"
    <3> SUFFICES ASSUME i \in Items PROVE tx_getItem(i) = "ok"
      OBVIOUS
    <3>1. ~(i > _getNumItems)
      BY <1>3, <1>4, <1>5
    <3>2. ItemAnswer(i) = "ok"
      BY DEF PInv, AcceptedIsShown
    <3>3. QED
      BY <3>1, <3>2 DEF tx_getItem
  <2>2. i \notin Items => tx_getItem(i) # "ok"
    BY DEF tx_getItem, ItemAnswer
  <2>3. QED
    BY <2>1, <2>2
<1>7. ReviewItems = Items
  BY <1>1, <1>3, <1>4, <1>6 DEF ReviewItems
<1>8. Cardinality(Items) = last + 1
  BY <1>3, <1>4, FS_Interval
<1>9. QED
  BY <1>3, <1>4, <1>7, <1>8

\* What the review leaves out.
NotShown ==
    {Field("format"), Field("owner")} \cup
        {e \in {Field("data_root")} : Bytes(e) = <<>>}

\* The items together are of the whole transaction.
LEMMA ItemsCover ==
    ASSUME ParserTypeOK, expert
    PROVE  UNION {parser_getItem(i) : i \in Items}
               = (Fields \cup TagsUpTo(tags_count)) \ NotShown
<1>1. tags_count \in Nat /\ RootItems \in {0, 1} /\ Items = 0..(4 + tags_count + RootItems)
  BY RootCounts, ItemCount, U16Bounds DEF ParserTypeOK
<1>2. \A e : e \in NotShown <=> \/ e = Field("format") \/ e = Field("owner")
                                \/ RootItems = 0 /\ e = Field("data_root")
  BY RootCounts DEF NotShown
<1>3. ASSUME NEW i \in Items
      PROVE  \A e \in parser_getItem(i) : e \notin NotShown
  <2>1. CASE i \in {0, 1, 2, 3} \/ i = 4
    BY <1>2, <2>1, ItemKinds, Apart
  <2>2. CASE i = 5 /\ RootItems = 1
    BY <1>2, <2>2, ItemKinds, Apart
  <2>3. CASE \E k \in 1..tags_count : i = 4 + RootItems + k
    <3>1. PICK k \in 1..tags_count : i = 4 + RootItems + k
      BY <2>3
    <3>2. parser_getItem(i) = {Key(k), Value(k)} /\ k # 0
      BY <1>1, <3>1, ItemKinds
    <3>3. QED
      BY <1>2, <3>2, Apart
  <2>4. QED
    BY <2>1, <2>2, <2>3, ItemCases
<1>4. ASSUME NEW e \in Fields \cup TagsUpTo(tags_count), e \notin NotShown
      PROVE  \E i \in Items : e \in parser_getItem(i)
  <2>1. CASE e \in Fields
    <3>1. \/ e = Field("target") \/ e = Field("quantity") \/ e = Field("reward")
          \/ e = Field("last_tx") \/ e = Field("data_size")
          \/ e = Field("data_root") /\ RootItems = 1
      BY <1>1, <1>2, <1>4, <2>1, Names DEF HeaderNames
    <3>2. 0 \in Items /\ 1 \in Items /\ 2 \in Items /\ 3 \in Items /\ 4 \in Items
      BY <1>1
    <3>3. RootItems = 1 => 5 \in Items
      BY <1>1
    <3>4. QED
      BY <3>1, <3>2, <3>3, ItemKinds
  <2>2. CASE e \in TagsUpTo(tags_count)
    <3>1. PICK k \in 1..tags_count : e = Key(k) \/ e = Value(k)
      BY <2>2 DEF TagsUpTo
    <3>2. 4 + RootItems + k \in Items
      BY <1>1
    <3>3. QED
      BY <3>1, <3>2, ItemKinds
  <2>3. QED
    BY <2>1, <2>2
<1>5. QED
  BY <1>3, <1>4, ItemsAreOfTx

\* No two items are of the same element.
LEMMA ItemsApart ==
    ASSUME ParserTypeOK, NEW i \in Items, NEW j \in Items, i # j
    PROVE  parser_getItem(i) \cap parser_getItem(j) = {}
<1>1. tags_count \in Nat /\ RootItems \in {0, 1}
  BY RootCounts, U16Bounds DEF ParserTypeOK
<1> DEFINE Shows(n, name) == n \in Nat /\ parser_getItem(n) = {Field(name)}
           Tag(n) == \E k \in 1..tags_count :
                        n = 4 + RootItems + k /\ parser_getItem(n) = {Key(k), Value(k)}
<1>2. ASSUME NEW n \in Items
      PROVE  \/ n = 0 /\ Shows(n, "target")
             \/ n = 1 /\ Shows(n, "quantity")
             \/ n = 2 /\ Shows(n, "reward")
             \/ n = 3 /\ Shows(n, "last_tx")
             \/ n = 4 /\ Shows(n, "data_size")
             \/ n = 5 /\ Shows(n, "data_root")
             \/ Tag(n)
  BY ItemCases, ItemKinds
<1>3. CASE Tag(i) /\ Tag(j)
  BY <1>1, <1>3, Apart
<1>4. CASE Tag(i) /\ ~Tag(j)
  <2>1. PICK name : Shows(j, name)
    BY <1>2, <1>4
  <2>2. QED
    BY <1>4, <2>1, Apart
<1>5. CASE ~Tag(i) /\ Tag(j)
  <2>1. PICK name : Shows(i, name)
    BY <1>2, <1>5
  <2>2. QED
    BY <1>5, <2>1, Apart
<1>6. CASE ~Tag(i) /\ ~Tag(j)
  <2>1. PICK m, n : Shows(i, m) /\ Shows(j, n) /\ m # n
    BY <1>2, <1>6
  <2>2. QED
    BY <2>1, Apart
<1>7. QED
  BY <1>3, <1>4, <1>5, <1>6

\* A product grows with its factor.
LEMMA TimesMonotone ==
    ASSUME NEW a \in Nat, NEW b \in Nat, NEW P \in Nat, a <= b
    PROVE  a * P <= b * P
<1>1. (b - a) * P \in Nat
  OBVIOUS
<1>2. b * P = a * P + (b - a) * P
  OBVIOUS
<1>3. QED
  BY <1>1, <1>2

\* The pages eight bits can count hold a text exactly when it fits 255 of them.
LEMMA PagesCounted ==
    ASSUME NEW n \in Nat, NEW P \in Nat \ {0}, NEW p, p = (n + P - 1) \div P
    PROVE  n <= (p % 256) * P <=> n <= 255 * P
<1>1. /\ p \in Nat
      /\ p * P <= n + P - 1
      /\ n + P - 1 < p * P + P
  OBVIOUS
<1>2. p % 256 \in Nat /\ p % 256 <= 255
  BY <1>1
<1>3. (p % 256) * P <= 255 * P
  BY <1>2, TimesMonotone
<1>4. ASSUME n <= 255 * P PROVE n <= (p % 256) * P
  <2>1. p <= 255
    <3>1. SUFFICES ASSUME p >= 256 PROVE FALSE
      BY <1>1
    <3>2. 256 * P <= p * P
      BY <1>1, <3>1, TimesMonotone
    <3>3. QED
      BY <1>1, <1>4, <3>2
  <2>2. p % 256 = p
    BY <1>1, <2>1
  <2>3. n <= p * P
    BY <1>1
  <2>4. QED
    BY <2>2, <2>3
<1>5. (p % 256) * P \in Nat /\ 255 * P \in Nat
  BY <1>2
<1>6. QED
  BY <1>3, <1>4, <1>5

\* An element is printed whole exactly when it is legible.
LEMMA WholeIfLegible ==
    ASSUME NEW e, NEW s, Len(s) \in Nat
    PROVE  Displayed(e, s) = 1..Len(s) <=> Legible(e, s)
<1> DEFINE all == 1..Len(s)
           most == (((Len(s) + PAGE_LEN - 1) \div PAGE_LEN) % (MAX_PAGES + 1)) * PAGE_LEN
           NoZero == \A i \in all : s[i] # 0
<1>1. most \in Nat /\ (Len(s) <= most <=> Len(s) <= MAX_PAGES * PAGE_LEN)
  <2> DEFINE p == (Len(s) + PAGE_LEN - 1) \div PAGE_LEN
  <2>1. p \in Nat /\ PAGE_LEN \in Nat \ {0}
    BY LimitsAssumption
  <2>2. MAX_PAGES = 255 /\ MAX_PAGES + 1 = 256
    BY DEF MAX_PAGES
  <2>3. Len(s) <= (p % 256) * PAGE_LEN <=> Len(s) <= 255 * PAGE_LEN
    BY <2>1, PagesCounted
  <2>4. (p % 256) * PAGE_LEN \in Nat
    <3> HIDE DEF p
    <3>1. QED
      BY <2>1
  <2>5. QED
    BY <2>2, <2>3, <2>4
<1>2. CString(s) \subseteq all /\ (CString(s) = all <=> NoZero)
  <2>1. \A i \in all : i \in 1..i /\ 1..i \subseteq all
    OBVIOUS
  <2>2. QED
    BY <2>1, Zenon DEF CString
<1>3. Paged(s) \subseteq all
  BY DEF Paged
<1> HIDE DEF most
<1>4. Paged(s) = all <=> NoZero /\ Len(s) <= most
  <2>1. ASSUME Paged(s) = all PROVE NoZero /\ Len(s) <= most
    <3>1. \A i \in all : i \in 1..i /\ i <= most
      BY <2>1 DEF Paged, most
    <3>2. \A i \in all : s[i] # 0
      BY <2>1, <3>1 DEF Paged
    <3>3. Len(s) <= most
      BY <1>1, <3>1
    <3>4. QED
      BY <3>2, <3>3
  <2>2. ASSUME NoZero, Len(s) <= most PROVE Paged(s) = all
    <3>1. ASSUME NEW i \in all PROVE i \in Paged(s)
      <4>1. i <= most
        BY <1>1, <2>2
      <4>2. \A j \in 1..i : s[j] # 0
        BY <2>2
      <4>3. QED
        BY <4>1, <4>2 DEF Paged, most
    <3>2. QED
      BY <1>3, <3>1
  <2>3. QED
    BY <2>1, <2>2
<1>5. {i \in CString(s) : i < KEY_LEN} = all <=> NoZero /\ Len(s) < KEY_LEN
  <2>1. ASSUME {i \in CString(s) : i < KEY_LEN} = all PROVE NoZero /\ Len(s) < KEY_LEN
    <3>1. CString(s) = all
      BY <1>2, <2>1
    <3>2. \A i \in all : i < KEY_LEN
      BY <2>1
    <3>3. Len(s) = 0 \/ Len(s) \in all
      OBVIOUS
    <3>4. Len(s) < KEY_LEN
      BY <3>2, <3>3, LimitsAssumption
    <3>5. QED
      BY <1>2, <3>1, <3>4
  <2>2. ASSUME NoZero, Len(s) < KEY_LEN PROVE {i \in CString(s) : i < KEY_LEN} = all
    BY <1>2, <2>2, LimitsAssumption
  <2>3. QED
    BY <2>1, <2>2
<1> HIDE DEF all, NoZero
<1>6. CASE e[1] = "key"
  BY <1>5, <1>6 DEF Displayed, Legible, all, NoZero
<1>7. CASE e[1] \in {"quantity", "data_size"}
  BY <1>2, <1>7 DEF Displayed, Legible, all, NoZero
<1>8. CASE e[1] \in {"reward", "value"}
  BY <1>1, <1>4, <1>8 DEF Displayed, Legible, all, NoZero
<1>9. CASE e[1] \notin {"key", "quantity", "data_size", "reward", "value"}
  BY <1>9 DEF Displayed, Legible
<1>10. QED
  BY <1>6, <1>7, <1>8, <1>9

\* The invariant covers ReviewCoversTransaction.
LEMMA ReviewCoversState == PInv => ReviewCoversTransaction
<1> SUFFICES ASSUME PInv, status = "ok", expert
             PROVE  /\ ReviewItems = 0..(Cardinality(ReviewItems) - 1)
                    /\ UNION {parser_getItem(i) : i \in ReviewItems}
                           = (Fields \cup TagsUpTo(tags_count)) \ NotShown
                    /\ \A i, j \in ReviewItems : i # j =>
                           parser_getItem(i) \cap parser_getItem(j) = {}
                    /\ \A e \in UNION {parser_getItem(i) : i \in ReviewItems} :
                           Displayed(e, Bytes(e)) = 1..len[e] <=> Legible(e, Bytes(e))
  BY DEF ReviewCoversTransaction, ReviewItems, NotShown
<1>1. ReviewItems = Items /\ Items = 0..(Cardinality(Items) - 1)
  BY ReviewIsItems
<1>2. ParserTypeOK
  BY DEF PInv
<1>3. UNION {parser_getItem(i) : i \in Items}
          = (Fields \cup TagsUpTo(tags_count)) \ NotShown
  BY <1>2, ItemsCover
<1>4. \A i, j \in Items : i # j => parser_getItem(i) \cap parser_getItem(j) = {}
  BY <1>2, ItemsApart
<1>5. ASSUME NEW e \in UNION {parser_getItem(i) : i \in Items}
      PROVE  Displayed(e, Bytes(e)) = 1..len[e] <=> Legible(e, Bytes(e))
  <2>1. e \in Fields \cup TagsUpTo(tags_count)
    BY <1>3
  <2>2. tags_count \in Nat /\ MAX_NUMBER_TAGS \in Nat /\ tags_count <= MAX_NUMBER_TAGS
    BY <1>2, TagsBounded, LimitsAssumption, U16Bounds DEF ParserTypeOK
  <2>3. e \in Elements
    BY <2>1, <2>2 DEF Elements, TagsUpTo
  <2>4. len[e] \in Nat
    BY <1>2, <2>3, U16Bounds DEF ParserTypeOK
  <2>5. Len(Bytes(e)) = len[e]
    BY <2>4 DEF Bytes
  <2> DEFINE s == Bytes(e)
  <2> HIDE DEF s
  <2>6. Len(s) \in Nat /\ Len(s) = len[e]
    BY <2>4, <2>5 DEF s
  <2>7. Displayed(e, s) = 1..Len(s) <=> Legible(e, s)
    BY <2>6, WholeIfLegible
  <2>8. QED
    BY <2>6, <2>7 DEF s
<1>6. QED
  BY <1>1, <1>3, <1>4, <1>5

-----------------------------------------------------------------------------
(* The theorems.                                                           *)

\* The parser, whatever it is given, keeps the invariant (tx_parse).
THEOREM ParserInvariance == Spec => []PInv
BY InitPInv, NextPInv, PTL DEF Spec

\* parser_tx_obj keeps its type, and an accepted count of tags stays within the
\* array of tags (_read).
THEOREM ParserTypeCorrect == Spec => []ParserTypeOK
<1>1. PInv => ParserTypeOK
  BY DEF PInv
<1>2. QED
  BY <1>1, ParserInvariance, PTL

\* Reading stays inside the transaction, for every buffer of bytes
\* (parser_readElement, parser_readU16).
THEOREM ReadsInside == Spec => []StaysInBuffer
<1>1. PInv => StaysInBuffer
  BY DEF PInv
<1>2. QED
  BY <1>1, ParserInvariance, PTL

\* What an accepted transaction shows and hashes was read from it, however many
\* parses stopped half way before, though parser_tx_obj is never cleared.
THEOREM AcceptedIsFresh == Spec => []NothingStale
BY AcceptedIsFreshState, ParserInvariance, PTL

\* In expert mode the review of an accepted transaction reaches every element
\* once, for every number of tags up to the limit, and prints it whole exactly
\* when it is legible: what is not is cut without an error (_getNumItems,
\* parser_getItem, tx_getItem, parser_printTag, parser_printSize).
THEOREM ReviewCoversAll == Spec => []ReviewCoversTransaction
BY ReviewCoversState, ParserInvariance, PTL
=============================================================================
