----------------------------- MODULE B64Url_proofs -----------------------------
(***************************************************************************)
(* b64url_encode computes base64 for every input, and stays within the     *)
(* output buffer.                                                          *)
(*                                                                         *)
(* The invariant says what the carry is: with i = 3g + r bytes read, the   *)
(* last 2r bits of the last byte, and 4g + r characters are written.  Each *)
(* proof about a step is then a case distinction on r.                     *)
(***************************************************************************)
EXTENDS B64Url, TLAPS

\* The characters written so far are base64's.
Correct == \A k \in 1..Len(out) : out[k] = Reference(in, k)

\* In the loop.
Carried ==
    status = "encoding" =>
        \E g \in Nat, r \in 0..2 :
            /\ i = 3 * g + r
            /\ Len(out) = 4 * g + r
            /\ carry_count = 2 * r
            /\ carry_value = IF r = 0 THEN 0 ELSE in[i] % Pow2(2 * r)
            /\ minimumBufferSize(Len(in)) <= outlen

\* Outside the loop.
Ended ==
    /\ status = "done" => /\ Len(out) = ReferenceLen(Len(in))
                          /\ ReferenceLen(Len(in)) <= outlen
    /\ status = "refused" => ReferenceLen(Len(in)) > outlen
    /\ status \in {"idle", "refused"} => out = <<>>

IInv == EncoderTypeOK /\ Correct /\ Carried /\ Ended

-----------------------------------------------------------------------------
(* Facts about the reference.                                              *)

\* The check of the room counts exactly the characters of the encoding.
LEMMA RoomIsExact ==
    ASSUME NEW n \in Nat PROVE minimumBufferSize(n) = ReferenceLen(n)
BY DEF minimumBufferSize, ReferenceLen

\* The four characters of a group.
LEMMA Groups ==
    ASSUME NEW s, NEW g \in Nat
    PROVE  /\ Reference(s, 4 * g + 1) = First(s, g)
           /\ Reference(s, 4 * g + 2) = Second(s, g)
           /\ Reference(s, 4 * g + 3) = Third(s, g)
           /\ Reference(s, 4 * g + 4) = Fourth(s, g)
<1>1. /\ (4 * g + 1 - 1) \div 4 = g /\ (4 * g + 1 - 1) % 4 = 0
      /\ (4 * g + 2 - 1) \div 4 = g /\ (4 * g + 2 - 1) % 4 = 1
      /\ (4 * g + 3 - 1) \div 4 = g /\ (4 * g + 3 - 1) % 4 = 2
      /\ (4 * g + 4 - 1) \div 4 = g /\ (4 * g + 4 - 1) % 4 = 3
  OBVIOUS
<1>2. QED
  BY <1>1 DEF Reference

\* Powers of two that occur.
LEMMA Powers ==
    Pow2(0) = 1 /\ Pow2(2) = 4 /\ Pow2(4) = 16 /\ Pow2(6) = 64 /\ Pow2(8) = 256
BY DEF Pow2

\* The parts a byte is cut into.
LEMMA Parts ==
    ASSUME NEW c \in Byte, NEW d \in Byte
    PROVE  /\ c \div 4 \in Sextet /\ c % 64 \in Sextet
           /\ c % 4 \in 0..3 /\ c % 16 \in 0..15
           /\ c \div 16 \in 0..15 /\ c \div 64 \in 0..3
           /\ (d % 4) * 16 + (c \div 16) \in Sextet
           /\ (d % 16) * 4 + (c \div 64) \in Sextet
           /\ ((d % 4) * 16) % 256 = (d % 4) * 16
           /\ ((d % 16) * 4) % 256 = (d % 16) * 4
BY DEF Byte, Sextet

\* The bits of the last byte, padded with zeros.
LEMMA Padded ==
    ASSUME NEW d \in Byte
    PROVE  /\ (d % 4) * 16 \in Sextet
           /\ (d % 16) * 4 \in Sextet
           /\ (d % 4) * 16 + (0 \div 16) = (d % 4) * 16
           /\ (d % 16) * 4 + (0 \div 64) = (d % 16) * 4
<1>1. d % 4 \in 0..3 /\ d % 16 \in 0..15
  BY Parts
<1>2. 0 \div 16 = 0 /\ 0 \div 64 = 0
  OBVIOUS
<1>3. QED
  BY <1>1, <1>2 DEF Sextet

\* A correct character appended to correct characters.
LEMMA AppendCorrect ==
    ASSUME NEW b, NEW s \in Seq(Sextet), NEW x \in Sextet,
           \A k \in 1..Len(s) : s[k] = Reference(b, k),
           x = Reference(b, Len(s) + 1)
    PROVE  /\ Append(s, x) \in Seq(Sextet)
           /\ Len(Append(s, x)) = Len(s) + 1
           /\ \A k \in 1..Len(Append(s, x)) : Append(s, x)[k] = Reference(b, k)
OBVIOUS

-----------------------------------------------------------------------------

\* An encoder that has not been called.
LEMMA InitIInv == Init => IInv
BY Powers DEF Init, IInv, EncoderTypeOK, Correct, Carried, Ended

\* A call starts from nothing, or is refused for want of room.
LEMMA CallIInv ==
    ASSUME IInv, NEW data \in Inputs, NEW room \in OutLens,
           b64url_encode(data, room)
    PROVE  IInv'
<1>1. data \in Seq(Byte) /\ room \in Nat /\ Len(data) \in Nat
  BY InputsAssumption, OutLensAssumption
<1>2. EncoderTypeOK'
  BY <1>1, Powers DEF b64url_encode, EncoderTypeOK
<1>3. out' = <<>> /\ Correct'
  BY DEF b64url_encode, Correct
<1>4. Carried'
  <2>1. SUFFICES ASSUME status' = "encoding"
                 PROVE  /\ i' = 3 * 0 + 0
                        /\ Len(out') = 4 * 0 + 0
                        /\ carry_count' = 2 * 0
                        /\ carry_value' = 0
                        /\ minimumBufferSize(Len(in')) <= outlen'
    BY DEF Carried
  <2>2. minimumBufferSize(Len(data)) \in Nat
    BY <1>1 DEF minimumBufferSize
  <2>3. QED
    BY <1>1, <2>1, <2>2 DEF b64url_encode
<1>5. Ended'
  BY <1>1, <1>3, RoomIsExact DEF b64url_encode, Ended
<1>6. QED
  BY <1>2, <1>3, <1>4, <1>5 DEF IInv

\* A byte keeps the invariant, wherever in its group it is.
LEMMA EncodeByteIInv ==
    ASSUME IInv, EncodeByte
    PROVE  IInv'
<1> DEFINE c == in[i + 1]
<1> USE Powers
<1>1. /\ in \in Seq(Byte) /\ Len(in) \in Nat /\ outlen \in Nat
      /\ i \in Nat /\ i + 1 <= Len(in) /\ i' = i + 1
      /\ c \in Byte
      /\ in' = in /\ outlen' = outlen /\ status = "encoding"
      /\ status' = "encoding"
      /\ out \in Seq(Sextet)
  BY DEF IInv, EncoderTypeOK, EncodeByte
<1>2. PICK g \in Nat, r \in 0..2 :
          /\ i = 3 * g + r
          /\ Len(out) = 4 * g + r
          /\ carry_count = 2 * r
          /\ carry_value = IF r = 0 THEN 0 ELSE in[i] % Pow2(2 * r)
          /\ minimumBufferSize(Len(in)) <= outlen
  BY <1>1 DEF IInv, Carried
<1>3. \A k \in 1..Len(out) : out[k] = Reference(in, k)
  BY DEF IInv, Correct
<1>4. c \in Byte
  BY <1>1
<1>5. Ended'
  BY <1>1 DEF Ended
<1>6. CASE r = 0
  <2>1. carry_count = 0 /\ carry_value = 0 /\ shift = 6
    BY <1>2, <1>6 DEF shift
  <2>2. idx(c) = c \div 4 /\ Carry(c) = c % 4
    <3>1. c \div 4 \in 0..63
      BY ONLY <1>4, Parts DEF Sextet
    <3>2. idx(c) = ((0 * 64) % 256) + (c \div 4)
      BY <2>1 DEF idx
    <3>3. Carry(c) = c % 4
      BY <2>1 DEF Carry
    <3>4. QED
      BY <3>1, <3>2, <3>3
  <2>3. out' = Append(out, c \div 4) /\ carry_count' = 2 /\ carry_value' = c % 4
    BY <2>1, <2>2 DEF EncodeByte
  <2>4. c \div 4 = Reference(in, Len(out) + 1) /\ c \div 4 \in Sextet
    <3>1. i + 1 = 3 * g + 1 /\ Len(out) + 1 = 4 * g + 1
      BY <1>2, <1>6
    <3>2. Reference(in, 4 * g + 1) = First(in, g)
      BY Groups
    <3>3. First(in, g) = c \div 4
      BY <1>1, <3>1 DEF First, At
    <3>4. c \div 4 \in Sextet
      BY ONLY <1>4, Parts
    <3>5. QED
      BY <3>1, <3>2, <3>3, <3>4
  <2>5. /\ out' \in Seq(Sextet)
        /\ Len(out') = Len(out) + 1
        /\ Correct'
    BY <1>1, <1>3, <2>3, <2>4, AppendCorrect DEF Correct
  <2>6. EncoderTypeOK'
    <3>1. c % 4 \in 0..3
      BY ONLY <1>4, Parts
    <3>2. QED
      BY <1>1, <2>3, <2>5, <3>1 DEF EncoderTypeOK
  <2>7. Carried'
    <3>1. i' = 3 * g + 1 /\ Len(out') = 4 * g + 1
      BY <1>1, <1>2, <1>6, <2>5
    <3>2. carry_count' = 2 * 1 /\ carry_value' = in'[i'] % Pow2(2 * 1)
      BY <1>1, <2>3
    <3>3. minimumBufferSize(Len(in')) <= outlen' /\ 1 \in 0..2 /\ 1 # 0
      BY <1>1, <1>2
    <3>4. \E h \in Nat, q \in 0..2 :
              /\ i' = 3 * h + q /\ Len(out') = 4 * h + q /\ carry_count' = 2 * q
              /\ carry_value' = IF q = 0 THEN 0 ELSE in'[i'] % Pow2(2 * q)
              /\ minimumBufferSize(Len(in')) <= outlen'
      BY ONLY <3>1, <3>2, <3>3, Zenon
    <3>5. QED
      BY ONLY <3>4 DEF Carried
  <2>8. QED
    BY <1>5, <2>5, <2>6, <2>7 DEF IInv
<1>7. CASE r = 1
  <2> DEFINE d == in[i]
             x == (d % 4) * 16 + (c \div 16)
  <2>1. /\ carry_count = 2 /\ carry_value = d % 4 /\ shift = 4
        /\ d \in Byte
    BY <1>1, <1>2, <1>7 DEF shift
  <2>2. idx(c) = x /\ Carry(c) = c % 16 /\ x \in Sextet
    <3>1. d \in Byte
      BY <2>1
    <3>2. ((d % 4) * 16) % 256 = (d % 4) * 16 /\ x \in Sextet
      BY ONLY <1>4, <3>1, Parts
    <3>3. idx(c) = (((d % 4) * 16) % 256) + (c \div 16)
      BY <2>1 DEF idx
    <3>4. Carry(c) = c % 16
      BY <2>1 DEF Carry
    <3>5. QED
      BY <3>2, <3>3, <3>4
  <2>3. out' = Append(out, x) /\ carry_count' = 4 /\ carry_value' = c % 16
    BY <2>1, <2>2 DEF EncodeByte
  <2>4. x = Reference(in, Len(out) + 1)
    <3>1. i = 3 * g + 1 /\ i + 1 = 3 * g + 2 /\ Len(out) + 1 = 4 * g + 2
      BY <1>2, <1>7
    <3>2. Reference(in, 4 * g + 2) = Second(in, g)
      BY Groups
    <3>3. Second(in, g) = x
      BY <1>1, <3>1 DEF Second, At
    <3>4. QED
      BY <3>1, <3>2, <3>3
  <2>5. /\ out' \in Seq(Sextet)
        /\ Len(out') = Len(out) + 1
        /\ Correct'
    BY <1>1, <1>3, <2>2, <2>3, <2>4, AppendCorrect DEF Correct
  <2>6. EncoderTypeOK'
    <3>1. c % 16 \in 0..15
      BY ONLY <1>4, Parts
    <3>2. Pow2(4) - 1 = 15
      BY DEF Pow2
    <3>3. carry_value' \in 0..(Pow2(4) - 1) /\ carry_count' = 4
      <4>1. carry_value' = c % 16 /\ carry_count' = 4
        BY <2>3
      <4>2. QED
        BY ONLY <3>1, <3>2, <4>1
    <3>4. QED
      BY <1>1, <2>5, <3>3 DEF EncoderTypeOK
  <2>7. Carried'
    <3>1. i' = 3 * g + 2 /\ Len(out') = 4 * g + 2
      BY <1>1, <1>2, <1>7, <2>5
    <3>2. carry_count' = 2 * 2 /\ carry_value' = in'[i'] % Pow2(2 * 2)
      BY <1>1, <2>3
    <3>3. minimumBufferSize(Len(in')) <= outlen' /\ 2 \in 0..2 /\ 2 # 0
      BY <1>1, <1>2
    <3>4. \E h \in Nat, q \in 0..2 :
              /\ i' = 3 * h + q /\ Len(out') = 4 * h + q /\ carry_count' = 2 * q
              /\ carry_value' = IF q = 0 THEN 0 ELSE in'[i'] % Pow2(2 * q)
              /\ minimumBufferSize(Len(in')) <= outlen'
      BY ONLY <3>1, <3>2, <3>3, Zenon
    <3>5. QED
      BY ONLY <3>4 DEF Carried
  <2>8. QED
    BY <1>5, <2>5, <2>6, <2>7 DEF IInv
<1>8. CASE r = 2
  <2> DEFINE d == in[i]
             x == (d % 16) * 4 + (c \div 64)
  <2>1. /\ carry_count = 4 /\ carry_value = d % 16 /\ shift = 2
        /\ d \in Byte
    BY <1>1, <1>2, <1>8 DEF shift
  <2>2. idx(c) = x /\ Carry(c) = c % 64 /\ x \in Sextet /\ c % 64 \in Sextet
    <3>1. d \in Byte
      BY <2>1
    <3>2. ((d % 16) * 4) % 256 = (d % 16) * 4 /\ x \in Sextet
      BY ONLY <1>4, <3>1, Parts
    <3>3. c % 64 \in Sextet
      BY ONLY <1>4, Parts
    <3>4. idx(c) = (((d % 16) * 4) % 256) + (c \div 64)
      BY <2>1 DEF idx
    <3>5. Carry(c) = c % 64
      BY <2>1 DEF Carry
    <3>6. QED
      BY <3>2, <3>3, <3>4, <3>5
  <2>3. /\ out' = Append(Append(out, x), c % 64)
        /\ carry_count' = 0 /\ carry_value' = 0
    <3>1. carry_count + 2 = 6 /\ ~(carry_count + 2 < 6)
      BY <2>1
    <3>2. out' = Append(Append(out, idx(c)), Carry(c)) /\ carry_count' = 0 /\ carry_value' = 0
      BY <3>1 DEF EncodeByte
    <3>3. QED
      BY <2>2, <3>2
  <2>4. /\ x = Reference(in, Len(out) + 1)
        /\ c % 64 = Reference(in, Len(out) + 2)
    <3>1. /\ i = 3 * g + 2 /\ i + 1 = 3 * g + 3
          /\ Len(out) + 1 = 4 * g + 3 /\ Len(out) + 2 = 4 * g + 4
      BY <1>2, <1>8
    <3>2. Reference(in, 4 * g + 3) = Third(in, g) /\ Reference(in, 4 * g + 4) = Fourth(in, g)
      BY Groups
    <3>3. Third(in, g) = x /\ Fourth(in, g) = c % 64
      BY <1>1, <3>1 DEF Third, Fourth, At
    <3>4. QED
      BY <3>1, <3>2, <3>3
  <2> DEFINE o == Append(out, x)
  <2>5. /\ o \in Seq(Sextet)
        /\ Len(o) = Len(out) + 1
        /\ \A k \in 1..Len(o) : o[k] = Reference(in, k)
    BY <1>1, <1>3, <2>2, <2>4, AppendCorrect
  <2>6. Len(o) + 1 = Len(out) + 2 /\ out' = Append(o, c % 64)
    BY <1>1, <2>3, <2>5
  <2> HIDE DEF o, x
  <2>7. /\ out' \in Seq(Sextet)
        /\ Len(out') = Len(out) + 2
        /\ Correct'
    BY <1>1, <2>2, <2>4, <2>5, <2>6, AppendCorrect DEF Correct
  <2>8. EncoderTypeOK'
    BY <1>1, <2>3, <2>7 DEF EncoderTypeOK
  <2>9. Carried'
    <3>1. i' = 3 * (g + 1) + 0 /\ Len(out') = 4 * (g + 1) + 0
      BY <1>1, <1>2, <1>8, <2>7
    <3>2. carry_count' = 2 * 0 /\ carry_value' = 0
      BY <2>3
    <3>3. g + 1 \in Nat /\ 0 \in 0..2
      OBVIOUS
    <3>4. QED
      BY <1>1, <1>2, <3>1, <3>2, <3>3 DEF Carried
  <2>10. QED
    BY <1>5, <2>7, <2>8, <2>9 DEF IInv
<1>9. QED
  BY <1>6, <1>7, <1>8

\* The last character, if any, has the bits left over and zeros.
LEMMA FinishIInv ==
    ASSUME IInv, Finish
    PROVE  IInv'
<1> USE Powers
<1>1. /\ in \in Seq(Byte) /\ Len(in) \in Nat /\ i = Len(in)
      /\ in' = in /\ outlen' = outlen /\ i' = i
      /\ carry_count' = carry_count /\ carry_value' = carry_value
      /\ status = "encoding" /\ status' = "done"
      /\ out \in Seq(Sextet)
  BY DEF IInv, EncoderTypeOK, Finish
<1>2. PICK g \in Nat, r \in 0..2 :
          /\ i = 3 * g + r
          /\ Len(out) = 4 * g + r
          /\ carry_count = 2 * r
          /\ carry_value = IF r = 0 THEN 0 ELSE in[i] % Pow2(2 * r)
          /\ minimumBufferSize(Len(in)) <= outlen
  BY <1>1 DEF IInv, Carried
<1>3. \A k \in 1..Len(out) : out[k] = Reference(in, k)
  BY DEF IInv, Correct
<1>4. ReferenceLen(Len(in)) <= outlen
  BY <1>1, <1>2, RoomIsExact
<1>5. SUFFICES /\ out' \in Seq(Sextet)
               /\ Correct'
               /\ Len(out') = ReferenceLen(Len(in))
  <2>1. Carried'
    BY <1>1 DEF Carried
  <2>2. ASSUME out' \in Seq(Sextet) PROVE EncoderTypeOK'
    BY <1>1, <2>2 DEF IInv, EncoderTypeOK
  <2>3. ASSUME Len(out') = ReferenceLen(Len(in)) PROVE Ended'
    BY <1>1, <1>4, <2>3 DEF Ended
  <2>4. QED
    BY <2>1, <2>2, <2>3 DEF IInv
<1>6. CASE r = 0
  <2>1. carry_count = 0
    BY <1>2, <1>6
  <2>2. out' = out
    BY <2>1 DEF Finish
  <2>3. Len(out) = ReferenceLen(Len(in))
    BY <1>1, <1>2, <1>6 DEF ReferenceLen
  <2>4. QED
    BY <1>1, <1>3, <2>2, <2>3 DEF Correct
<1>7. CASE r = 1
  <2> DEFINE x == (in[i] % 4) * 16
  <2>1. in[i] \in Byte
    <3>1. i \in 1..Len(in)
      BY <1>1, <1>2, <1>7
    <3>2. QED
      BY <1>1, <3>1
  <2>2. x \in Sextet
    BY <2>1, Padded
  <2>3. out' = Append(out, x)
    <3>1. carry_count = 2 /\ carry_value = in[i] % 4
      BY <1>2, <1>7
    <3>2. QED
      BY <3>1 DEF Finish
  <2>4. x = Reference(in, Len(out) + 1)
    <3>1. i = 3 * g + 1 /\ ~(3 * g + 2 <= Len(in)) /\ Len(out) + 1 = 4 * g + 2
      BY <1>1, <1>2, <1>7
    <3>2. Reference(in, 4 * g + 2) = Second(in, g)
      BY Groups
    <3>3. Second(in, g) = (in[i] % 4) * 16 + (0 \div 16)
      BY <1>1, <3>1 DEF Second, At
    <3>4. QED
      BY <2>1, <3>1, <3>2, <3>3, Padded
  <2>5. Len(out) + 1 = ReferenceLen(Len(in))
    BY <1>1, <1>2, <1>7 DEF ReferenceLen
  <2> HIDE DEF x
  <2>6. QED
    BY <1>1, <1>3, <2>2, <2>3, <2>4, <2>5, AppendCorrect DEF Correct
<1>8. CASE r = 2
  <2> DEFINE x == (in[i] % 16) * 4
  <2>1. in[i] \in Byte
    <3>1. i \in 1..Len(in)
      BY <1>1, <1>2, <1>8
    <3>2. QED
      BY <1>1, <3>1
  <2>2. x \in Sextet
    BY <2>1, Padded
  <2>3. out' = Append(out, x)
    <3>1. carry_count = 4 /\ carry_value = in[i] % 16
      BY <1>2, <1>8
    <3>2. QED
      BY <3>1 DEF Finish
  <2>4. x = Reference(in, Len(out) + 1)
    <3>1. i = 3 * g + 2 /\ ~(3 * g + 3 <= Len(in)) /\ Len(out) + 1 = 4 * g + 3
      BY <1>1, <1>2, <1>8
    <3>2. Reference(in, 4 * g + 3) = Third(in, g)
      BY Groups
    <3>3. Third(in, g) = (in[i] % 16) * 4 + (0 \div 64)
      BY <1>1, <3>1 DEF Third, At
    <3>4. QED
      BY <2>1, <3>1, <3>2, <3>3, Padded
  <2>5. Len(out) + 1 = ReferenceLen(Len(in))
    BY <1>1, <1>2, <1>8 DEF ReferenceLen
  <2> HIDE DEF x
  <2>6. QED
    BY <1>1, <1>3, <2>2, <2>3, <2>4, <2>5, AppendCorrect DEF Correct
<1>9. QED
  BY <1>6, <1>7, <1>8

\* Every step keeps the invariant.
LEMMA NextIInv == IInv /\ [Next]_vars => IInv'
<1> SUFFICES ASSUME IInv, [Next]_vars PROVE IInv'
  OBVIOUS
<1>1. CASE \E data \in Inputs, room \in OutLens : b64url_encode(data, room)
  BY <1>1, CallIInv
<1>2. CASE EncodeByte
  BY <1>2, EncodeByteIInv
<1>3. CASE Finish
  BY <1>3, FinishIInv
<1>4. CASE UNCHANGED vars
  BY <1>4 DEF vars, IInv, EncoderTypeOK, Correct, Carried, Ended
<1>5. QED
  BY <1>1, <1>2, <1>3, <1>4 DEF Next

-----------------------------------------------------------------------------

\* The invariant holds in every reachable state.
THEOREM Invariance == Spec => []IInv
<1>1. Init => IInv
  BY InitIInv
<1>2. IInv /\ [Next]_vars => IInv'
  BY NextIInv
<1>3. QED
  BY <1>1, <1>2, PTL DEF Spec

\* Every variable keeps its type; no index leaves the table of characters.
THEOREM TypeCorrect == Spec => []EncoderTypeOK
<1>1. IInv => EncoderTypeOK
  BY DEF IInv
<1>2. QED
  BY <1>1, Invariance, PTL

\* No character is written past the output buffer.
THEOREM StaysWithinRoom == Spec => []WithinRoom
<1>1. ASSUME IInv PROVE WithinRoom
  <2>1. Len(in) \in Nat /\ outlen \in Nat /\ i \in 0..Len(in)
        /\ status \in {"idle", "encoding", "done", "refused"}
    BY <1>1 DEF IInv, EncoderTypeOK
  <2>2. CASE status = "encoding"
    <3>1. PICK g \in Nat, r \in 0..2 :
              /\ i = 3 * g + r
              /\ Len(out) = 4 * g + r
              /\ minimumBufferSize(Len(in)) <= outlen
      BY <1>1, <2>2 DEF IInv, Carried
    <3>2. ReferenceLen(Len(in)) <= outlen
      BY <2>1, <3>1, RoomIsExact
    <3>3. 4 * g + r <= ReferenceLen(Len(in))
      BY <2>1, <3>1 DEF ReferenceLen
    <3>4. ReferenceLen(Len(in)) \in Nat
      BY <2>1 DEF ReferenceLen
    <3>5. QED
      BY <2>1, <3>1, <3>2, <3>3, <3>4 DEF WithinRoom
  <2>3. CASE status = "done"
    BY <1>1, <2>1, <2>3 DEF IInv, Ended, WithinRoom
  <2>4. CASE status \in {"idle", "refused"}
    BY <1>1, <2>1, <2>4 DEF IInv, Ended, WithinRoom
  <2>5. QED
    BY <2>1, <2>2, <2>3, <2>4
<1>2. QED
  BY <1>1, Invariance, PTL

\* For every input and every room: refused only if it does not fit, and
\* encoded as base64 otherwise.
THEOREM EncodesEveryInput == Spec => []EncodesInput
<1>1. IInv => EncodesInput
  BY DEF IInv, Correct, Ended, EncodesInput
<1>2. QED
  BY <1>1, Invariance, PTL
=============================================================================
