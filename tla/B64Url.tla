-------------------------------- MODULE B64Url --------------------------------
(***************************************************************************)
(* b64url_encode (b64url.c): bytes become characters of six bits, with the *)
(* bits left over carried from one byte to the next in a uint8_t.  The     *)
(* address the device shows and returns is encoded by it, and so are the   *)
(* target, last_tx and data_root of a review.                              *)
(*                                                                         *)
(* A character is represented by its index in b64url_charset.              *)
(***************************************************************************)
EXTENDS Naturals, Sequences

CONSTANTS
    Inputs,    \* what is encoded
    OutLens    \* the sizes of the output buffers

Byte   == 0..255
Sextet == 0..63

ASSUME InputsAssumption == Inputs \subseteq Seq(Byte)
ASSUME OutLensAssumption == OutLens \subseteq Nat

VARIABLES
    in,           \* the bytes
    outlen,       \* the room for characters
    i,            \* the bytes read
    carry_count,  \* the bits carried over
    carry_value,  \* and their value
    out,          \* the characters written
    status        \* "idle", "encoding", "done", or "refused" (0 is returned)

vars == <<in, outlen, i, carry_count, carry_value, out, status>>

Init ==
    /\ in = <<>>
    /\ outlen = 0
    /\ i = 0
    /\ carry_count = 0
    /\ carry_value = 0
    /\ out = <<>>
    /\ status = "idle"

-----------------------------------------------------------------------------
\* All shifts are by an even number of bits.
Pow2(n) == CASE n = 0 -> 1 [] n = 2 -> 4 [] n = 4 -> 16 [] n = 6 -> 64
             [] n = 8 -> 256

\* A mutated form: the last, incomplete group is not counted.
minimumBufferSize_mut(inlen) == inlen + (inlen \div 3)

\* One more character for every group of three bytes, begun or complete.
minimumBufferSize(inlen) ==
    inlen + (inlen \div 3) + (IF inlen % 3 # 0 THEN 1 ELSE 0)

b64url_encode(data, room) ==
    /\ status # "encoding"
    /\ in' = data
    /\ outlen' = room
    /\ i' = 0
    /\ carry_count' = 0
    /\ carry_value' = 0
    /\ out' = <<>>
    /\ status' = IF minimumBufferSize(Len(data)) > room THEN "refused"
                 ELSE "encoding"

shift == 6 - carry_count

\* The carry on the left, the byte's upper bits on the right of the index: the
\* two share no bit, so that `|` is a sum.  The index is a uint8_t.
idx(c) == ((carry_value * Pow2(shift)) % 256) + (c \div Pow2(carry_count + 2))

\* A mutated form: the carry keeps the bits that were already written.
Carry_mut(c) == c

\* c & (0xFF >> shift)
Carry(c) == c % Pow2(8 - shift)

\* One byte: a character, and a second one when six bits are left over.
EncodeByte ==
    LET c == in[i + 1] IN
    /\ status = "encoding"
    /\ i < Len(in)
    /\ i' = i + 1
    /\ \/ /\ carry_count + 2 < 6
          /\ out' = Append(out, idx(c))
          /\ carry_count' = carry_count + 2
          /\ carry_value' = Carry(c)
       \/ /\ carry_count + 2 = 6
          /\ out' = Append(Append(out, idx(c)), Carry(c))
          /\ carry_count' = 0
          /\ carry_value' = 0
    /\ UNCHANGED <<in, outlen, status>>

\* A mutated form: the bits left over are not moved to the left.
Finish_mut ==
    /\ status = "encoding"
    /\ i = Len(in)
    /\ out' = IF carry_count > 0 THEN Append(out, carry_value) ELSE out
    /\ status' = "done"
    /\ UNCHANGED <<in, outlen, i, carry_count, carry_value>>

\* What is left over is padded with zero bits.
Finish ==
    /\ status = "encoding"
    /\ i = Len(in)
    /\ out' = IF carry_count > 0
              THEN Append(out, carry_value * Pow2(6 - carry_count)) ELSE out
    /\ status' = "done"
    /\ UNCHANGED <<in, outlen, i, carry_count, carry_value>>

Next ==
    \/ \E data \in Inputs, room \in OutLens : b64url_encode(data, room)
    \/ EncodeByte
    \/ Finish

Spec == Init /\ [][Next]_vars

-----------------------------------------------------------------------------
(* Reference: base64 without padding (RFC 4648), group by group.           *)

At(s, n) == IF n <= Len(s) THEN s[n] ELSE 0

\* The bytes of group g, counted from 0, in characters of six bits.
First(s, g)  == At(s, 3 * g + 1) \div 4
Second(s, g) == (At(s, 3 * g + 1) % 4) * 16 + (At(s, 3 * g + 2) \div 16)
Third(s, g)  == (At(s, 3 * g + 2) % 16) * 4 + (At(s, 3 * g + 3) \div 64)
Fourth(s, g) == At(s, 3 * g + 3) % 64

\* Character k of the encoding of s, counted from 1.
Reference(s, k) ==
    LET g == (k - 1) \div 4 IN
    CASE (k - 1) % 4 = 0 -> First(s, g)
      [] (k - 1) % 4 = 1 -> Second(s, g)
      [] (k - 1) % 4 = 2 -> Third(s, g)
      [] (k - 1) % 4 = 3 -> Fourth(s, g)

\* 4 characters for 3 bytes, rounded up.
ReferenceLen(n) == (4 * n + 2) \div 3

-----------------------------------------------------------------------------
(* Properties.                                                             *)

\* Every variable keeps its type: no index leaves the table of 64 characters,
\* and the carry never has more bits than are counted.
EncoderTypeOK ==
    /\ in \in Seq(Byte)
    /\ outlen \in Nat
    /\ i \in 0..Len(in)
    /\ carry_count \in {0, 2, 4}
    /\ carry_value \in 0..(Pow2(carry_count) - 1)
    /\ out \in Seq(Sextet)
    /\ status \in {"idle", "encoding", "done", "refused"}

\* The loop never writes past the output buffer: the check made before it
\* counts the characters it will write, exactly (an address is 43 characters
\* in a field of 43).
WithinRoom == Len(out) <= outlen

\* Every input that has room is encoded, and its encoding is base64's.
EncodesInput ==
    /\ status = "refused" => ReferenceLen(Len(in)) > outlen
    /\ status = "done" => /\ Len(out) = ReferenceLen(Len(in))
                          /\ \A k \in 1..Len(out) : out[k] = Reference(in, k)
=============================================================================
