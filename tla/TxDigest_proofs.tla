---------------------------- MODULE TxDigest_proofs ----------------------------
(***************************************************************************)
(* From the bytes to the signature: an accepted buffer is the client's     *)
(* encoding of what the device shows, what the client encodes is parsed    *)
(* back, and the digest is the deep hash of it, of one transaction only.   *)
(*                                                                         *)
(* An encoding is a concatenation of pieces, one for each read of the      *)
(* parser.  The first part is about such concatenations: flatten is a      *)
(* recursive function, so its properties are shown by induction, of which  *)
(* NatSetInduction is the form used: about sets, not about operators.      *)
(***************************************************************************)
EXTENDS DeepHash, TxParser_proofs, SequenceTheorems

-----------------------------------------------------------------------------
(* Induction.                                                              *)

\* A set that has 0, and with every number its successor, has all of them.
LEMMA NatSetInduction ==
    ASSUME NEW S, 0 \in S, \A n \in Nat : n \in S => n + 1 \in S
    PROVE  Nat \subseteq S
<1> DEFINE R == OpToRel(<, Nat)
           T == Nat \ S
<1>1. IsWellFoundedOn(R, Nat)
  BY NatLessThanWellFounded
<1>2. \A x, y \in Nat : y < x => <<y, x>> \in R
  BY DEF OpToRel
<1> HIDE DEF R
<1> SUFFICES ASSUME T # {} PROVE FALSE
  OBVIOUS
<1>3. PICK x \in T : \A y \in T : <<y, x>> \notin R
  <2>1. T \subseteq Nat
    OBVIOUS
  <2> HIDE DEF T
  <2>2. QED
    BY <1>1, <2>1, WFMin
<1>4. x \in Nat /\ x # 0
  OBVIOUS
<1>5. x - 1 \in Nat /\ x - 1 < x /\ (x - 1) + 1 = x
  BY <1>4
<1>6. x - 1 \in S
  BY <1>2, <1>3, <1>4, <1>5
<1>7. QED
  BY <1>5, <1>6

-----------------------------------------------------------------------------
(* Concatenations.                                                         *)

\* The first n of the sequences p, one after the other.
Joined(p, n) == flatten([k \in 1..n |-> p[k]])

\* The function flatten(ss) is defined by.
IsJoin(f, ss, n) ==
    f = [i \in 0..n |-> IF i = 0 THEN <<>> ELSE f[i - 1] \o ss[i]]

\* There is one.
LEMMA JoinExists ==
    ASSUME NEW ss, NEW n \in Nat
    PROVE  \E f : IsJoin(f, ss, n)
<1> DEFINE S == {m \in Nat : \E f : IsJoin(f, ss, m)}
<1>1. 0 \in S
  <2> DEFINE f == [i \in 0..0 |-> <<>>]
  <2>1. IsJoin(f, ss, 0)
    BY DEF IsJoin
  <2>2. QED
    BY <2>1
<1>2. ASSUME NEW m \in Nat, m \in S PROVE m + 1 \in S
  <2>1. PICK f : IsJoin(f, ss, m)
    BY <1>2
  <2> DEFINE g == [i \in 0..(m + 1) |-> IF i = m + 1 THEN f[m] \o ss[m + 1] ELSE f[i]]
  <2>2. \A i \in 0..(m + 1) : g[i] = IF i = 0 THEN <<>> ELSE g[i - 1] \o ss[i]
    BY <2>1 DEF IsJoin
  <2>3. g = [i \in 0..(m + 1) |-> g[i]]
    OBVIOUS
  <2> HIDE DEF g
  <2>4. IsJoin(g, ss, m + 1)
    BY <2>2, <2>3 DEF IsJoin
  <2>5. QED
    BY <2>4
<1> HIDE DEF S
<1>3. Nat \subseteq S
  BY <1>1, <1>2, NatSetInduction
<1>4. QED
  BY <1>3 DEF S

\* And it does not depend on what follows.
LEMMA JoinUnique ==
    ASSUME NEW p, NEW q, NEW n \in Nat, NEW m \in Nat, n <= m,
           NEW f, IsJoin(f, p, n), NEW g, IsJoin(g, q, m),
           \A k \in 1..n : p[k] = q[k]
    PROVE  f[n] = g[n]
<1> DEFINE S == {i \in Nat : i <= n => f[i] = g[i]}
<1>1. 0 \in S
  BY DEF IsJoin
<1>2. ASSUME NEW i \in Nat, i \in S PROVE i + 1 \in S
  <2> SUFFICES ASSUME i + 1 <= n PROVE f[i + 1] = g[i + 1]
    OBVIOUS
  <2>1. i + 1 \in 0..n /\ i + 1 \in 0..m /\ i + 1 \in 1..n /\ i + 1 # 0 /\ (i + 1) - 1 = i
    OBVIOUS
  <2>2. f[i + 1] = f[i] \o p[i + 1] /\ g[i + 1] = g[i] \o q[i + 1]
    BY <2>1 DEF IsJoin
  <2>3. f[i] = g[i] /\ p[i + 1] = q[i + 1]
    BY <1>2, <2>1
  <2>4. QED
    BY <2>2, <2>3
<1> HIDE DEF S
<1>3. Nat \subseteq S
  BY <1>1, <1>2, NatSetInduction
<1>4. QED
  BY <1>3 DEF S

\* What flatten computes.
LEMMA FlattenIsJoin ==
    ASSUME NEW ss, Len(ss) \in Nat, NEW f, IsJoin(f, ss, Len(ss))
    PROVE  flatten(ss) = f[Len(ss)]
<1> DEFINE h == CHOOSE g : g = [i \in 0..Len(ss) |->
                                  IF i = 0 THEN <<>> ELSE g[i - 1] \o ss[i]]
<1>1. flatten(ss) = h[Len(ss)]
  BY DEF flatten
<1>2. IsJoin(h, ss, Len(ss))
  BY DEF IsJoin
<1> HIDE DEF h
<1>3. h[Len(ss)] = f[Len(ss)]
  BY <1>2, JoinUnique
<1>4. QED
  BY <1>1, <1>3

\* One more piece.
LEMMA JoinedStep ==
    ASSUME NEW p
    PROVE  /\ Joined(p, 0) = <<>>
           /\ \A n \in Nat : Joined(p, n + 1) = Joined(p, n) \o p[n + 1]
<1> DEFINE ss(n) == [k \in 1..n |-> p[k]]
<1>1. ASSUME NEW n \in Nat, NEW f, IsJoin(f, p, n)
      PROVE  Joined(p, n) = f[n]
  <2>1. Len(ss(n)) = n
    OBVIOUS
  <2>2. PICK g : IsJoin(g, ss(n), n)
    BY JoinExists
  <2>3. \A k \in 1..n : ss(n)[k] = p[k]
    OBVIOUS
  <2>4. flatten(ss(n)) = g[n]
    <3> DEFINE s == ss(n)
    <3>1. Len(s) = n /\ IsJoin(g, s, Len(s)) /\ Len(s) \in Nat
      BY <2>1, <2>2
    <3> HIDE DEF s
    <3>2. flatten(s) = g[Len(s)]
      BY <3>1, FlattenIsJoin
    <3>3. QED
      BY <3>1, <3>2 DEF s
  <2>5. g[n] = f[n]
    <3> DEFINE s == ss(n)
    <3>1. IsJoin(g, s, n) /\ \A k \in 1..n : s[k] = p[k]
      BY <2>2, <2>3
    <3> HIDE DEF s
    <3>2. QED
      BY <1>1, <3>1, JoinUnique
  <2>6. QED
    BY <2>4, <2>5 DEF Joined
<1> HIDE DEF ss
<1>2. Joined(p, 0) = <<>>
  <2>1. PICK f : IsJoin(f, p, 0)
    BY JoinExists
  <2>2. QED
    BY <1>1, <2>1 DEF IsJoin
<1>3. ASSUME NEW n \in Nat PROVE Joined(p, n + 1) = Joined(p, n) \o p[n + 1]
  <2>1. PICK f : IsJoin(f, p, n)
    BY JoinExists
  <2>2. PICK g : IsJoin(g, p, n + 1)
    BY JoinExists
  <2>3. g[n + 1] = g[n] \o p[n + 1]
    BY <2>2 DEF IsJoin
  <2>4. f[n] = g[n]
    BY <2>1, <2>2, JoinUnique
  <2>5. Joined(p, n) = f[n]
    BY <1>1, <2>1
  <2>6. Joined(p, n + 1) = g[n + 1]
    <3> DEFINE m == n + 1
    <3>1. m \in Nat /\ IsJoin(g, p, m)
      BY <2>2
    <3> HIDE DEF m
    <3>2. Joined(p, m) = g[m]
      BY <1>1, <3>1
    <3>3. QED
      BY <3>2 DEF m
  <2>7. QED
    BY <2>3, <2>4, <2>5, <2>6
<1>4. QED
  BY <1>2, <1>3

\* The same, from the last piece.
LEMMA JoinedBack ==
    ASSUME NEW p, NEW n \in Nat \ {0}
    PROVE  Joined(p, n) = Joined(p, n - 1) \o p[n]
<1> DEFINE m == n - 1
<1>1. m \in Nat /\ m + 1 = n
  OBVIOUS
<1> HIDE DEF m
<1>2. Joined(p, m + 1) = Joined(p, m) \o p[m + 1]
  BY <1>1, JoinedStep
<1>3. QED
  BY <1>1, <1>2 DEF m

\* Equal pieces make equal concatenations.
LEMMA JoinedAlike ==
    ASSUME NEW p, NEW q, NEW n \in Nat, \A k \in 1..n : p[k] = q[k]
    PROVE  Joined(p, n) = Joined(q, n)
<1>1. [k \in 1..n |-> p[k]] = [k \in 1..n |-> q[k]]
  OBVIOUS
<1>2. QED
  BY <1>1 DEF Joined

\* A concatenation of sequences is one.
LEMMA JoinedTyped ==
    ASSUME NEW X, NEW p, NEW n \in Nat, \A k \in 1..n : p[k] \in Seq(X)
    PROVE  \A m \in 0..n : Joined(p, m) \in Seq(X)
<1> DEFINE S == {m \in Nat : m <= n => Joined(p, m) \in Seq(X)}
<1>1. 0 \in S
  <2>1. Joined(p, 0) = <<>> /\ <<>> \in Seq(X)
    BY JoinedStep
  <2>2. QED
    BY <2>1
<1>2. ASSUME NEW m \in Nat, m \in S PROVE m + 1 \in S
  <2> SUFFICES ASSUME m + 1 <= n PROVE Joined(p, m + 1) \in Seq(X)
    OBVIOUS
  <2>1. Joined(p, m) \in Seq(X) /\ p[m + 1] \in Seq(X)
    BY <1>2
  <2>2. Joined(p, m) \o p[m + 1] \in Seq(X)
    BY <2>1, ConcatProperties
  <2>3. QED
    BY <2>2, JoinedStep
<1> HIDE DEF S
<1>3. Nat \subseteq S
  BY <1>1, <1>2, NatSetInduction
<1>4. QED
  BY <1>3 DEF S

\* It begins with the concatenation of fewer.
LEMMA JoinedPrefix ==
    ASSUME NEW p, NEW n \in Nat, \A k \in 1..n : p[k] \in Seq(Byte),
           NEW m \in 0..n
    PROVE  \E rest \in Seq(Byte) : Joined(p, n) = Joined(p, m) \o rest
<1> DEFINE Begins(i) == \E rest \in Seq(Byte) : Joined(p, i) = Joined(p, m) \o rest
           S == {d \in Nat : m + d <= n => Begins(m + d)}
<1>1. 0 \in S
  <2>1. Joined(p, m) \in Seq(Byte)
    BY JoinedTyped
  <2>2. <<>> \in Seq(Byte) /\ Joined(p, m) \o <<>> = Joined(p, m)
    BY <2>1, ConcatEmptySeq
  <2>3. m + 0 = m
    OBVIOUS
  <2>4. QED
    BY <2>2, <2>3
<1>2. ASSUME NEW d \in Nat, d \in S PROVE d + 1 \in S
  <2> SUFFICES ASSUME m + (d + 1) <= n PROVE Begins(m + (d + 1))
    OBVIOUS
  <2>1. m + d <= n /\ m + d \in Nat /\ (m + d) + 1 = m + (d + 1) /\ (m + d) + 1 \in 1..n
    OBVIOUS
  <2>2. PICK rest \in Seq(Byte) : Joined(p, m + d) = Joined(p, m) \o rest
    BY <1>2, <2>1
  <2>3. Joined(p, m) \in Seq(Byte) /\ p[(m + d) + 1] \in Seq(Byte)
    BY <2>1, JoinedTyped
  <2>4. Joined(p, (m + d) + 1) = Joined(p, m + d) \o p[(m + d) + 1]
    BY <2>1, JoinedStep
  <2> DEFINE a == Joined(p, m)
             b == p[(m + d) + 1]
  <2>5. /\ rest \o b \in Seq(Byte)
        /\ (a \o rest) \o b = a \o (rest \o b)
    <3>1. a \in Seq(Byte) /\ b \in Seq(Byte) /\ rest \in Seq(Byte)
      BY <2>3
    <3> HIDE DEF a, b
    <3>2. rest \o b \in Seq(Byte)
      BY <3>1, ConcatProperties
    <3>3. (a \o rest) \o b = a \o (rest \o b)
      BY <3>1, ConcatAssociative
    <3>4. QED
      BY <3>2, <3>3
  <2>6. Begins((m + d) + 1)
    BY <2>2, <2>4, <2>5
  <2>7. QED
    BY <2>1, <2>6
<1> HIDE DEF S
<1>3. Nat \subseteq S
  BY <1>1, <1>2, NatSetInduction
<1>4. n - m \in Nat /\ m + (n - m) = n /\ n <= n
  OBVIOUS
<1>5. n - m \in S
  BY <1>3, <1>4
<1>6. Begins(m + (n - m))
  BY <1>4, <1>5 DEF S
<1>7. QED
  BY <1>4, <1>6

\* With two bytes or more in each piece it has at least two for each.
LEMMA JoinedLength ==
    ASSUME NEW X, NEW p, NEW n \in Nat,
           \A k \in 1..n : p[k] \in Seq(X) /\ Len(p[k]) >= 2
    PROVE  Len(Joined(p, n)) \in Nat /\ Len(Joined(p, n)) >= 2 * n
<1> DEFINE S == {m \in Nat : m <= n => Len(Joined(p, m)) >= 2 * m}
<1>1. \A m \in 0..n : Joined(p, m) \in Seq(X)
  <2>1. \A k \in 1..n : p[k] \in Seq(X)
    OBVIOUS
  <2>2. QED
    BY <2>1, JoinedTyped
<1>2. 0 \in S
  BY JoinedStep
<1>3. ASSUME NEW m \in Nat, m \in S PROVE m + 1 \in S
  <2> SUFFICES ASSUME m + 1 <= n PROVE Len(Joined(p, m + 1)) >= 2 * (m + 1)
    OBVIOUS
  <2>1. Joined(p, m) \in Seq(X) /\ p[m + 1] \in Seq(X)
    BY <1>1
  <2>2. Len(Joined(p, m)) \in Nat /\ Len(p[m + 1]) \in Nat
    BY <2>1, LenProperties
  <2>3. Len(Joined(p, m + 1)) = Len(Joined(p, m)) + Len(p[m + 1])
    BY <2>1, JoinedStep, ConcatProperties
  <2>4. Len(Joined(p, m)) >= 2 * m /\ Len(p[m + 1]) >= 2
    BY <1>3
  <2>5. QED
    BY <2>2, <2>3, <2>4
<1> HIDE DEF S
<1>4. Nat \subseteq S
  BY <1>2, <1>3, NatSetInduction
<1>5. Len(Joined(p, n)) >= 2 * n
  BY <1>4 DEF S
<1>6. Joined(p, n) \in Seq(X)
  BY <1>1
<1>7. QED
  BY <1>5, <1>6, LenProperties

-----------------------------------------------------------------------------
(* The pieces of an encoding.                                              *)

TxType ==
    [format : Seq(Byte), owner : Seq(Byte), target : Seq(Byte),
     quantity : Seq(Byte), reward : Seq(Byte), last_tx : Seq(Byte),
     tags : Seq([key : Seq(Byte), value : Seq(Byte)]),
     data_size : Seq(Byte), data_root : Seq(Byte)]

\* The bytes that read k + 1 of a transaction is to find: Reads, of the client's
\* side.
Text(tx, k) ==
    CASE k = 0 -> tx.format
      [] k = 1 -> tx.owner
      [] k = 2 -> tx.target
      [] k = 3 -> tx.quantity
      [] k = 4 -> tx.reward
      [] k = 5 -> tx.last_tx
      [] k \in 7..(6 + 2 * Len(tx.tags)) ->
             IF k % 2 = 1 THEN tx.tags[(k - 5) \div 2].key
                          ELSE tx.tags[(k - 6) \div 2].value
      [] k = 7 + 2 * Len(tx.tags) -> tx.data_size
      [] OTHER -> tx.data_root

\* How many pieces there are, and what they are.
Count(tx) == 9 + 2 * Len(tx.tags)

Pieces(tx) ==
    [k \in 1..Count(tx) |->
        IF k = 7 THEN encodeu16(Len(tx.tags)) ELSE encodeWithLen(Text(tx, k - 1))]

\* A number is two bytes, of which it can be told when it has at most 16 bits.
LEMMA NumberEncoded ==
    ASSUME NEW n \in Nat
    PROVE  /\ encodeu16(n) \in Seq(Byte) /\ Len(encodeu16(n)) = 2
           /\ n <= 65535 => encodeu16(n)[1] * 256 + encodeu16(n)[2] = n
<1> DEFINE a == (n \div 256) % 256
           b == n % 256
<1>1. a \in Nat /\ a <= 255 /\ b \in Nat /\ b <= 255
  OBVIOUS
<1>2. n <= 65535 => a * 256 + b = n
  OBVIOUS
<1> HIDE DEF a, b
<1>3. encodeu16(n) = <<a, b>>
  BY DEF encodeu16, a, b
<1>4. a \in Byte /\ b \in Byte
  BY <1>1, ByteBounds
<1>5. QED
  BY <1>2, <1>3, <1>4

\* A text is its length and its bytes.
LEMMA TextEncoded ==
    ASSUME NEW s \in Seq(Byte)
    PROVE  /\ encodeWithLen(s) = encodeu16(Len(s)) \o s
           /\ encodeWithLen(s) \in Seq(Byte)
           /\ Len(encodeWithLen(s)) = Len(s) + 2
           /\ \A i \in 1..2 : encodeWithLen(s)[i] = encodeu16(Len(s))[i]
           /\ \A i \in 1..Len(s) : encodeWithLen(s)[2 + i] = s[i]
<1> DEFINE l == encodeu16(Len(s))
<1>1. Len(s) \in Nat
  BY LenProperties
<1>2. l \in Seq(Byte) /\ Len(l) = 2
  BY <1>1, NumberEncoded
<1>3. encodeWithLen(s) = l \o s
  BY DEF encodeWithLen
<1> HIDE DEF l
<1>4. /\ l \o s \in Seq(Byte)
      /\ Len(l \o s) = 2 + Len(s)
      /\ \A i \in 1..(2 + Len(s)) : (l \o s)[i] = IF i <= 2 THEN l[i] ELSE s[i - 2]
  <2>1. /\ l \o s \in Seq(Byte)
        /\ Len(l \o s) = Len(l) + Len(s)
        /\ \A i \in 1..(Len(l) + Len(s)) :
               (l \o s)[i] = IF i <= Len(l) THEN l[i] ELSE s[i - Len(l)]
    BY <1>2, ConcatProperties
  <2>2. QED
    BY <1>2, <2>1
<1>5. ASSUME NEW i \in 1..Len(s) PROVE (l \o s)[2 + i] = s[i]
  <2>1. 2 + i \in 1..(2 + Len(s)) /\ ~(2 + i <= 2) /\ (2 + i) - 2 = i
    BY <1>1
  <2>2. QED
    BY <1>4, <2>1
<1>6. \A i \in 1..2 : (l \o s)[i] = l[i]
  BY <1>1, <1>4
<1>7. QED
  BY <1>1, <1>3, <1>4, <1>5, <1>6 DEF l

\* The texts of the tags and of the trailer.
LEMMA TextOf ==
    ASSUME NEW tx, Len(tx.tags) \in Nat
    PROVE  /\ \A i \in 1..Len(tx.tags) :
                  /\ Text(tx, 5 + 2 * i) = tx.tags[i].key
                  /\ Text(tx, 6 + 2 * i) = tx.tags[i].value
           /\ Text(tx, 7 + 2 * Len(tx.tags)) = tx.data_size
           /\ Text(tx, 8 + 2 * Len(tx.tags)) = tx.data_root
<1> DEFINE t == Len(tx.tags)
<1>1. ASSUME NEW i \in 1..t PROVE Text(tx, 5 + 2 * i) = tx.tags[i].key
  <2> DEFINE k == 5 + 2 * i
  <2>1. k \in 7..(6 + 2 * t) /\ k % 2 = 1 /\ (k - 5) \div 2 = i /\ k > 6
    OBVIOUS
  <2> HIDE DEF k
  <2>2. Text(tx, k) = tx.tags[(k - 5) \div 2].key
    BY <2>1 DEF Text
  <2>3. QED
    BY <2>1, <2>2 DEF k
<1>2. ASSUME NEW i \in 1..t PROVE Text(tx, 6 + 2 * i) = tx.tags[i].value
  <2> DEFINE k == 6 + 2 * i
  <2>1. k \in 7..(6 + 2 * t) /\ k % 2 # 1 /\ (k - 6) \div 2 = i /\ k > 6
    OBVIOUS
  <2> HIDE DEF k
  <2>2. Text(tx, k) = tx.tags[(k - 6) \div 2].value
    BY <2>1 DEF Text
  <2>3. QED
    BY <2>1, <2>2 DEF k
<1>3. Text(tx, 7 + 2 * t) = tx.data_size
  BY DEF Text
<1>4. Text(tx, 8 + 2 * t) = tx.data_root
  BY DEF Text
<1>5. QED
  BY <1>1, <1>2, <1>3, <1>4

\* The texts of a transaction are sequences of bytes.
LEMMA TextTyped ==
    ASSUME NEW tx \in TxType
    PROVE  /\ Len(tx.tags) \in Nat
           /\ \A k \in 0..(Count(tx) - 1) : k # 6 => Text(tx, k) \in Seq(Byte)
<1> DEFINE t == Len(tx.tags)
<1>1. t \in Nat
  BY DEF TxType
<1>2. \A i \in 1..t : tx.tags[i].key \in Seq(Byte) /\ tx.tags[i].value \in Seq(Byte)
  <2>1. tx.tags \in Seq([key : Seq(Byte), value : Seq(Byte)])
    BY DEF TxType
  <2>2. \A i \in 1..t : tx.tags[i] \in [key : Seq(Byte), value : Seq(Byte)]
    BY <2>1, ElementOfSeq
  <2>3. QED
    BY <2>2
<1>3. ASSUME NEW k \in 0..(Count(tx) - 1), k # 6 PROVE Text(tx, k) \in Seq(Byte)
  <2>1. CASE k < 6
    <3>1. k = 0 \/ k = 1 \/ k = 2 \/ k = 3 \/ k = 4 \/ k = 5
      BY <2>1
    <3>2. Text(tx, k) \in {tx.format, tx.owner, tx.target, tx.quantity, tx.reward, tx.last_tx}
      BY <3>1 DEF Text
    <3>3. /\ tx.format \in Seq(Byte) /\ tx.owner \in Seq(Byte) /\ tx.target \in Seq(Byte)
          /\ tx.quantity \in Seq(Byte) /\ tx.reward \in Seq(Byte) /\ tx.last_tx \in Seq(Byte)
      BY DEF TxType
    <3>4. QED
      BY <3>2, <3>3
  <2>2. CASE k \in 7..(6 + 2 * t) /\ k % 2 = 1
    <3>1. (k - 5) \div 2 \in 1..t
      BY <1>1, <2>2
    <3>2. Text(tx, k) = tx.tags[(k - 5) \div 2].key
      BY <2>2 DEF Text
    <3>3. QED
      BY <1>2, <3>1, <3>2
  <2>3. CASE k \in 7..(6 + 2 * t) /\ k % 2 # 1
    <3>1. (k - 6) \div 2 \in 1..t
      BY <1>1, <2>3
    <3>2. Text(tx, k) = tx.tags[(k - 6) \div 2].value
      BY <2>3 DEF Text
    <3>3. QED
      BY <1>2, <3>1, <3>2
  <2>4. CASE k = 7 + 2 * t \/ k = 8 + 2 * t
    BY <1>1, <2>4, TextOf DEF TxType
  <2>5. QED
    BY <1>1, <1>3, <2>1, <2>2, <2>3, <2>4 DEF Count
<1>4. QED
  BY <1>1, <1>3

\* So are the pieces, each of at least two bytes.
LEMMA PiecesTyped ==
    ASSUME NEW tx \in TxType
    PROVE  /\ Count(tx) \in Nat /\ Count(tx) >= 9
           /\ \A k \in 1..Count(tx) :
                  Pieces(tx)[k] \in Seq(Byte) /\ Len(Pieces(tx)[k]) >= 2
<1>1. Count(tx) \in Nat /\ Count(tx) >= 9 /\ Len(tx.tags) \in Nat
  BY TextTyped DEF Count
<1>2. ASSUME NEW k \in 1..Count(tx)
      PROVE  Pieces(tx)[k] \in Seq(Byte) /\ Len(Pieces(tx)[k]) >= 2
  <2>1. CASE k = 7
    <3>1. Pieces(tx)[k] = encodeu16(Len(tx.tags))
      BY <2>1 DEF Pieces
    <3>2. QED
      BY <1>1, <3>1, NumberEncoded
  <2>2. CASE k # 7
    <3> DEFINE s == Text(tx, k - 1)
    <3>1. Pieces(tx)[k] = encodeWithLen(s)
      BY <2>2 DEF Pieces
    <3>2. k - 1 \in 0..(Count(tx) - 1) /\ k - 1 # 6
      BY <1>1, <2>2
    <3>3. s \in Seq(Byte) /\ Len(s) \in Nat
      BY <3>2, TextTyped, LenProperties
    <3> HIDE DEF s
    <3>4. encodeWithLen(s) \in Seq(Byte) /\ Len(encodeWithLen(s)) = Len(s) + 2
      BY <3>3, TextEncoded
    <3>5. QED
      BY <3>1, <3>3, <3>4
  <2>3. QED
    BY <2>1, <2>2
<1>3. QED
  BY <1>1, <1>2

\* The first ten concatenations.
LEMMA JoinedTen ==
    ASSUME NEW s
    PROVE  /\ Joined(s, 0) = <<>>
           /\ Joined(s, 1) = Joined(s, 0) \o s[1] /\ Joined(s, 2) = Joined(s, 1) \o s[2]
           /\ Joined(s, 3) = Joined(s, 2) \o s[3] /\ Joined(s, 4) = Joined(s, 3) \o s[4]
           /\ Joined(s, 5) = Joined(s, 4) \o s[5] /\ Joined(s, 6) = Joined(s, 5) \o s[6]
           /\ Joined(s, 7) = Joined(s, 6) \o s[7] /\ Joined(s, 8) = Joined(s, 7) \o s[8]
           /\ Joined(s, 9) = Joined(s, 8) \o s[9] /\ Joined(s, 10) = Joined(s, 9) \o s[10]
<1> DEFINE Back(k) == Joined(s, k - 1) \o s[k]
<1>1. \A k \in Nat \ {0} : Joined(s, k) = Back(k)
  BY JoinedBack
<1>2. Joined(s, 0) = <<>>
  BY JoinedStep
<1>3. /\ Back(1) = Joined(s, 0) \o s[1] /\ Back(2) = Joined(s, 1) \o s[2]
      /\ Back(3) = Joined(s, 2) \o s[3] /\ Back(4) = Joined(s, 3) \o s[4]
      /\ Back(5) = Joined(s, 4) \o s[5] /\ Back(6) = Joined(s, 5) \o s[6]
      /\ Back(7) = Joined(s, 6) \o s[7] /\ Back(8) = Joined(s, 7) \o s[8]
      /\ Back(9) = Joined(s, 8) \o s[9] /\ Back(10) = Joined(s, 9) \o s[10]
  OBVIOUS
<1> HIDE DEF Back
<1>4. /\ Joined(s, 1) = Back(1) /\ Joined(s, 2) = Back(2)
      /\ Joined(s, 3) = Back(3) /\ Joined(s, 4) = Back(4)
      /\ Joined(s, 5) = Back(5) /\ Joined(s, 6) = Back(6)
      /\ Joined(s, 7) = Back(7) /\ Joined(s, 8) = Back(8)
      /\ Joined(s, 9) = Back(9) /\ Joined(s, 10) = Back(10)
  BY <1>1
<1>5. QED
  BY <1>2, <1>3, <1>4

\* What flatten makes of a list of ten.
LEMMA FlattenTen ==
    ASSUME NEW s, Len(s) = 10, DOMAIN s = 1..10, s = [k \in DOMAIN s |-> s[k]]
    PROVE  flatten(s) = (((((((((<<>> \o s[1]) \o s[2]) \o s[3]) \o s[4]) \o s[5])
                           \o s[6]) \o s[7]) \o s[8]) \o s[9]) \o s[10]
<1>1. [k \in 1..10 |-> s[k]] = s
  OBVIOUS
<1>2. flatten(s) = Joined(s, 10)
  BY <1>1 DEF Joined
<1>3. Joined(s, 2) = (<<>> \o s[1]) \o s[2]
  <2>1. Joined(s, 0) = <<>> /\ Joined(s, 1) = Joined(s, 0) \o s[1]
    BY JoinedTen, Zenon
  <2>2. Joined(s, 2) = Joined(s, 1) \o s[2]
    BY JoinedTen, Zenon
  <2>3. QED
    BY <2>1, <2>2, Zenon
<1>4. Joined(s, 4) = (Joined(s, 2) \o s[3]) \o s[4]
  BY JoinedTen, Zenon
<1>5. Joined(s, 6) = (Joined(s, 4) \o s[5]) \o s[6]
  BY JoinedTen, Zenon
<1>6. Joined(s, 8) = (Joined(s, 6) \o s[7]) \o s[8]
  BY JoinedTen, Zenon
<1>7. Joined(s, 10) = (Joined(s, 8) \o s[9]) \o s[10]
  BY JoinedTen, Zenon
<1>8. Joined(s, 6) = (((((<<>> \o s[1]) \o s[2]) \o s[3]) \o s[4]) \o s[5]) \o s[6]
  BY <1>3, <1>4, <1>5, Zenon
<1>9. QED
  BY <1>2, <1>6, <1>7, <1>8, Zenon

\* Three pieces, and four, are the same grouped from the left and from the right.
ThreeRegrouped(h, g, a) == (h \o g) \o a = h \o (g \o a)
FourRegrouped(h, g, a, b) == ((h \o g) \o a) \o b = h \o (g \o (a \o b))

LEMMA ThreeAssociative ==
    \A h, g, a \in Seq(Byte) : ThreeRegrouped(h, g, a)
BY ConcatAssociative DEF ThreeRegrouped

LEMMA FourAssociative ==
    \A h, g, a, b \in Seq(Byte) : FourRegrouped(h, g, a, b)
<1> SUFFICES ASSUME NEW h \in Seq(Byte), NEW g \in Seq(Byte),
                    NEW a \in Seq(Byte), NEW b \in Seq(Byte)
             PROVE  FourRegrouped(h, g, a, b)
  OBVIOUS
<1>1. PICK hg \in Seq(Byte) : hg = h \o g
  BY ConcatProperties
<1>2. PICK ab \in Seq(Byte) : ab = a \o b
  BY ConcatProperties
<1>3. ThreeRegrouped(hg, a, b) /\ ThreeRegrouped(h, g, ab)
  BY ThreeAssociative
<1>4. QED
  BY <1>1, <1>2, <1>3, Zenon DEF ThreeRegrouped, FourRegrouped

\* The encoding of a tag.
Pair(tx) ==
    [i \in 1..Len(tx.tags) |->
        encodeWithLen(tx.tags[i].key) \o encodeWithLen(tx.tags[i].value)]

\* The pieces of the tags make the pairs.
LEMMA PairsJoined ==
    ASSUME NEW tx \in TxType
    PROVE  \A m \in 0..Len(tx.tags) :
               Joined(Pieces(tx), 7 + 2 * m)
                   = Joined(Pieces(tx), 7) \o Joined(Pair(tx), m)
<1> DEFINE t == Len(tx.tags)
           J(n) == Joined(Pieces(tx), n)
           G(n) == Joined(Pair(tx), n)
           S == {m \in Nat : m <= t => J(7 + 2 * m) = J(7) \o G(m) /\ G(m) \in Seq(Byte)}
<1>1. t \in Nat
  BY TextTyped
<1>2. \A n \in 0..Count(tx) : J(n) \in Seq(Byte)
  BY PiecesTyped, JoinedTyped
<1>3. J(7) \in Seq(Byte)
  BY <1>1, <1>2 DEF Count
<1>4. 0 \in S
  <2>1. G(0) = <<>>
    BY JoinedStep
  <2>2. J(7) \o <<>> = J(7)
    BY <1>3, ConcatEmptySeq
  <2>3. <<>> \in Seq(Byte) /\ 7 + 2 * 0 = 7
    OBVIOUS
  <2> HIDE DEF J, G
  <2>4. QED
    BY <2>1, <2>2, <2>3
<1>5. ASSUME NEW m \in Nat, m \in S PROVE m + 1 \in S
  <2> SUFFICES ASSUME m + 1 <= t
               PROVE  J(7 + 2 * (m + 1)) = J(7) \o G(m + 1) /\ G(m + 1) \in Seq(Byte)
    OBVIOUS
  <2> DEFINE a == encodeWithLen(tx.tags[m + 1].key)
             b == encodeWithLen(tx.tags[m + 1].value)
             k == 7 + 2 * m
  <2>1. k \in Nat /\ k + 1 \in Nat /\ (k + 1) + 1 = 7 + 2 * (m + 1) /\ m + 1 \in 1..t
    OBVIOUS
  <2>2. Text(tx, k) = tx.tags[m + 1].key /\ Text(tx, k + 1) = tx.tags[m + 1].value
    <3>1. k = 5 + 2 * (m + 1) /\ k + 1 = 6 + 2 * (m + 1)
      OBVIOUS
    <3> HIDE DEF k
    <3>2. QED
      BY <1>1, <2>1, <3>1, TextOf
  <2>3. /\ Text(tx, k) \in Seq(Byte) /\ Text(tx, k + 1) \in Seq(Byte)
        /\ k + 1 \in 1..Count(tx) /\ (k + 1) + 1 \in 1..Count(tx)
        /\ k + 1 # 7 /\ (k + 1) + 1 # 7 /\ (k + 1) - 1 = k /\ ((k + 1) + 1) - 1 = k + 1
    <3>1. /\ k \in 0..(Count(tx) - 1) /\ k # 6 /\ k + 1 \in 0..(Count(tx) - 1) /\ k + 1 # 6
          /\ k + 1 \in 1..Count(tx) /\ (k + 1) + 1 \in 1..Count(tx)
          /\ k + 1 # 7 /\ (k + 1) + 1 # 7 /\ (k + 1) - 1 = k /\ ((k + 1) + 1) - 1 = k + 1
      BY <1>1 DEF Count
    <3> HIDE DEF k
    <3>2. QED
      BY <3>1, TextTyped
  <2>4. Pieces(tx)[k + 1] = a /\ Pieces(tx)[(k + 1) + 1] = b
    <3> HIDE DEF k
    <3>1. QED
      BY <2>2, <2>3 DEF Pieces
  <2>5. a \in Seq(Byte) /\ b \in Seq(Byte)
    BY <2>2, <2>3, TextEncoded
  <2>6. J(k + 1) = J(k) \o a /\ J((k + 1) + 1) = J(k + 1) \o b
    <3> HIDE DEF k, a, b
    <3>1. J(k + 1) = J(k) \o Pieces(tx)[k + 1]
      BY <2>1, JoinedStep
    <3>2. J((k + 1) + 1) = J(k + 1) \o Pieces(tx)[(k + 1) + 1]
      BY <2>1, JoinedStep
    <3>3. QED
      BY <2>4, <3>1, <3>2
  <2>7. G(m + 1) = G(m) \o (a \o b)
    <3>1. Pair(tx)[m + 1] = a \o b
      BY <2>1 DEF Pair
    <3>2. G(m + 1) = G(m) \o Pair(tx)[m + 1]
      BY JoinedStep
    <3>3. QED
      BY <3>1, <3>2
  <2>8. J(k) = J(7) \o G(m) /\ G(m) \in Seq(Byte)
    BY <1>1, <1>5
  <2> HIDE DEF J, G, a, b, k
  <2>9. G(m + 1) \in Seq(Byte)
    <3>1. a \o b \in Seq(Byte)
      BY <2>5, ConcatProperties
    <3>2. G(m) \o (a \o b) \in Seq(Byte)
      BY <2>8, <3>1, ConcatProperties
    <3>3. QED
      BY <2>7, <3>2
  <2>10. ((J(7) \o G(m)) \o a) \o b = J(7) \o (G(m) \o (a \o b))
    <3>1. FourRegrouped(J(7), G(m), a, b)
      BY <1>3, <2>5, <2>8, FourAssociative
    <3>2. QED
      BY <3>1 DEF FourRegrouped
  <2>11. QED
    BY <2>1, <2>6, <2>7, <2>8, <2>9, <2>10
<1> HIDE DEF S
<1>6. Nat \subseteq S
  BY <1>4, <1>5, NatSetInduction
<1>7. QED
  BY <1>6 DEF S

\* The client's encoding is its pieces, one after the other.
LEMMA EncodedPieces ==
    ASSUME NEW tx \in TxType
    PROVE  encodeTx(tx) = Joined(Pieces(tx), Count(tx))
<1> DEFINE t == Len(tx.tags)
           P == Pieces(tx)
           J(n) == Joined(P, n)
           tags == flatten([i \in 1..t |-> encodeWithLen(tx.tags[i].key)
                                               \o encodeWithLen(tx.tags[i].value)])
           head == ((((((<<>> \o encodeWithLen(tx.format))
                        \o encodeWithLen(tx.owner)) \o encodeWithLen(tx.target))
                        \o encodeWithLen(tx.quantity)) \o encodeWithLen(tx.reward))
                        \o encodeWithLen(tx.last_tx)) \o encodeu16(t)
<1>1. t \in Nat
  BY TextTyped
<1>2. encodeTx(tx) = ((head \o tags) \o encodeWithLen(tx.data_size))
                         \o encodeWithLen(tx.data_root)
  <2>1. encodeTx(tx) =
            flatten(<<encodeWithLen(tx.format), encodeWithLen(tx.owner),
                      encodeWithLen(tx.target), encodeWithLen(tx.quantity),
                      encodeWithLen(tx.reward), encodeWithLen(tx.last_tx),
                      encodeu16(t), tags,
                      encodeWithLen(tx.data_size), encodeWithLen(tx.data_root)>>)
    BY DEF encodeTx
  <2> DEFINE s == <<encodeWithLen(tx.format), encodeWithLen(tx.owner),
                    encodeWithLen(tx.target), encodeWithLen(tx.quantity),
                    encodeWithLen(tx.reward), encodeWithLen(tx.last_tx),
                    encodeu16(t), tags,
                    encodeWithLen(tx.data_size), encodeWithLen(tx.data_root)>>
  <2> HIDE DEF tags
  <2>2. /\ Len(s) = 10 /\ DOMAIN s = 1..10 /\ s = [k \in DOMAIN s |-> s[k]]
        /\ s[1] = encodeWithLen(tx.format) /\ s[2] = encodeWithLen(tx.owner)
        /\ s[3] = encodeWithLen(tx.target) /\ s[4] = encodeWithLen(tx.quantity)
        /\ s[5] = encodeWithLen(tx.reward) /\ s[6] = encodeWithLen(tx.last_tx)
        /\ s[7] = encodeu16(t) /\ s[8] = tags
        /\ s[9] = encodeWithLen(tx.data_size) /\ s[10] = encodeWithLen(tx.data_root)
    OBVIOUS
  <2>3. encodeTx(tx) = flatten(s)
    BY <2>1
  <2> HIDE DEF s
  <2>4. flatten(s) = (((((((((<<>> \o s[1]) \o s[2]) \o s[3]) \o s[4]) \o s[5])
                          \o s[6]) \o s[7]) \o s[8]) \o s[9]) \o s[10]
    BY <2>2, FlattenTen
  <2>5. QED
    BY <2>2, <2>3, <2>4
<1>3. tags = Joined(Pair(tx), t)
  <2>1. [i \in 1..t |-> encodeWithLen(tx.tags[i].key) \o encodeWithLen(tx.tags[i].value)]
            = [k \in 1..t |-> Pair(tx)[k]]
    BY DEF Pair
  <2>2. QED
    BY <2>1 DEF Joined
<1>4. /\ P[1] = encodeWithLen(tx.format) /\ P[2] = encodeWithLen(tx.owner)
      /\ P[3] = encodeWithLen(tx.target) /\ P[4] = encodeWithLen(tx.quantity)
      /\ P[5] = encodeWithLen(tx.reward) /\ P[6] = encodeWithLen(tx.last_tx)
      /\ P[7] = encodeu16(t)
  <2>1. \A k \in 1..7 : k \in 1..Count(tx)
    BY <1>1 DEF Count
  <2>2. P[7] = encodeu16(t)
    BY <2>1 DEF Pieces
  <2>3. \A k \in 1..6 : P[k] = encodeWithLen(Text(tx, k - 1))
    BY <2>1 DEF Pieces
  <2>4. /\ Text(tx, 0) = tx.format /\ Text(tx, 1) = tx.owner
        /\ Text(tx, 2) = tx.target /\ Text(tx, 3) = tx.quantity
        /\ Text(tx, 4) = tx.reward /\ Text(tx, 5) = tx.last_tx
    BY DEF Text
  <2> HIDE DEF P
  <2>5. /\ P[1] = encodeWithLen(Text(tx, 0)) /\ P[2] = encodeWithLen(Text(tx, 1))
        /\ P[3] = encodeWithLen(Text(tx, 2)) /\ P[4] = encodeWithLen(Text(tx, 3))
        /\ P[5] = encodeWithLen(Text(tx, 4)) /\ P[6] = encodeWithLen(Text(tx, 5))
    BY <2>3
  <2>6. QED
    BY <2>2, <2>4, <2>5
<1>5. /\ P[8 + 2 * t] = encodeWithLen(tx.data_size)
      /\ P[9 + 2 * t] = encodeWithLen(tx.data_root)
  <2>1. /\ 8 + 2 * t \in 1..Count(tx) /\ 9 + 2 * t \in 1..Count(tx)
        /\ 8 + 2 * t # 7 /\ 9 + 2 * t # 7
        /\ (8 + 2 * t) - 1 = 7 + 2 * t /\ (9 + 2 * t) - 1 = 8 + 2 * t
    BY <1>1 DEF Count
  <2>2. /\ P[8 + 2 * t] = encodeWithLen(Text(tx, (8 + 2 * t) - 1))
        /\ P[9 + 2 * t] = encodeWithLen(Text(tx, (9 + 2 * t) - 1))
    BY <2>1 DEF Pieces
  <2>3. QED
    BY <1>1, <2>1, <2>2, TextOf
<1> HIDE DEF P
<1>6. J(7) = head
  <2>1. /\ J(0) = <<>> /\ J(1) = J(0) \o P[1] /\ J(2) = J(1) \o P[2]
        /\ J(3) = J(2) \o P[3] /\ J(4) = J(3) \o P[4] /\ J(5) = J(4) \o P[5]
        /\ J(6) = J(5) \o P[6] /\ J(7) = J(6) \o P[7]
    BY JoinedTen
  <2> HIDE DEF J
  <2>2. QED
    BY <1>4, <2>1
<1>7. J(7 + 2 * t) = head \o tags
  <2>1. J(7 + 2 * t) = J(7) \o Joined(Pair(tx), t)
    <3>1. t \in 0..t
      BY <1>1
    <3>2. QED
      BY <3>1, PairsJoined DEF P
  <2>2. QED
    BY <1>3, <1>6, <2>1
<1>8. /\ J(8 + 2 * t) = J(7 + 2 * t) \o P[8 + 2 * t]
      /\ J(9 + 2 * t) = J(8 + 2 * t) \o P[9 + 2 * t]
  <2>1. /\ 7 + 2 * t \in Nat /\ 8 + 2 * t \in Nat
        /\ (7 + 2 * t) + 1 = 8 + 2 * t /\ (8 + 2 * t) + 1 = 9 + 2 * t
    BY <1>1
  <2>2. \A n \in Nat : J(n + 1) = J(n) \o P[n + 1]
    BY JoinedStep
  <2> HIDE DEF J
  <2>3. QED
    BY <2>1, <2>2
<1>9. Count(tx) = 9 + 2 * t
  BY DEF Count
<1> HIDE DEF J, head, tags
<1>10. encodeTx(tx) = J(9 + 2 * t)
  BY <1>2, <1>5, <1>7, <1>8
<1>11. QED
  BY <1>9, <1>10 DEF J, P

-----------------------------------------------------------------------------
(* What the parser has read is an encoding.                                *)

\* The pieces of what this parse has read.
Piece(k) ==
    IF k = 7 THEN encodeu16(tags_count) ELSE encodeWithLen(Bytes(Reads(k - 1)))

Made == [k \in 1..pos |-> Piece(k)]

\* The bytes consumed are those pieces.
EncodedSoFar == status \in Parsing => SubSeq(buffer, 1, offset) = Joined(Made, pos)

\* What _read has seen to.
VersionsSupported ==
    status \in Parsing =>
        /\ pos >= 1 => Bytes(Field("format")) = <<FORMAT_2>>
        /\ pos >= 2 => len[Field("owner")] = OWNER_LEN

AcceptedIsOurs == status = "ok" => _validateTx

\* The buffer has what the client sends for tx, and maybe more.
Begins(tx) ==
    Len(encodeTx(tx)) <= Len(buffer) /\ SubSeq(buffer, 1, Len(encodeTx(tx))) = encodeTx(tx)

\* Of a transaction the client encoded, each read finds its text.
ReadsTheirs ==
    \A tx \in Transactions : Begins(tx) /\ status \in Parsing =>
        /\ \A k \in (0..(pos - 1)) \ {6} : Bytes(Reads(k)) = Text(tx, k)
        /\ pos > 6 => tags_count = Len(tx.tags)

RefusedIsUnsignable ==
    \A tx \in Transactions : buffer = encodeTx(tx) /\ status \in Errors => ~Signable(tx)

EInv == /\ PInv /\ EncodedSoFar /\ VersionsSupported /\ AcceptedIsOurs
        /\ ReadsTheirs /\ RefusedIsUnsignable

-----------------------------------------------------------------------------
(* Buffers and what is read from them.                                     *)

\* More of a buffer.
LEMMA SubSeqGrows ==
    ASSUME NEW X, NEW b \in Seq(X), NEW o \in Nat, NEW p \in Seq(X),
           o + Len(p) <= Len(b), \A i \in 1..Len(p) : p[i] = b[o + i]
    PROVE  SubSeq(b, 1, o + Len(p)) = SubSeq(b, 1, o) \o p
<1> DEFINE n == Len(p)
           big == SubSeq(b, 1, o + n)
           small == SubSeq(b, 1, o)
<1>1. n \in Nat /\ Len(b) \in Nat
  BY LenProperties
<1>2. /\ big \in Seq(X) /\ Len(big) = o + n
      /\ \A i \in 1..(o + n) : big[i] = b[i]
  BY <1>1
<1>3. /\ small \in Seq(X) /\ Len(small) = o
      /\ \A i \in 1..o : small[i] = b[i]
  BY <1>1
<1> HIDE DEF big, small
<1>4. /\ small \o p \in Seq(X) /\ Len(small \o p) = o + n
      /\ \A i \in 1..(o + n) : (small \o p)[i] = IF i <= o THEN small[i] ELSE p[i - o]
  <2>1. /\ small \o p \in Seq(X) /\ Len(small \o p) = Len(small) + Len(p)
        /\ \A i \in 1..(Len(small) + Len(p)) :
               (small \o p)[i] = IF i <= Len(small) THEN small[i] ELSE p[i - Len(small)]
    BY <1>3, ConcatProperties
  <2>2. QED
    BY <1>3, <2>1
<1>5. ASSUME NEW i \in 1..(o + n) PROVE big[i] = (small \o p)[i]
  <2>1. CASE i <= o
    BY <1>2, <1>3, <1>4, <2>1
  <2>2. CASE ~(i <= o)
    <3>1. i - o \in 1..n /\ o + (i - o) = i
      BY <1>1, <2>2
    <3>2. p[i - o] = b[i]
      BY <3>1
    <3>3. QED
      BY <1>2, <1>4, <2>2, <3>2
  <2>3. QED
    BY <2>1, <2>2
<1> DEFINE sp == small \o p
<1>6. sp \in Seq(X) /\ Len(sp) = Len(big) /\ \A i \in 1..Len(big) : big[i] = sp[i]
  BY <1>2, <1>4, <1>5
<1> HIDE DEF sp, n
<1>7. big = sp
  BY <1>2, <1>6, SeqEqual
<1>8. QED
  BY <1>7 DEF big, small, sp, n

\* Where a piece is, in what it is a piece of.
LEMMA PieceIsThere ==
    ASSUME NEW j \in Seq(Byte), NEW p \in Seq(Byte), NEW rest \in Seq(Byte)
    PROVE  /\ Len((j \o p) \o rest) >= Len(j) + Len(p)
           /\ \A i \in 1..Len(p) : ((j \o p) \o rest)[Len(j) + i] = p[i]
<1> DEFINE jp == j \o p
<1>1. Len(j) \in Nat /\ Len(p) \in Nat /\ Len(rest) \in Nat
  BY LenProperties
<1>2. /\ jp \in Seq(Byte) /\ Len(jp) = Len(j) + Len(p)
      /\ \A i \in 1..(Len(j) + Len(p)) : jp[i] = IF i <= Len(j) THEN j[i] ELSE p[i - Len(j)]
  BY ConcatProperties
<1> HIDE DEF jp
<1>3. /\ Len(jp \o rest) = Len(jp) + Len(rest)
      /\ \A i \in 1..(Len(jp) + Len(rest)) :
             (jp \o rest)[i] = IF i <= Len(jp) THEN jp[i] ELSE rest[i - Len(jp)]
  <2>1. jp \in Seq(Byte)
    BY <1>2
  <2>2. QED
    BY <2>1, ConcatProperties
<1>4. ASSUME NEW i \in 1..Len(p) PROVE (jp \o rest)[Len(j) + i] = p[i]
  <2>1. /\ Len(j) + i \in 1..(Len(j) + Len(p)) /\ Len(j) + i \in 1..(Len(jp) + Len(rest))
        /\ Len(j) + i <= Len(jp) /\ ~(Len(j) + i <= Len(j)) /\ (Len(j) + i) - Len(j) = i
    BY <1>1, <1>2
  <2>2. QED
    BY <1>2, <1>3, <2>1
<1>5. Len(jp \o rest) >= Len(j) + Len(p)
  BY <1>1, <1>2, <1>3
<1>6. QED
  BY <1>4, <1>5 DEF jp

PieceInPlace(j, p, rest) ==
    /\ Len((j \o p) \o rest) >= Len(j) + Len(p)
    /\ \A i \in 1..Len(p) : ((j \o p) \o rest)[Len(j) + i] = p[i]

LEMMA PieceInPlaceAlways ==
    \A j, p, rest \in Seq(Byte) : PieceInPlace(j, p, rest)
<1> SUFFICES ASSUME NEW j \in Seq(Byte), NEW p \in Seq(Byte), NEW rest \in Seq(Byte)
             PROVE  PieceInPlace(j, p, rest)
  OBVIOUS
<1>1. Len((j \o p) \o rest) >= Len(j) + Len(p)
  BY PieceIsThere
<1>2. \A i \in 1..Len(p) : ((j \o p) \o rest)[Len(j) + i] = p[i]
  BY PieceIsThere
<1>3. QED
  BY <1>1, <1>2 DEF PieceInPlace

\* The number of two bytes is encoded as these.
LEMMA NumberOfBytes ==
    ASSUME NEW a \in Byte, NEW b \in Byte
    PROVE  encodeu16(a * 256 + b) = <<a, b>>
<1>1. a \in Nat /\ a <= 255 /\ b \in Nat /\ b <= 255
  BY ByteBounds
<1>2. (a * 256 + b) \div 256 = a /\ a % 256 = a /\ (a * 256 + b) % 256 = b
  BY <1>1
<1>3. QED
  BY <1>2 DEF encodeu16

\* An element's bytes are a sequence of bytes.
LEMMA BytesTyped ==
    ASSUME ParserTypeOK, NEW e \in Elements
    PROVE  Bytes(e) \in Seq(Byte) /\ Len(Bytes(e)) = len[e] /\ len[e] \in Nat
<1>1. buffer \in Seq(Byte) /\ Len(buffer) \in Nat
  <2>1. CASE buffer = <<>>
    BY <2>1
  <2>2. CASE buffer \in Buffers
    BY <2>2, BuffersAssumption, U16Bounds
  <2>3. QED
    BY <2>1, <2>2 DEF ParserTypeOK
<1>2. ASSUME NEW i \in Nat \ {0} PROVE ByteAt(i) \in Byte
  BY <1>1, ByteBounds DEF ByteAt
<1>3. ptr[e] \in Nat /\ len[e] \in Nat
  BY U16Bounds DEF ParserTypeOK
<1>4. \A i \in 1..len[e] : ByteAt(ptr[e] + i) \in Byte
  BY <1>2, <1>3
<1>5. QED
  BY <1>3, <1>4 DEF Bytes

\* What is read joins what was read, which stays as it was.
LEMMA ReadStays ==
    ASSUME PInv, ReadElement, NEW n \in Nat, n = pos
    PROVE  /\ \A k : Reads(k)' = Reads(k)
           /\ \A k \in (0..(n - 1)) \ {6} :
                  /\ Bytes(Reads(k))' = Bytes(Reads(k))
                  /\ (len[Reads(k)])' = len[Reads(k)]
           /\ Bytes(Reads(n))' = [i \in 1..U16 |-> ByteAt((offset + 2) + i)]
           /\ (len[Reads(n)])' = U16
           /\ UNCHANGED <<buffer, tags_count, expert>>
           /\ pos' = n + 1 /\ offset' = (offset + 2) + U16
<1> DEFINE e == Reads(n)
           u == U16
<1>1. /\ ReadingElement
      /\ len' = [len EXCEPT ![e] = u]
      /\ ptr' = [ptr EXCEPT ![e] = offset + 2]
      /\ offset' = (offset + 2) + u
      /\ pos' = n + 1
      /\ UNCHANGED <<buffer, tags_count, expert>>
  BY DEF ReadElement
<1>2. /\ e \in Elements /\ e \notin fresh /\ fresh = Done(n)
  BY <1>1, NextIsNew
<1>3. /\ len \in [Elements -> U16Values] /\ ptr \in [Elements -> U16Values]
      /\ fresh \subseteq Elements
  BY DEF PInv, ParserTypeOK
<1>4. \A k : Reads(k)' = Reads(k)
  BY <1>1 DEF Reads, Last
<1>5. \A i : ByteAt(i)' = ByteAt(i)
  BY <1>1 DEF ByteAt
<1>6. \A k : Bytes(Reads(k))' = [i \in 1..len'[Reads(k)] |-> ByteAt(ptr'[Reads(k)] + i)]
  BY <1>4, <1>5 DEF Bytes
<1> HIDE DEF e, u
<1>7. \A f \in fresh : len'[f] = len[f] /\ ptr'[f] = ptr[f]
  BY <1>1, <1>2, <1>3
<1>8. len'[e] = u /\ ptr'[e] = offset + 2
  BY <1>1, <1>2, <1>3
<1>9. ASSUME NEW k \in (0..(n - 1)) \ {6}
      PROVE  Bytes(Reads(k))' = Bytes(Reads(k)) /\ (len[Reads(k)])' = len[Reads(k)]
  <2>1. Reads(k) \in fresh
    BY <1>2 DEF Done
  <2>2. len'[Reads(k)] = len[Reads(k)] /\ ptr'[Reads(k)] = ptr[Reads(k)]
    BY <1>7, <2>1
  <2>3. Bytes(Reads(k))' = Bytes(Reads(k))
    BY <1>6, <2>2 DEF Bytes
  <2>4. (len[Reads(k)])' = len[Reads(k)]
    BY <1>4, <2>2
  <2>5. QED
    BY <2>3, <2>4
<1>10. Bytes(Reads(n))' = [i \in 1..u |-> ByteAt((offset + 2) + i)]
  BY <1>6, <1>8 DEF e
<1>11. (len[Reads(n)])' = u
  BY <1>4, <1>8 DEF e
<1>12. QED
  BY <1>1, <1>4, <1>9, <1>10, <1>11 DEF u

\* A buffer is a sequence of bytes, and a number in it is two of them.
LEMMA TwoBytes ==
    ASSUME ParserTypeOK, Available(2)
    PROVE  /\ buffer \in Seq(Byte) /\ Len(buffer) \in Nat /\ offset \in Nat
           /\ offset + 2 <= Len(buffer) /\ U16 \in Nat
           /\ encodeu16(U16) = <<buffer[offset + 1], buffer[offset + 2]>>
<1>1. buffer \in Seq(Byte) /\ Len(buffer) \in Nat
  <2>1. CASE buffer = <<>>
    BY <2>1
  <2>2. CASE buffer \in Buffers
    BY <2>2, BuffersAssumption, U16Bounds
  <2>3. QED
    BY <2>1, <2>2 DEF ParserTypeOK
<1>2. offset \in Nat /\ offset + 2 <= Len(buffer)
  BY <1>1 DEF ParserTypeOK, Available
<1>3. /\ ByteAt(offset + 1) = buffer[offset + 1] /\ buffer[offset + 1] \in Byte
      /\ ByteAt(offset + 2) = buffer[offset + 2] /\ buffer[offset + 2] \in Byte
  <2>1. /\ offset + 1 \in 1..Len(buffer) /\ offset + 2 \in 1..Len(buffer)
        /\ offset + 1 <= Len(buffer)
    BY <1>1, <1>2
  <2>2. buffer[offset + 1] \in Byte /\ buffer[offset + 2] \in Byte
    BY <1>1, <2>1, ElementOfSeq
  <2>3. QED
    BY <1>2, <2>1, <2>2 DEF ByteAt
<1>4. U16 = buffer[offset + 1] * 256 + buffer[offset + 2]
  BY <1>3 DEF U16
<1>5. encodeu16(U16) = <<buffer[offset + 1], buffer[offset + 2]>>
  BY <1>3, <1>4, NumberOfBytes
<1>6. U16 \in Nat
  BY U16InRange, U16Bounds
<1>7. QED
  BY <1>1, <1>2, <1>5, <1>6

\* A piece more was read, and was in the buffer.
LEMMA MadeGrows ==
    ASSUME SubSeq(buffer, 1, offset) = Joined(Made, pos),
           NEW n \in Nat, n = pos, pos' = n + 1,
           NEW w \in Seq(Byte), Piece(n + 1)' = w, \A k \in 1..n : Piece(k)' = Piece(k),
           buffer \in Seq(Byte), offset \in Nat, offset + Len(w) <= Len(buffer),
           \A i \in 1..Len(w) : w[i] = buffer[offset + i],
           buffer' = buffer, offset' = offset + Len(w)
    PROVE  EncodedSoFar'
<1>1. SubSeq(buffer, 1, offset + Len(w)) = SubSeq(buffer, 1, offset) \o w
  <2>1. PICK b \in Seq(Byte) : b = buffer
    OBVIOUS
  <2>2. PICK o \in Nat : o = offset
    OBVIOUS
  <2>3. o + Len(w) <= Len(b) /\ \A i \in 1..Len(w) : w[i] = b[o + i]
    BY <2>1, <2>2
  <2>4. SubSeq(b, 1, o + Len(w)) = SubSeq(b, 1, o) \o w
    BY ONLY w \in Seq(Byte), b \in Seq(Byte), o \in Nat, <2>3, SubSeqGrows
  <2>5. QED
    BY <2>1, <2>2, <2>4
<1>2. Made' = [k \in 1..(n + 1) |-> Piece(k)']
  BY DEF Made
<1>3. Made = [k \in 1..n |-> Piece(k)]
  BY DEF Made
<1>4. (\A k \in 1..n : Made'[k] = Made[k]) /\ Made'[n + 1] = w
  BY <1>2, <1>3
<1>5. Joined(Made', n) = Joined(Made, n)
  BY <1>4, JoinedAlike
<1>6. Joined(Made', n + 1) = Joined(Made', n) \o Made'[n + 1]
  BY JoinedStep
<1>7. SubSeq(buffer, 1, offset + Len(w)) = Joined(Made', n + 1)
  BY <1>1, <1>4, <1>5, <1>6
<1>8. SubSeq(buffer', 1, offset') = Joined(Made', pos')
  BY <1>7
<1>9. QED
  BY <1>8 DEF EncodedSoFar

\* An element is read.
LEMMA ElementEncoded ==
    ASSUME PInv, EncodedSoFar, ReadElement
    PROVE  EncodedSoFar'
<1> DEFINE u == U16
           s == [i \in 1..u |-> ByteAt((offset + 2) + i)]
           w == encodeWithLen(s)
<1>1. /\ ParserTypeOK /\ Available(2) /\ pos # 6 /\ pos \in Nat
      /\ offset + (2 + u) <= Len(buffer)
      /\ SubSeq(buffer, 1, offset) = Joined(Made, pos)
  BY DEF ReadElement, ReadingElement, Complete, Available, PInv, ParserTypeOK,
         EncodedSoFar, Parsing
<1>2. /\ buffer \in Seq(Byte) /\ Len(buffer) \in Nat /\ offset \in Nat /\ u \in Nat
      /\ encodeu16(u) = <<buffer[offset + 1], buffer[offset + 2]>>
  BY <1>1, TwoBytes
<1>3. PICK n \in Nat : n = pos
  BY <1>1
<1>4. /\ \A k \in (0..(n - 1)) \ {6} :
             Reads(k)' = Reads(k) /\ Bytes(Reads(k))' = Bytes(Reads(k))
      /\ Bytes(Reads(n))' = s
      /\ UNCHANGED <<buffer, tags_count>>
      /\ pos' = n + 1 /\ offset' = (offset + 2) + u
  BY <1>3, ReadStays
<1> HIDE DEF u
<1>5. \A i \in 1..u : /\ (offset + 2) + i \in 1..Len(buffer) /\ (offset + 2) + i <= Len(buffer)
                      /\ (offset + 2) + i = offset + (2 + i)
  BY <1>1, <1>2
<1>6. \A i \in 1..u : s[i] = buffer[offset + (2 + i)] /\ s[i] \in Byte
  <2>1. ASSUME NEW i \in 1..u PROVE s[i] = buffer[offset + (2 + i)] /\ s[i] \in Byte
    <3>1. buffer[(offset + 2) + i] \in Byte
      BY <1>2, <1>5, ElementOfSeq
    <3>2. s[i] = buffer[(offset + 2) + i]
      BY <1>5 DEF ByteAt
    <3>3. QED
      BY <1>5, <3>1, <3>2
  <2>2. QED
    BY <2>1
<1>7. s \in Seq(Byte) /\ Len(s) = u
  <2>1. \A i \in 1..u : ByteAt((offset + 2) + i) \in Byte
    BY <1>6
  <2>2. QED
    BY <1>2, <2>1
<1> HIDE DEF s
<1>8. /\ w \in Seq(Byte) /\ Len(w) = u + 2
      /\ \A i \in 1..2 : w[i] = encodeu16(u)[i]
      /\ \A i \in 1..u : w[2 + i] = s[i]
  BY <1>7, TextEncoded
<1>9. Piece(n + 1)' = w
  <2>1. n + 1 # 7 /\ (n + 1) - 1 = n
    BY <1>1, <1>3
  <2>2. Piece(n + 1)' = encodeWithLen(Bytes(Reads(n))')
    BY <2>1 DEF Piece, encodeWithLen
  <2>3. QED
    BY <1>4, <2>2
<1>10. ASSUME NEW k \in 1..n PROVE Piece(k)' = Piece(k)
  <2>1. CASE k = 7
    BY <1>4, <2>1 DEF Piece
  <2>2. CASE k # 7
    <3>1. k - 1 \in (0..(n - 1)) \ {6}
      BY <2>2
    <3>2. Piece(k)' = encodeWithLen(Bytes(Reads(k - 1))')
      BY <2>2 DEF Piece
    <3>3. QED
      BY <1>4, <2>2, <3>1, <3>2 DEF Piece
  <2>3. QED
    BY <2>1, <2>2
<1> HIDE DEF w
<1>11. ASSUME NEW i \in 1..Len(w) PROVE w[i] = buffer[offset + i]
  <2>1. CASE i = 1 \/ i = 2
    BY <1>2, <1>8, <2>1
  <2>2. CASE i > 2
    <3>1. i - 2 \in 1..u /\ 2 + (i - 2) = i
      BY <1>2, <1>8, <2>2
    <3>2. QED
      BY <1>6, <1>8, <3>1
  <2>3. QED
    BY <2>1, <2>2
<1>12. offset + Len(w) <= Len(buffer) /\ offset' = offset + Len(w)
  BY <1>1, <1>2, <1>4, <1>8
<1>13. QED
  BY <1>1, <1>2, <1>3, <1>4, <1>8, <1>9, <1>10, <1>11, <1>12, MadeGrows

\* The number of the tags is read.
LEMMA TagsCountEncoded ==
    ASSUME PInv, EncodedSoFar, ReadTagsCount
    PROVE  EncodedSoFar'
<1> DEFINE w == encodeu16(U16)
<1>1. /\ ParserTypeOK /\ Available(2) /\ pos = 6
      /\ SubSeq(buffer, 1, offset) = Joined(Made, pos)
      /\ tags_count' = U16 /\ offset' = offset + 2 /\ pos' = 7
      /\ UNCHANGED <<buffer, ptr, len>>
  BY DEF ReadTagsCount, PInv, EncodedSoFar, Parsing
<1>2. /\ buffer \in Seq(Byte) /\ Len(buffer) \in Nat /\ offset \in Nat /\ U16 \in Nat
      /\ offset + 2 <= Len(buffer)
      /\ w = <<buffer[offset + 1], buffer[offset + 2]>>
  BY <1>1, TwoBytes
<1>3. w \in Seq(Byte) /\ Len(w) = 2
  BY <1>2, NumberEncoded
<1>4. PICK n \in Nat : n = 6
  OBVIOUS
<1>5. Piece(n + 1)' = w
  BY <1>1, <1>4 DEF Piece, encodeu16
<1>6. ASSUME NEW k \in 1..n PROVE Piece(k)' = Piece(k)
  <2>1. k # 7 /\ k - 1 < 6
    BY <1>4
  <2>2. Reads(k - 1) = Header[(k - 1) + 1] /\ Reads(k - 1)' = Header[(k - 1) + 1]
    BY <2>1 DEF Reads
  <2>3. Bytes(Reads(k - 1))' = Bytes(Reads(k - 1))
    BY <1>1, <2>2 DEF Bytes, ByteAt
  <2>4. QED
    BY <2>1, <2>3 DEF Piece
<1> HIDE DEF w
<1>7. ASSUME NEW i \in 1..Len(w) PROVE w[i] = buffer[offset + i]
  <2>1. i = 1 \/ i = 2
    BY <1>3
  <2>2. QED
    BY <1>2, <2>1
<1>8. n = pos /\ pos' = n + 1 /\ offset + Len(w) <= Len(buffer) /\ offset' = offset + Len(w)
  BY <1>1, <1>2, <1>3, <1>4
<1>9. QED
  BY <1>1, <1>2, <1>3, <1>4, <1>5, <1>6, <1>7, <1>8, MadeGrows

\* Every step leaves the bytes consumed an encoding.
LEMMA EncodedStep == PInv /\ EncodedSoFar /\ [Next]_vars => EncodedSoFar'
<1> SUFFICES ASSUME PInv, EncodedSoFar, [Next]_vars PROVE EncodedSoFar'
  OBVIOUS
<1>1. CASE \E data \in Buffers : parser_parse(data)
  <2>1. PICK data \in Buffers : buffer' = data /\ offset' = 0 /\ pos' = 0
    BY <1>1 DEF parser_parse, parser_init_context
  <2>2. SubSeq(data, 1, 0) = <<>>
    BY <2>1, BuffersAssumption
  <2>3. Joined(Made', 0) = <<>>
    BY JoinedStep
  <2>4. SubSeq(buffer', 1, offset') = Joined(Made', pos')
    BY <2>1, <2>2, <2>3
  <2>5. QED
    BY <2>4 DEF EncodedSoFar
<1>2. CASE TruncatedLength \/ TruncatedElement
  BY <1>2 DEF TruncatedLength, TruncatedElement, EncodedSoFar, Parsing
<1>3. CASE ReadElement
  BY <1>3, ElementEncoded
<1>4. CASE ReadTagsCount
  BY <1>4, TagsCountEncoded
<1>5. CASE parser_validate \/ UNCHANGED vars
  <2>1. /\ status' \in Parsing => status \in Parsing
        /\ UNCHANGED <<buffer, offset, pos, ptr, len, tags_count>>
    BY <1>5 DEF parser_validate, vars, Parsing
  <2>2. Made' = Made
    BY <2>1 DEF Made, Piece, Bytes, ByteAt, Reads, Last
  <2>3. QED
    BY <2>1, <2>2 DEF EncodedSoFar
<1>6. CASE Restart
  BY <1>6 DEF Restart, EncodedSoFar, Parsing
<1>7. QED
  BY <1>1, <1>2, <1>3, <1>4, <1>5, <1>6 DEF Next, _read

\* Every step that goes on has seen to the version.
LEMMA VersionsStep == PInv /\ VersionsSupported /\ [Next]_vars => VersionsSupported'
<1> SUFFICES ASSUME PInv, VersionsSupported, [Next]_vars, status' \in Parsing
             PROVE  (/\ pos >= 1 => Bytes(Field("format")) = <<FORMAT_2>>
                     /\ pos >= 2 => len[Field("owner")] = OWNER_LEN)'
  BY DEF VersionsSupported
<1>1. CASE \E data \in Buffers : parser_parse(data)
  BY <1>1 DEF parser_parse, parser_init_context
<1>2. CASE TruncatedLength \/ TruncatedElement
  BY <1>2 DEF TruncatedLength, TruncatedElement, Parsing
<1>3. CASE ReadElement
  <2>1. PICK n \in Nat : n = pos
    BY DEF PInv, ParserTypeOK
  <2>2. /\ status = "reading" /\ Supported(Reads(n), U16)
    BY <1>3, <2>1 DEF ReadElement, ReadingElement, Parsing
  <2>3. Reads(0) = Field("format") /\ Reads(1) = Field("owner")
    BY Names DEF Reads
  <2>4. /\ \A k \in (0..(n - 1)) \ {6} :
               /\ Bytes(Reads(k))' = Bytes(Reads(k))
               /\ (len[Reads(k)])' = len[Reads(k)]
        /\ \A k : Reads(k)' = Reads(k)
        /\ Bytes(Reads(n))' = [i \in 1..U16 |-> ByteAt((offset + 2) + i)]
        /\ (len[Reads(n)])' = U16
        /\ pos' = n + 1
    BY <1>3, <2>1, ReadStays
  <2>5. /\ Bytes(Reads(0))' = Bytes(Field("format"))'
        /\ (len[Reads(1)])' = len'[Field("owner")]
    BY <2>3, <2>4 DEF Bytes
  <2>6. Bytes(Field("format"))' = <<FORMAT_2>>
    <3>1. CASE n = 0
      <4>1. U16 = 1 /\ ByteAt(offset + 3) = FORMAT_2
        BY <2>2, <2>3, <3>1 DEF Supported
      <4>2. (offset + 2) + 1 = offset + 3
        BY DEF PInv, ParserTypeOK
      <4>3. [i \in 1..1 |-> ByteAt((offset + 2) + i)] = <<FORMAT_2>>
        BY <4>1, <4>2
      <4>4. QED
        BY <2>4, <2>5, <3>1, <4>1, <4>3
    <3>2. CASE n # 0
      <4>1. Bytes(Reads(0)) = <<FORMAT_2>>
        BY <2>1, <2>2, <2>3, <3>2 DEF VersionsSupported, Parsing
      <4>2. 0 \in (0..(n - 1)) \ {6}
        BY <3>2
      <4>3. QED
        BY <2>4, <2>5, <4>1, <4>2
    <3>3. QED
      BY <3>1, <3>2
  <2>7. pos' >= 2 => len'[Field("owner")] = OWNER_LEN
    <3>1. CASE n = 0
      BY <2>4, <3>1
    <3>2. CASE n = 1
      <4>1. U16 = OWNER_LEN
        BY <2>2, <2>3, <3>2 DEF Supported
      <4>2. QED
        BY <2>4, <2>5, <3>2, <4>1
    <3>3. CASE n >= 2
      <4>1. len[Reads(1)] = OWNER_LEN
        BY <2>1, <2>2, <2>3, <3>3 DEF VersionsSupported, Parsing
      <4>2. 1 \in (0..(n - 1)) \ {6}
        BY <3>3
      <4>3. QED
        BY <2>4, <2>5, <4>1, <4>2
    <3>4. QED
      BY <3>1, <3>2, <3>3
  <2>8. QED
    BY <2>6, <2>7
<1>4. CASE ReadTagsCount
  BY <1>4 DEF ReadTagsCount, VersionsSupported, Parsing, Bytes, ByteAt
<1>5. CASE parser_validate \/ UNCHANGED vars
  BY <1>5 DEF parser_validate, vars, VersionsSupported, Parsing, Bytes, ByteAt
<1>6. CASE Restart
  BY <1>6 DEF Restart, Parsing
<1>7. QED
  BY <1>1, <1>2, <1>3, <1>4, <1>5, <1>6 DEF Next, _read

\* What validation accepts is the device's own.
LEMMA OursStep == AcceptedIsOurs /\ [Next]_vars => AcceptedIsOurs'
<1> SUFFICES ASSUME AcceptedIsOurs, [Next]_vars, status' = "ok" PROVE _validateTx'
  BY DEF AcceptedIsOurs
<1>1. CASE \E data \in Buffers : parser_parse(data)
  BY <1>1 DEF parser_parse
<1>2. CASE _read
  BY <1>2 DEF _read, TruncatedLength, TruncatedElement, ReadElement, ReadTagsCount
<1>3. CASE parser_validate \/ UNCHANGED vars
  <2>1. _validateTx /\ UNCHANGED <<buffer, ptr, len>>
    BY <1>3 DEF parser_validate, vars, AcceptedIsOurs
  <2>2. QED
    BY <2>1 DEF _validateTx, Bytes, ByteAt
<1>4. CASE Restart
  BY <1>4 DEF Restart
<1>5. QED
  BY <1>1, <1>2, <1>3, <1>4 DEF Next

-----------------------------------------------------------------------------
(* What the client encoded.                                                *)

\* An encoding is bytes, and a buffer of nothing else begins with it.
LEMMA EncodedTyped ==
    ASSUME NEW tx \in TxType
    PROVE  encodeTx(tx) \in Seq(Byte) /\ Len(encodeTx(tx)) \in Nat
<1>1. /\ Count(tx) \in Nat
      /\ \A k \in 1..Count(tx) : Pieces(tx)[k] \in Seq(Byte)
  BY PiecesTyped
<1>2. Joined(Pieces(tx), Count(tx)) \in Seq(Byte)
  <2> DEFINE c == Count(tx)
             P == Pieces(tx)
  <2>1. c \in 0..c /\ c \in Nat /\ \A k \in 1..c : P[k] \in Seq(Byte)
    BY <1>1
  <2> HIDE DEF c, P
  <2>2. Joined(P, c) \in Seq(Byte)
    BY <2>1, JoinedTyped
  <2>3. QED
    BY <2>2 DEF c, P
<1>3. QED
  BY <1>2, EncodedPieces, LenProperties

LEMMA WholeBegins ==
    ASSUME NEW tx \in Transactions, buffer = encodeTx(tx)
    PROVE  Begins(tx)
<1>1. buffer \in Seq(Byte) /\ Len(buffer) \in Nat
  BY EncodedTyped, TransactionsAssumption DEF TxType
<1>2. SubSeq(buffer, 1, Len(buffer)) = buffer
  BY <1>1
<1>3. QED
  BY <1>1, <1>2 DEF Begins

\* Where the pieces are in an encoding.
Follows(e, before, w) ==
    /\ e \in Seq(Byte) /\ Len(e) \in Nat
    /\ before \in Seq(Byte) /\ Len(before) \in Nat
    /\ w \in Seq(Byte) /\ Len(w) \in Nat /\ Len(w) >= 2
    /\ Len(before) + Len(w) <= Len(e)
    /\ \A i \in 1..Len(w) : e[Len(before) + i] = w[i]

LEMMA PieceOfEncoding ==
    ASSUME NEW tx \in TxType, NEW n \in Nat, n < Count(tx)
    PROVE  Follows(encodeTx(tx), Joined(Pieces(tx), n), Pieces(tx)[n + 1])
<1> DEFINE P == Pieces(tx)
           c == Count(tx)
           next == n + 1
           e == encodeTx(tx)
           before == Joined(P, n)
           w == P[next]
<1>1. /\ c \in Nat /\ n \in 0..c /\ next \in 0..c /\ next \in 1..c
      /\ \A k \in 1..c : P[k] \in Seq(Byte) /\ Len(P[k]) >= 2
  <2>1. c \in Nat /\ \A k \in 1..c : P[k] \in Seq(Byte) /\ Len(P[k]) >= 2
    BY PiecesTyped
  <2> HIDE DEF P
  <2>2. QED
    BY <2>1
<1>2. e = Joined(P, c)
  BY EncodedPieces
<1>3. Joined(P, next) = before \o w
  BY JoinedStep
<1>4. w = P[next] /\ before = Joined(P, n)
  OBVIOUS
<1> HIDE DEF P, c, next, e, before, w
<1>5. before \in Seq(Byte)
  <2>1. \A m \in 0..c : Joined(P, m) \in Seq(Byte)
    BY <1>1, JoinedTyped
  <2>2. QED
    BY <1>1, <1>4, <2>1
<1>6. w \in Seq(Byte) /\ Len(w) >= 2
  BY <1>1, <1>4
<1>7. PICK rest \in Seq(Byte) : Joined(P, c) = Joined(P, next) \o rest
  BY <1>1, JoinedPrefix
<1>8. e = (before \o w) \o rest
  BY <1>2, <1>3, <1>7
<1>9. PieceInPlace(before, w, rest)
  BY <1>5, <1>6, PieceInPlaceAlways
<1>10. Len(before) \in Nat /\ Len(w) \in Nat
  BY <1>5, <1>6, LenProperties
<1>11. e \in Seq(Byte) /\ Len(e) \in Nat
  BY EncodedTyped DEF e
<1>12. Len(before) + Len(w) <= Len(e) /\ \A i \in 1..Len(w) : e[Len(before) + i] = w[i]
  BY <1>8, <1>9, <1>10, <1>11 DEF PieceInPlace
<1>13. Follows(e, before, w)
  BY <1>5, <1>6, <1>10, <1>11, <1>12 DEF Follows
<1>14. QED
  BY <1>13 DEF e, before, w, next, P

\* The next piece of its encoding is the next in the buffer.
LEMMA NextPiece ==
    ASSUME PInv, EncodedSoFar, ReadsTheirs, status = "reading",
           NEW tx \in Transactions, Begins(tx), NEW n \in Nat, n = pos
    PROVE  /\ n < Count(tx)
           /\ offset + Len(Pieces(tx)[n + 1]) <= Len(buffer)
           /\ \A i \in 1..Len(Pieces(tx)[n + 1]) :
                  buffer[offset + i] = Pieces(tx)[n + 1][i]
<1> DEFINE P == Pieces(tx)
           before == Joined(P, n)
           w == P[n + 1]
<1>1. tx \in TxType
  BY TransactionsAssumption DEF TxType
<1>2. /\ Count(tx) \in Nat /\ Count(tx) >= 9
      /\ \A k \in 1..Count(tx) : P[k] \in Seq(Byte)
  BY <1>1, PiecesTyped
<1>3. n < Count(tx)
  <2>1. CASE n <= 6
    BY <1>2, <2>1
  <2>2. CASE n > 6
    <3>1. tags_count = Len(tx.tags)
      BY <2>2 DEF ReadsTheirs, Parsing
    <3>2. Last = Count(tx)
      BY <3>1 DEF Last, Count
    <3>3. n < Last
      BY DEF PInv, ReadsEnd
    <3>4. QED
      BY <3>2, <3>3
  <2>3. QED
    BY <2>1, <2>2
<1>4. ASSUME NEW k \in 1..n PROVE Made[k] = P[k]
  <2>1. k \in 1..Count(tx) /\ Made[k] = Piece(k)
    BY <1>2, <1>3 DEF Made
  <2>2. CASE k = 7
    <3>1. tags_count = Len(tx.tags)
      BY <2>2 DEF ReadsTheirs, Parsing
    <3>2. QED
      BY <2>1, <2>2, <3>1 DEF Piece, Pieces
  <2>3. CASE k # 7
    <3>1. k - 1 \in (0..(n - 1)) \ {6}
      BY <2>3
    <3>2. Bytes(Reads(k - 1)) = Text(tx, k - 1)
      BY <3>1 DEF ReadsTheirs, Parsing
    <3>3. QED
      BY <2>1, <2>3, <3>2 DEF Piece, Pieces
  <2>4. QED
    BY <2>2, <2>3
<1>5. Joined(Made, n) = before
  BY <1>4, JoinedAlike
<1>6. buffer \in Seq(Byte) /\ Len(buffer) \in Nat /\ offset \in 0..Len(buffer)
  <2>1. CASE buffer = <<>>
    BY <2>1 DEF PInv, ParserTypeOK
  <2>2. CASE buffer \in Buffers
    BY <2>2, BuffersAssumption, U16Bounds DEF PInv, ParserTypeOK
  <2>3. QED
    BY <2>1, <2>2 DEF PInv, ParserTypeOK
<1>7. SubSeq(buffer, 1, offset) = before
  BY <1>5 DEF EncodedSoFar, Parsing
<1>8. Len(before) = offset
  <2>1. Len(SubSeq(buffer, 1, offset)) = offset
    BY <1>6
  <2>2. QED
    BY <1>7, <2>1
<1>9. PICK e : e = encodeTx(tx)
  OBVIOUS
<1> HIDE DEF before, w
<1>10. /\ e \in Seq(Byte) /\ Len(e) \in Nat /\ Len(w) \in Nat
       /\ Len(before) + Len(w) <= Len(e)
       /\ \A i \in 1..Len(w) : e[Len(before) + i] = w[i]
  <2>1. Follows(encodeTx(tx), before, w)
    BY <1>1, <1>3, PieceOfEncoding DEF before, w
  <2>2. QED
    BY <1>9, <2>1 DEF Follows
<1>11. Len(e) >= offset + Len(w) /\ \A i \in 1..Len(w) : e[offset + i] = w[i]
  BY <1>8, <1>10
<1>12. Len(e) <= Len(buffer) /\ \A j \in 1..Len(e) : e[j] = buffer[j]
  <2>1. Len(e) <= Len(buffer) /\ e = SubSeq(buffer, 1, Len(e))
    BY <1>9 DEF Begins
  <2>2. \A j \in 1..Len(e) : SubSeq(buffer, 1, Len(e))[j] = buffer[j]
    BY <1>6, <1>10, <2>1
  <2>3. QED
    BY <2>1, <2>2
<1>13. \A i \in 1..Len(w) : buffer[offset + i] = w[i]
  <2> SUFFICES ASSUME NEW i \in 1..Len(w) PROVE buffer[offset + i] = w[i]
    OBVIOUS
  <2>1. offset + i \in 1..Len(e)
    BY <1>6, <1>10, <1>11
  <2>2. QED
    BY <1>11, <1>12, <2>1
<1>14. offset + Len(w) <= Len(buffer)
  BY <1>6, <1>10, <1>11, <1>12
<1>15. QED
  BY <1>3, <1>13, <1>14 DEF w

\* What is read is what was meant.
LEMMA TheirText ==
    ASSUME PInv, EncodedSoFar, ReadsTheirs, status = "reading",
           NEW tx \in Transactions, Begins(tx), NEW n \in Nat, n = pos
    PROVE  /\ Available(2)
           /\ n = 6 => U16 = Len(tx.tags)
           /\ n # 6 => /\ Complete(U16) /\ U16 = Len(Text(tx, n))
                       /\ [i \in 1..U16 |-> ByteAt((offset + 2) + i)] = Text(tx, n)
<1> DEFINE p == Pieces(tx)[n + 1]
           t == Len(tx.tags)
<1>1. tx \in TxType
  BY TransactionsAssumption DEF TxType
<1>2. /\ n < Count(tx) /\ offset + Len(p) <= Len(buffer)
      /\ \A i \in 1..Len(p) : buffer[offset + i] = p[i]
  BY NextPiece
<1>3. /\ Count(tx) \in Nat
      /\ \A k \in 1..Count(tx) : Pieces(tx)[k] \in Seq(Byte) /\ Len(Pieces(tx)[k]) >= 2
  BY <1>1, PiecesTyped
<1>4. n + 1 \in 1..Count(tx) /\ p \in Seq(Byte) /\ Len(p) \in Nat /\ Len(p) >= 2
  <2>1. n + 1 \in 1..Count(tx)
    BY <1>2, <1>3
  <2>2. p \in Seq(Byte) /\ Len(p) >= 2
    BY <1>3, <2>1
  <2>3. QED
    BY <2>1, <2>2, LenProperties
<1>5. Len(buffer) \in Nat /\ Len(buffer) <= 65535 /\ offset \in Nat
  BY U16InRange, U16Bounds DEF PInv, ParserTypeOK
<1>6. Available(2)
  BY <1>2, <1>4, <1>5 DEF Available
<1>7. U16 = p[1] * 256 + p[2]
  <2>1. /\ 1 \in 1..Len(p) /\ 2 \in 1..Len(p)
        /\ offset + 1 <= Len(buffer) /\ offset + 2 <= Len(buffer)
    BY <1>2, <1>4, <1>5
  <2>2. ByteAt(offset + 1) = buffer[offset + 1] /\ ByteAt(offset + 2) = buffer[offset + 2]
    BY <2>1 DEF ByteAt
  <2>3. buffer[offset + 1] = p[1] /\ buffer[offset + 2] = p[2]
    BY <1>2, <2>1
  <2>4. QED
    BY <2>2, <2>3 DEF U16
<1>8. ASSUME n = 6 PROVE U16 = t
  <2>1. p = encodeu16(t)
    BY <1>4, <1>8 DEF Pieces
  <2>2. t \in Nat
    BY <1>1, TextTyped
  <2>3. t <= 65535
    <3>1. Len(Joined(Pieces(tx), Count(tx))) >= 2 * Count(tx)
      BY <1>3, JoinedLength
    <3>2. Len(buffer) >= 2 * Count(tx)
      <4>1. Len(encodeTx(tx)) \in Nat /\ Len(encodeTx(tx)) >= 2 * Count(tx)
        BY <1>1, <3>1, EncodedTyped, EncodedPieces
      <4>2. QED
        BY <1>3, <1>5, <4>1 DEF Begins
    <3>3. Count(tx) = 9 + 2 * t
      BY DEF Count
    <3>4. QED
      BY <1>5, <2>2, <3>2, <3>3
  <2> HIDE DEF p
  <2>4. QED
    BY <1>7, <2>1, <2>2, <2>3, NumberEncoded
<1>9. ASSUME n # 6
      PROVE  /\ Complete(U16) /\ U16 = Len(Text(tx, n))
             /\ [i \in 1..U16 |-> ByteAt((offset + 2) + i)] = Text(tx, n)
  <2> DEFINE s == Text(tx, n)
  <2>1. p = encodeWithLen(s)
    <3>1. n + 1 # 7 /\ (n + 1) - 1 = n
      BY <1>9
    <3>2. QED
      BY <1>4, <3>1 DEF Pieces
  <2>2. s \in Seq(Byte) /\ Len(s) \in Nat
    <3>1. n \in 0..(Count(tx) - 1)
      BY <1>2, <1>3
    <3>2. s \in Seq(Byte)
      BY <1>1, <1>9, <3>1, TextTyped
    <3>3. QED
      BY <3>2, LenProperties
  <2> HIDE DEF s, p
  <2>3. /\ Len(p) = Len(s) + 2
        /\ \A i \in 1..2 : p[i] = encodeu16(Len(s))[i]
        /\ \A i \in 1..Len(s) : p[2 + i] = s[i]
    BY <2>1, <2>2, TextEncoded
  <2>4. U16 = Len(s)
    <3>1. Len(s) <= 65535
      BY <1>2, <1>5, <2>2, <2>3
    <3>2. encodeu16(Len(s))[1] * 256 + encodeu16(Len(s))[2] = Len(s)
      BY <2>2, <3>1, NumberEncoded
    <3>3. QED
      BY <1>7, <2>3, <3>2
  <2>5. Complete(U16)
    BY <1>2, <1>5, <2>2, <2>3, <2>4 DEF Complete, Available
  <2>6. ASSUME NEW i \in 1..Len(s) PROVE ByteAt((offset + 2) + i) = s[i]
    <3>1. /\ 2 + i \in 1..Len(p) /\ (offset + 2) + i = offset + (2 + i)
          /\ (offset + 2) + i <= Len(buffer)
      <4>1. Len(s) \in Nat /\ Len(p) = Len(s) + 2 /\ offset + Len(p) <= Len(buffer)
        BY <1>2, <2>2, <2>3
      <4>2. QED
        BY <1>5, <4>1
    <3>2. ByteAt((offset + 2) + i) = buffer[offset + (2 + i)]
      BY <3>1 DEF ByteAt
    <3>3. QED
      BY <1>2, <2>3, <3>1, <3>2
  <2>7. s = [i \in 1..Len(s) |-> s[i]]
    BY <2>2, LenProperties
  <2>8. [i \in 1..U16 |-> ByteAt((offset + 2) + i)] = s
    BY <2>4, <2>6, <2>7
  <2>9. QED
    BY <2>4, <2>5, <2>8 DEF s
<1>10. QED
  BY <1>6, <1>8, <1>9

\* Every step finds what was meant.
LEMMA TheirsStep ==
    ASSUME PInv, EncodedSoFar, ReadsTheirs, [Next]_vars
    PROVE  ReadsTheirs'
<1> SUFFICES ASSUME NEW tx \in Transactions, Begins(tx)', status' \in Parsing
             PROVE  (/\ \A k \in (0..(pos - 1)) \ {6} : Bytes(Reads(k)) = Text(tx, k)
                     /\ pos > 6 => tags_count = Len(tx.tags))'
  BY DEF ReadsTheirs
<1>1. CASE \E data \in Buffers : parser_parse(data)
  <2>1. pos' = 0
    BY <1>1 DEF parser_parse, parser_init_context
  <2>2. QED
    BY <2>1
<1>2. CASE TruncatedLength \/ TruncatedElement
  BY <1>2 DEF TruncatedLength, TruncatedElement, Parsing
<1>3. CASE ReadElement
  <2>1. PICK n \in Nat : n = pos
    BY DEF PInv, ParserTypeOK
  <2>2. status = "reading" /\ n # 6 /\ status \in Parsing /\ Begins(tx)
    BY <1>3, <2>1 DEF ReadElement, ReadingElement, Parsing, Begins
  <2>3. /\ \A k \in (0..(n - 1)) \ {6} : Bytes(Reads(k))' = Bytes(Reads(k))
        /\ Bytes(Reads(n))' = [i \in 1..U16 |-> ByteAt((offset + 2) + i)]
        /\ pos' = n + 1 /\ buffer' = buffer /\ tags_count' = tags_count
    BY <1>3, <2>1, ReadStays
  <2>4. [i \in 1..U16 |-> ByteAt((offset + 2) + i)] = Text(tx, n)
    BY <2>1, <2>2, <2>3, TheirText
  <2>5. /\ \A k \in (0..(n - 1)) \ {6} : Bytes(Reads(k)) = Text(tx, k)
        /\ n > 6 => tags_count = Len(tx.tags)
    BY <2>1, <2>2, <2>3 DEF ReadsTheirs
  <2>6. ASSUME NEW k \in (0..n) \ {6} PROVE Bytes(Reads(k))' = Text(tx, k)
    <3>1. k = n \/ k \in (0..(n - 1)) \ {6}
      OBVIOUS
    <3>2. QED
      BY <2>3, <2>4, <2>5, <3>1
  <2>7. (n + 1) - 1 = n /\ (n + 1 > 6 => n > 6)
    BY <2>2
  <2>8. QED
    BY <2>3, <2>5, <2>6, <2>7
<1>4. CASE ReadTagsCount
  <2>1. /\ pos = 6 /\ pos' = 7 /\ status = "reading" /\ status \in Parsing
        /\ UNCHANGED <<buffer, ptr, len>> /\ tags_count' = U16 /\ Begins(tx)
    BY <1>4 DEF ReadTagsCount, Parsing, Begins
  <2>2. U16 = Len(tx.tags)
    BY <2>1, TheirText
  <2>3. ASSUME NEW k \in (0..5) PROVE Bytes(Reads(k))' = Text(tx, k)
    <3>1. Reads(k) = Header[k + 1] /\ Reads(k)' = Header[k + 1]
      BY DEF Reads
    <3>2. Bytes(Reads(k))' = Bytes(Reads(k))
      BY <2>1, <3>1 DEF Bytes, ByteAt
    <3>3. Bytes(Reads(k)) = Text(tx, k)
      <4>1. \A m \in (0..(pos - 1)) \ {6} : Bytes(Reads(m)) = Text(tx, m)
        BY <2>1 DEF ReadsTheirs
      <4>2. k \in (0..(pos - 1)) \ {6}
        BY <2>1
      <4>3. QED
        BY <4>1, <4>2
    <3>4. QED
      BY <3>2, <3>3
  <2>4. (0..(7 - 1)) \ {6} = 0..5
    OBVIOUS
  <2>5. QED
    BY <2>1, <2>2, <2>3, <2>4
<1>5. CASE parser_validate \/ UNCHANGED vars
  <2>1. /\ status \in Parsing /\ Begins(tx)
        /\ UNCHANGED <<buffer, pos, ptr, len, tags_count>>
    BY <1>5 DEF parser_validate, vars, Parsing, Begins
  <2>2. \A k : Bytes(Reads(k))' = Bytes(Reads(k))
    BY <2>1 DEF Bytes, ByteAt, Reads, Last
  <2>3. QED
    BY <2>1, <2>2 DEF ReadsTheirs
<1>6. CASE Restart
  BY <1>6 DEF Restart, Parsing
<1>7. QED
  BY <1>1, <1>2, <1>3, <1>4, <1>5, <1>6 DEF Next, _read

\* A transaction read to its end is the one that was encoded.
LEMMA TheirFields ==
    ASSUME PInv, ReadsTheirs, status \in {"parsed", "ok"},
           NEW tx \in Transactions, Begins(tx)
    PROVE  /\ tags_count = Len(tx.tags)
           /\ Bytes(Field("format")) = tx.format /\ Bytes(Field("owner")) = tx.owner
           /\ Bytes(Field("target")) = tx.target /\ Bytes(Field("quantity")) = tx.quantity
           /\ Bytes(Field("reward")) = tx.reward /\ Bytes(Field("last_tx")) = tx.last_tx
           /\ Bytes(Field("data_size")) = tx.data_size
           /\ Bytes(Field("data_root")) = tx.data_root
           /\ \A i \in 1..tags_count : /\ Bytes(Key(i)) = tx.tags[i].key
                                       /\ Bytes(Value(i)) = tx.tags[i].value
<1>1. tags_count \in Nat /\ pos = 9 + 2 * tags_count
  BY U16Bounds DEF PInv, ParserTypeOK, ReadsEnd, Last
<1>2. tags_count = Len(tx.tags)
  BY <1>1 DEF ReadsTheirs, Parsing
<1>3. \A k \in Nat : k < pos /\ k # 6 => Bytes(Reads(k)) = Text(tx, k)
  BY <1>1 DEF ReadsTheirs, Parsing
<1>4. /\ Reads(0) = Field("format") /\ Reads(1) = Field("owner")
      /\ Reads(2) = Field("target") /\ Reads(3) = Field("quantity")
      /\ Reads(4) = Field("reward") /\ Reads(5) = Field("last_tx")
  BY Names DEF Reads
<1>5. /\ Text(tx, 0) = tx.format /\ Text(tx, 1) = tx.owner
      /\ Text(tx, 2) = tx.target /\ Text(tx, 3) = tx.quantity
      /\ Text(tx, 4) = tx.reward /\ Text(tx, 5) = tx.last_tx
  BY DEF Text
<1>6. /\ Bytes(Field("format")) = tx.format /\ Bytes(Field("owner")) = tx.owner
      /\ Bytes(Field("target")) = tx.target
  <2>1. 0 < pos /\ 1 < pos /\ 2 < pos
    BY <1>1
  <2>2. QED
    BY <1>3, <1>4, <1>5, <2>1
<1>7. /\ Bytes(Field("quantity")) = tx.quantity
      /\ Bytes(Field("reward")) = tx.reward /\ Bytes(Field("last_tx")) = tx.last_tx
  <2>1. 3 < pos /\ 4 < pos /\ 5 < pos
    BY <1>1
  <2>2. QED
    BY <1>3, <1>4, <1>5, <2>1
<1>8. /\ Bytes(Field("data_size")) = tx.data_size
      /\ Bytes(Field("data_root")) = tx.data_root
  <2> DEFINE d == 7 + 2 * tags_count
             r == 8 + 2 * tags_count
  <2>1. d \in Nat /\ d < pos /\ d # 6 /\ r \in Nat /\ r < pos /\ r # 6
    BY <1>1
  <2>2. /\ Reads(d) = Field("data_size") /\ Reads(r) = Field("data_root")
        /\ Text(tx, d) = tx.data_size /\ Text(tx, r) = tx.data_root
    BY <1>1, <1>2, ReadOf, TextOf
  <2> HIDE DEF d, r
  <2>3. QED
    BY <1>3, <2>1, <2>2
<1>9. ASSUME NEW i \in 1..tags_count
      PROVE  Bytes(Key(i)) = tx.tags[i].key /\ Bytes(Value(i)) = tx.tags[i].value
  <2> DEFINE d == 5 + 2 * i
             r == 6 + 2 * i
  <2>1. d \in Nat /\ d < pos /\ d # 6 /\ r \in Nat /\ r < pos /\ r # 6
    BY <1>1
  <2>2. /\ Reads(d) = Key(i) /\ Reads(r) = Value(i)
        /\ Text(tx, d) = tx.tags[i].key /\ Text(tx, r) = tx.tags[i].value
    BY <1>1, <1>2, ReadOf, TextOf
  <2> HIDE DEF d, r
  <2>3. QED
    BY <1>3, <2>1, <2>2
<1>10. QED
  BY <1>2, <1>6, <1>7, <1>8, <1>9

\* Every item has an answer if the fields that may have none have one.
LEMMA ItemsAnswered ==
    ASSUME ParserTypeOK, tags_count <= MAX_NUMBER_TAGS
    PROVE  (\A i \in Items : ItemAnswer(i) = "ok") <=>
               /\ Displayable(Field("target"), Bytes(Field("target")))
               /\ Displayable(Field("quantity"), Bytes(Field("quantity")))
               /\ Displayable(Field("last_tx"), Bytes(Field("last_tx")))
               /\ expert =>
                      /\ Displayable(Field("data_size"), Bytes(Field("data_size")))
                      /\ Bytes(Field("data_root")) # <<>> =>
                             Displayable(Field("data_root"), Bytes(Field("data_root")))
<1> DEFINE Shown(e) == Displayable(e, Bytes(e))
<1>1. \A i \in Items : ItemAnswer(i) = "ok" <=> \A e \in parser_getItem(i) : Shown(e)
  BY NoneBeyond DEF ItemAnswer
<1>2. tags_count \in Nat /\ RootItems \in {0, 1}
      /\ (RootItems = 0 <=> Bytes(Field("data_root")) = <<>>)
  BY RootCounts, U16Bounds DEF ParserTypeOK
<1>3. Shown(Field("reward")) /\ \A i \in 1..tags_count : Shown(Key(i)) /\ Shown(Value(i))
  <2>1. Shown(Field("reward"))
    BY Apart DEF Displayable
  <2>2. ASSUME NEW i \in 1..tags_count PROVE Shown(Key(i)) /\ Shown(Value(i))
    <3>1. i # 0
      BY <1>2
    <3>2. \A name : Field(name) # Key(i) /\ Field(name) # Value(i)
      BY <3>1, Apart
    <3>3. QED
      BY <3>2 DEF Displayable
  <2>3. QED
    BY <2>1, <2>2
<1> HIDE DEF Shown
<1>4. ASSUME \A i \in Items : ItemAnswer(i) = "ok"
      PROVE  /\ Shown(Field("target")) /\ Shown(Field("quantity")) /\ Shown(Field("last_tx"))
             /\ expert => /\ Shown(Field("data_size"))
                          /\ RootItems = 1 => Shown(Field("data_root"))
  <2>1. 0 \in Items /\ 1 \in Items /\ 3 \in Items
    BY <1>2, ItemCount
  <2>2. expert => 4 \in Items /\ (RootItems = 1 => 5 \in Items)
    BY <1>2, ItemCount
  <2>3. \A i \in Items : \A e \in parser_getItem(i) : Shown(e)
    BY <1>1, <1>4
  <2>4. QED
    BY <2>1, <2>2, <2>3, ItemKinds
<1>5. ASSUME Shown(Field("target")), Shown(Field("quantity")), Shown(Field("last_tx")),
             expert => /\ Shown(Field("data_size"))
                       /\ RootItems = 1 => Shown(Field("data_root")),
             NEW i \in Items
      PROVE  ItemAnswer(i) = "ok"
  <2> SUFFICES ASSUME NEW e \in parser_getItem(i) PROVE Shown(e)
    BY <1>1
  <2>1. CASE i \in {0, 1, 2, 3}
    BY <1>3, <1>5, <2>1, ItemKinds
  <2>2. CASE expert /\ i = 4
    BY <1>5, <2>2, ItemKinds
  <2>3. CASE expert /\ i = 5 /\ RootItems = 1
    BY <1>5, <2>3, ItemKinds
  <2>4. CASE expert /\ \E k \in 1..tags_count : i = 4 + RootItems + k
    BY <1>3, <2>4, ItemKinds
  <2>5. QED
    BY <2>1, <2>2, <2>3, <2>4, ItemCases
<1>6. QED
  BY <1>2, <1>4, <1>5 DEF Shown

\* Its encoding is not empty.
LEMMA EncodingNotEmpty ==
    ASSUME NEW tx \in TxType
    PROVE  encodeTx(tx) # <<>>
<1>1. /\ Count(tx) \in Nat /\ Count(tx) >= 9
      /\ \A k \in 1..Count(tx) : Pieces(tx)[k] \in Seq(Byte) /\ Len(Pieces(tx)[k]) >= 2
  BY PiecesTyped
<1>2. /\ Len(Joined(Pieces(tx), Count(tx))) \in Nat
      /\ Len(Joined(Pieces(tx), Count(tx))) >= 2 * Count(tx)
  BY <1>1, JoinedLength
<1>3. Len(encodeTx(tx)) \in Nat /\ Len(encodeTx(tx)) >= 18
  BY <1>1, <1>2, EncodedPieces
<1>4. Len(<<>>) = 0
  OBVIOUS
<1>5. QED
  BY <1>3, <1>4

\* A transaction is refused for what it is.
LEMMA RefusedStep ==
    ASSUME PInv, EncodedSoFar, ReadsTheirs, RefusedIsUnsignable, [Next]_vars
    PROVE  RefusedIsUnsignable'
<1> SUFFICES ASSUME NEW tx \in Transactions, buffer' = encodeTx(tx), status' \in Errors
             PROVE  ~Signable(tx)'
  BY DEF RefusedIsUnsignable
<1>1. expert' = expert => Signable(tx)' = Signable(tx)
  BY DEF Signable, Displayable, Encodable
<1>2. CASE \E data \in Buffers : parser_parse(data)
  <2>1. buffer' # <<>>
    BY EncodingNotEmpty, TransactionsAssumption DEF TxType
  <2>2. QED
    BY <1>2, <2>1 DEF parser_parse, parser_init_context, Errors
<1>3. CASE TruncatedLength \/ TruncatedElement
  <2>1. PICK n \in Nat : n = pos
    BY DEF PInv, ParserTypeOK
  <2>2. /\ status = "reading" /\ Begins(tx)
        /\ ~Available(2) \/ (n # 6 /\ ~Complete(U16))
    BY <1>3, <2>1, WholeBegins DEF TruncatedLength, TruncatedElement, ReadingElement
  <2>3. QED
    BY <2>1, <2>2, TheirText
<1>4. CASE ReadElement
  <2>1. PICK n \in Nat : n = pos
    BY DEF PInv, ParserTypeOK
  <2>2. /\ status = "reading" /\ Begins(tx) /\ n # 6 /\ expert' = expert
        /\ ~Supported(Reads(n), U16)
    BY <1>4, <2>1, WholeBegins DEF ReadElement, ReadingElement, Errors
  <2>3. U16 = Len(Text(tx, n)) /\ [i \in 1..U16 |-> ByteAt((offset + 2) + i)] = Text(tx, n)
    BY <2>1, <2>2, TheirText
  <2>4. tags_count \in Nat /\ n < Last /\ 0 < Last /\ 1 < Last
    BY <2>1, <2>2, U16Bounds DEF PInv, ParserTypeOK, ReadsEnd, Last
  <2>5. Reads(0) = Field("format") /\ Reads(1) = Field("owner")
    BY Names DEF Reads
  <2>6. CASE Reads(n) = Field("format")
    <3>1. n = 0
      BY <2>1, <2>2, <2>4, <2>5, <2>6, ReadsDiffer
    <3>2. Text(tx, n) = tx.format
      BY <3>1 DEF Text
    <3>3. Field("format") # Field("owner")
      BY Apart
    <3>4. ~(U16 = 1 /\ ByteAt(offset + 3) = FORMAT_2)
      BY <2>2, <2>6, <3>3 DEF Supported
    <3>5. tx.format # <<FORMAT_2>>
      <4> SUFFICES ASSUME tx.format = <<FORMAT_2>> PROVE FALSE
        OBVIOUS
      <4>1. U16 = 1
        BY <2>3, <3>2
      <4>2. (offset + 2) + 1 = offset + 3
        BY DEF PInv, ParserTypeOK
      <4>3. ByteAt(offset + 3) = FORMAT_2
        BY <2>3, <3>2, <4>1, <4>2
      <4>4. QED
        BY <3>4, <4>1, <4>3
    <3>6. QED
      BY <1>1, <2>2, <3>5 DEF Signable
  <2>7. CASE Reads(n) = Field("owner")
    <3>1. n = 1
      BY <2>1, <2>2, <2>4, <2>5, <2>7, ReadsDiffer
    <3>2. Text(tx, n) = tx.owner
      BY <3>1 DEF Text
    <3>3. Field("format") # Field("owner")
      BY Apart
    <3>4. Len(tx.owner) # OWNER_LEN
      BY <2>2, <2>3, <2>7, <3>2, <3>3 DEF Supported
    <3>5. QED
      BY <1>1, <2>2, <3>4 DEF Signable
  <2>8. QED
    BY <2>2, <2>6, <2>7 DEF Supported
<1>5. CASE ReadTagsCount
  <2>1. /\ pos = 6 /\ status = "reading" /\ Begins(tx) /\ expert' = expert
        /\ ~(U16 <= MAX_NUMBER_TAGS)
    BY <1>5, WholeBegins DEF ReadTagsCount, WithinLimit, Errors
  <2>2. U16 = Len(tx.tags)
    BY <2>1, TheirText
  <2>3. QED
    BY <1>1, <2>1, <2>2 DEF Signable
<1>6. CASE parser_validate
  <2>1. /\ status = "parsed" /\ Begins(tx) /\ expert' = expert
        /\ ~_validateTx \/ ~(\A i \in Items : ItemAnswer(i) = "ok")
    BY <1>6, WholeBegins DEF parser_validate, Errors
  <2>2. /\ Bytes(Field("owner")) = tx.owner
        /\ Bytes(Field("target")) = tx.target /\ Bytes(Field("quantity")) = tx.quantity
        /\ Bytes(Field("last_tx")) = tx.last_tx
        /\ Bytes(Field("data_size")) = tx.data_size
        /\ Bytes(Field("data_root")) = tx.data_root
    BY <2>1, TheirFields
  <2>3. ParserTypeOK /\ tags_count <= MAX_NUMBER_TAGS
    BY <2>1, TagsBounded DEF PInv
  <2>4. ~Signable(tx)
    BY <2>1, <2>2, <2>3, ItemsAnswered DEF Signable, _validateTx
  <2>5. QED
    BY <1>1, <2>1, <2>4
<1>7. CASE UNCHANGED vars
  BY <1>1, <1>7 DEF vars, RefusedIsUnsignable
<1>8. CASE Restart
  BY <1>8 DEF Restart, Errors
<1>9. QED
  BY <1>2, <1>3, <1>4, <1>5, <1>6, <1>7, <1>8 DEF Next, _read

-----------------------------------------------------------------------------
(* What was accepted.                                                      *)

\* It is a transaction, and its pieces are those that were read.
LEMMA AcceptedIsRead ==
    ASSUME PInv, status = "ok"
    PROVE  /\ Parsed \in TxType /\ Len(Parsed.tags) = tags_count
           /\ pos = Count(Parsed) /\ \A k \in 1..pos : Made[k] = Pieces(Parsed)[k]
           /\ \A k \in Nat : k < pos /\ k # 6 => Bytes(Reads(k)) = Text(Parsed, k)
<1>1. tags_count \in Nat /\ pos = 9 + 2 * tags_count
  BY U16Bounds DEF PInv, ParserTypeOK, ReadsEnd, Last
<1>2. tags_count <= MAX_NUMBER_TAGS /\ MAX_NUMBER_TAGS \in Nat
  <2>1. status \in {"reading", "parsed", "ok"} /\ pos > 6
    BY <1>1
  <2>2. QED
    BY <2>1, LimitsAssumption, U16Bounds DEF PInv, ParserTypeOK
<1>3. \A e \in Elements : Bytes(e) \in Seq(Byte)
  BY BytesTyped DEF PInv
<1>4. /\ Field("format") \in Elements /\ Field("owner") \in Elements
      /\ Field("target") \in Elements /\ Field("quantity") \in Elements
      /\ Field("reward") \in Elements /\ Field("last_tx") \in Elements
      /\ Field("data_size") \in Elements /\ Field("data_root") \in Elements
  BY Names DEF Elements, HeaderNames
<1>5. \A i \in 1..tags_count : Key(i) \in Elements /\ Value(i) \in Elements
  BY <1>1, <1>2 DEF Elements, TagsUpTo
<1> DEFINE ts == [i \in 1..tags_count |-> [key |-> Bytes(Key(i)), value |-> Bytes(Value(i))]]
<1>6. ts \in Seq([key : Seq(Byte), value : Seq(Byte)]) /\ Len(ts) = tags_count
  <2>1. \A i \in 1..tags_count : [key |-> Bytes(Key(i)), value |-> Bytes(Value(i))]
                                     \in [key : Seq(Byte), value : Seq(Byte)]
    BY <1>3, <1>5
  <2>2. QED
    BY <1>1, <2>1
<1>7. \A i \in 1..tags_count : ts[i].key = Bytes(Key(i)) /\ ts[i].value = Bytes(Value(i))
  OBVIOUS
<1> HIDE DEF ts
<1>8. Parsed = [format |-> Bytes(Field("format")), owner |-> Bytes(Field("owner")),
                target |-> Bytes(Field("target")), quantity |-> Bytes(Field("quantity")),
                reward |-> Bytes(Field("reward")), last_tx |-> Bytes(Field("last_tx")),
                tags |-> ts, data_size |-> Bytes(Field("data_size")),
                data_root |-> Bytes(Field("data_root"))]
  BY DEF Parsed, ts
<1>9. Parsed \in TxType
  BY <1>3, <1>4, <1>6, <1>8 DEF TxType
<1>10. Parsed.tags = ts /\ Len(Parsed.tags) = tags_count
  BY <1>6, <1>8
<1>11. pos = Count(Parsed)
  BY <1>1, <1>10 DEF Count
<1>12. ASSUME NEW k \in Nat, k < pos, k # 6 PROVE Bytes(Reads(k)) = Text(Parsed, k)
  <2>1. CASE k < 6
    <3>1. /\ Reads(0) = Field("format") /\ Reads(1) = Field("owner")
          /\ Reads(2) = Field("target") /\ Reads(3) = Field("quantity")
          /\ Reads(4) = Field("reward") /\ Reads(5) = Field("last_tx")
      BY Names DEF Reads
    <3>2. /\ Text(Parsed, 0) = Bytes(Field("format"))
          /\ Text(Parsed, 1) = Bytes(Field("owner"))
          /\ Text(Parsed, 2) = Bytes(Field("target"))
          /\ Text(Parsed, 3) = Bytes(Field("quantity"))
          /\ Text(Parsed, 4) = Bytes(Field("reward"))
          /\ Text(Parsed, 5) = Bytes(Field("last_tx"))
      BY <1>8 DEF Text
    <3>3. k = 0 \/ k = 1 \/ k = 2 \/ k = 3 \/ k = 4 \/ k = 5
      BY <2>1
    <3>4. QED
      BY <3>1, <3>2, <3>3
  <2>2. CASE k > 6
    <3>1. \/ \E i \in 1..tags_count : k = 5 + 2 * i /\ Reads(k) = Key(i)
          \/ \E i \in 1..tags_count : k = 6 + 2 * i /\ Reads(k) = Value(i)
          \/ k = 7 + 2 * tags_count /\ Reads(k) = Field("data_size")
          \/ k = 8 + 2 * tags_count /\ Reads(k) = Field("data_root")
      BY <1>1, <1>12, <2>2, ReadKinds DEF Last
    <3>2. /\ \A i \in 1..tags_count :
                 /\ Text(Parsed, 5 + 2 * i) = Bytes(Key(i))
                 /\ Text(Parsed, 6 + 2 * i) = Bytes(Value(i))
          /\ Text(Parsed, 7 + 2 * tags_count) = Bytes(Field("data_size"))
          /\ Text(Parsed, 8 + 2 * tags_count) = Bytes(Field("data_root"))
      <4>1. Parsed.data_size = Bytes(Field("data_size"))
            /\ Parsed.data_root = Bytes(Field("data_root"))
        BY <1>8
      <4>2. Len(Parsed.tags) \in Nat
        BY <1>1, <1>10
      <4>3. QED
        BY <1>7, <1>10, <4>1, <4>2, TextOf
    <3>3. QED
      BY <3>1, <3>2
  <2>3. QED
    BY <1>12, <2>1, <2>2
<1>13. ASSUME NEW k \in 1..pos PROVE Made[k] = Pieces(Parsed)[k]
  <2>1. Made[k] = Piece(k) /\ k \in 1..Count(Parsed)
    BY <1>11 DEF Made
  <2>2. CASE k = 7
    BY <1>10, <2>1, <2>2 DEF Piece, Pieces
  <2>3. CASE k # 7
    <3>1. k - 1 \in Nat /\ k - 1 < pos /\ k - 1 # 6
      BY <1>1, <2>3
    <3>2. Bytes(Reads(k - 1)) = Text(Parsed, k - 1)
      BY <1>12, <3>1
    <3>3. QED
      BY <2>1, <2>3, <3>2 DEF Piece, Pieces
  <2>4. QED
    BY <2>2, <2>3
<1>14. QED
  BY <1>9, <1>10, <1>11, <1>12, <1>13

\* The invariant covers AcceptedIsEncoded.
LEMMA AcceptedIsEncodedState == EInv => AcceptedIsEncoded
<1> SUFFICES ASSUME EInv, status = "ok"
             PROVE  offset <= Len(buffer) /\ SubSeq(buffer, 1, offset) = encodeTx(Parsed)
  BY DEF AcceptedIsEncoded
<1>1. /\ Parsed \in TxType /\ pos = Count(Parsed) /\ pos \in Nat
      /\ \A k \in 1..pos : Made[k] = Pieces(Parsed)[k]
  BY AcceptedIsRead DEF EInv, PInv, ParserTypeOK
<1>2. SubSeq(buffer, 1, offset) = Joined(Made, pos)
  BY DEF EInv, EncodedSoFar, Parsing
<1>3. Joined(Made, pos) = Joined(Pieces(Parsed), pos)
  BY <1>1, JoinedAlike
<1>4. encodeTx(Parsed) = Joined(Pieces(Parsed), Count(Parsed))
  BY <1>1, EncodedPieces
<1>5. offset <= Len(buffer)
  BY U16InRange, U16Bounds DEF EInv, PInv, ParserTypeOK
<1>6. QED
  BY <1>1, <1>2, <1>3, <1>4, <1>5

\* A transaction is its fields, and a sequence of tags its elements.
LEMMA TxIsItsFields ==
    ASSUME NEW s \in TxType, NEW t \in TxType,
           s.format = t.format, s.owner = t.owner, s.target = t.target,
           s.quantity = t.quantity, s.reward = t.reward, s.last_tx = t.last_tx,
           s.data_size = t.data_size, s.data_root = t.data_root,
           Len(s.tags) = Len(t.tags),
           \A i \in 1..Len(s.tags) : s.tags[i].key = t.tags[i].key
                                     /\ s.tags[i].value = t.tags[i].value
    PROVE  s = t
<1> DEFINE Tag == [key : Seq(Byte), value : Seq(Byte)]
<1>1. s.tags \in Seq(Tag) /\ t.tags \in Seq(Tag)
  BY DEF TxType
<1>2. \A i \in 1..Len(s.tags) : s.tags[i] \in Tag /\ t.tags[i] \in Tag
  <2> DEFINE st == s.tags
             tt == t.tags
  <2>1. st \in Seq(Tag) /\ tt \in Seq(Tag) /\ Len(st) = Len(tt)
    BY <1>1
  <2> HIDE DEF st, tt, Tag
  <2>2. \A i \in 1..Len(st) : st[i] \in Tag /\ tt[i] \in Tag
    BY <2>1, ElementOfSeq
  <2>3. QED
    BY <2>2 DEF st, tt
<1>3. ASSUME NEW i \in 1..Len(s.tags) PROVE s.tags[i] = t.tags[i]
  <2> DEFINE x == s.tags[i]
             y == t.tags[i]
  <2>1. x \in Tag /\ y \in Tag /\ x.key = y.key /\ x.value = y.value
    BY <1>2
  <2> HIDE DEF x, y
  <2>2. x = [key |-> x.key, value |-> x.value] /\ y = [key |-> y.key, value |-> y.value]
    BY <2>1
  <2>3. x = y
    BY <2>1, <2>2
  <2>4. QED
    BY <2>3 DEF x, y
<1>4. s.tags = t.tags
  <2> DEFINE st == s.tags
             tt == t.tags
  <2>1. st \in Seq(Tag) /\ tt \in Seq(Tag) /\ Len(st) = Len(tt)
        /\ \A i \in 1..Len(st) : st[i] = tt[i]
    BY <1>1, <1>3
  <2> HIDE DEF st, tt, Tag
  <2>2. st = tt
    BY <2>1, SeqEqual
  <2>3. QED
    BY <2>2 DEF st, tt
<1>5. /\ s = [format |-> s.format, owner |-> s.owner, target |-> s.target,
               quantity |-> s.quantity, reward |-> s.reward, last_tx |-> s.last_tx,
               tags |-> s.tags, data_size |-> s.data_size, data_root |-> s.data_root]
      /\ t = [format |-> t.format, owner |-> t.owner, target |-> t.target,
               quantity |-> t.quantity, reward |-> t.reward, last_tx |-> t.last_tx,
               tags |-> t.tags, data_size |-> t.data_size, data_root |-> t.data_root]
  BY DEF TxType
<1>6. QED
  BY <1>4, <1>5, Zenon

\* What was accepted is the transaction the buffer begins with.
LEMMA ParsedIsTheirs ==
    ASSUME EInv, status = "ok", NEW tx \in Transactions, Begins(tx)
    PROVE  Parsed = tx
<1>1. /\ tags_count = Len(tx.tags)
      /\ Bytes(Field("format")) = tx.format /\ Bytes(Field("owner")) = tx.owner
      /\ Bytes(Field("target")) = tx.target /\ Bytes(Field("quantity")) = tx.quantity
      /\ Bytes(Field("reward")) = tx.reward /\ Bytes(Field("last_tx")) = tx.last_tx
      /\ Bytes(Field("data_size")) = tx.data_size
      /\ Bytes(Field("data_root")) = tx.data_root
      /\ \A i \in 1..tags_count : /\ Bytes(Key(i)) = tx.tags[i].key
                                  /\ Bytes(Value(i)) = tx.tags[i].value
  BY TheirFields DEF EInv
<1>2. tx \in TxType
  BY TransactionsAssumption DEF TxType
<1>3. Parsed \in TxType /\ Len(Parsed.tags) = tags_count
  BY AcceptedIsRead DEF EInv
<1>4. /\ Parsed.format = Bytes(Field("format"))
      /\ Parsed.owner = Bytes(Field("owner"))
      /\ Parsed.target = Bytes(Field("target"))
      /\ Parsed.quantity = Bytes(Field("quantity"))
      /\ Parsed.reward = Bytes(Field("reward"))
      /\ Parsed.last_tx = Bytes(Field("last_tx"))
      /\ Parsed.data_size = Bytes(Field("data_size"))
      /\ Parsed.data_root = Bytes(Field("data_root"))
      /\ \A i \in 1..tags_count : /\ Parsed.tags[i].key = Bytes(Key(i))
                                  /\ Parsed.tags[i].value = Bytes(Value(i))
  BY DEF Parsed
<1> HIDE DEF Parsed
<1>5. QED
  BY <1>1, <1>2, <1>3, <1>4, TxIsItsFields

\* The invariant covers EncodedIsParsedBack.
LEMMA EncodedIsParsedBackState == EInv => EncodedIsParsedBack
<1> SUFFICES ASSUME EInv, NEW tx \in Transactions, buffer = encodeTx(tx)
             PROVE  /\ status \in Errors => ~Signable(tx)
                    /\ status = "ok" => Signable(tx) /\ Parsed = tx
  BY DEF EncodedIsParsedBack
<1>1. status \in Errors => ~Signable(tx)
  BY DEF EInv, RefusedIsUnsignable
<1>2. ASSUME status = "ok" PROVE Signable(tx) /\ Parsed = tx
  <2>1. /\ tags_count = Len(tx.tags)
        /\ Bytes(Field("format")) = tx.format /\ Bytes(Field("owner")) = tx.owner
        /\ Bytes(Field("target")) = tx.target /\ Bytes(Field("quantity")) = tx.quantity
        /\ Bytes(Field("reward")) = tx.reward /\ Bytes(Field("last_tx")) = tx.last_tx
        /\ Bytes(Field("data_size")) = tx.data_size
        /\ Bytes(Field("data_root")) = tx.data_root
        /\ \A i \in 1..tags_count : /\ Bytes(Key(i)) = tx.tags[i].key
                                    /\ Bytes(Value(i)) = tx.tags[i].value
    BY <1>2, WholeBegins, TheirFields DEF EInv
  <2>2. pos = 9 + 2 * tags_count /\ tags_count \in Nat
    BY <1>2, U16Bounds DEF EInv, PInv, ParserTypeOK, ReadsEnd, Last
  <2>3. tx.format = <<FORMAT_2>>
    BY <1>2, <2>1, <2>2 DEF EInv, VersionsSupported, Parsing
  <2>4. tx.owner = RSA_KEY
    BY <1>2, <2>1 DEF EInv, AcceptedIsOurs, _validateTx
  <2>5. Len(RSA_KEY) = OWNER_LEN
    <3>1. len[Field("owner")] = OWNER_LEN
      BY <1>2, <2>2 DEF EInv, VersionsSupported, Parsing
    <3>2. Field("owner") \in Elements /\ ParserTypeOK
      BY Names DEF Elements, HeaderNames, EInv, PInv
    <3>3. Len(Bytes(Field("owner"))) = len[Field("owner")]
      BY <3>2, BytesTyped
    <3>4. QED
      BY <2>1, <2>4, <3>1, <3>3
  <2>6. Len(tx.tags) <= MAX_NUMBER_TAGS
    <3>1. status \in {"reading", "parsed", "ok"} /\ pos > 6
      BY <1>2, <2>2
    <3>2. QED
      BY <2>1, <3>1 DEF EInv, PInv, ParserTypeOK
  <2>7. /\ ParserTypeOK /\ tags_count <= MAX_NUMBER_TAGS
        /\ \A i \in Items : ItemAnswer(i) = "ok"
    BY <1>2, TagsBounded DEF EInv, PInv, AcceptedIsShown
  <2>8. Signable(tx)
    BY <2>1, <2>3, <2>4, <2>5, <2>6, <2>7, ItemsAnswered DEF Signable
  <2>9. Parsed = tx
    BY <1>2, WholeBegins, ParsedIsTheirs
  <2>10. QED
    BY <2>8, <2>9
<1>3. QED
  BY <1>1, <1>2

-----------------------------------------------------------------------------
(* The theorems about the parser.                                          *)

\* The application starts with nothing read, of nobody.
LEMMA InitEInv == Init => EInv
<1> SUFFICES ASSUME Init PROVE EInv
  OBVIOUS
<1>1. status = "idle" /\ PInv
  BY InitPInv DEF Init
<1>2. QED
  BY <1>1 DEF EInv, EncodedSoFar, VersionsSupported, AcceptedIsOurs, ReadsTheirs,
              RefusedIsUnsignable, Parsing, Errors

\* Every step keeps the invariant.
LEMMA NextEInv == EInv /\ [Next]_vars => EInv'
<1> SUFFICES ASSUME EInv, [Next]_vars PROVE EInv'
  OBVIOUS
<1>1. PInv /\ EncodedSoFar /\ VersionsSupported /\ AcceptedIsOurs /\ ReadsTheirs
      /\ RefusedIsUnsignable
  BY DEF EInv
<1>2. PInv'
  BY <1>1, NextPInv
<1>3. EncodedSoFar' /\ VersionsSupported' /\ AcceptedIsOurs'
  BY <1>1, EncodedStep, VersionsStep, OursStep
<1>4. ReadsTheirs' /\ RefusedIsUnsignable'
  BY <1>1, TheirsStep, RefusedStep
<1>5. QED
  BY <1>2, <1>3, <1>4 DEF EInv

\* The parser, whatever it is given, keeps the invariant (tx_parse).
THEOREM EncodingInvariance == Spec => []EInv
BY InitEInv, NextEInv, PTL DEF Spec

\* An accepted buffer has one reading: what was consumed of it is the client's
\* encoding of the fields the device shows and signs, for every buffer and for
\* every number and length of tags (_read, parser_validate, encodeTx).
THEOREM AcceptedHasOneReading == Spec => []AcceptedIsEncoded
BY AcceptedIsEncodedState, EncodingInvariance, PTL

\* What the client encodes the device parses back: it is refused only when it
\* cannot be signed and accepted only as itself, whatever was parsed before
\* (encodeTx, tx_parse).
THEOREM EncodedComesBack == Spec => []EncodedIsParsedBack
BY EncodedIsParsedBackState, EncodingInvariance, PTL

-----------------------------------------------------------------------------
(* Hashes.                                                                 *)

\* The hashes of hs, accumulated one after the other.
Chain(dh, hs, n) ==
    LET acc[i \in 0..n] == IF i = 0 THEN dh ELSE hashAccumulate(acc[i - 1], hs[i])
    IN  acc[n]

\* The function a chain is defined by.
IsChain(f, dh, hs, n) ==
    f = [i \in 0..n |-> IF i = 0 THEN dh ELSE hashAccumulate(f[i - 1], hs[i])]

\* There is one.
LEMMA ChainExists ==
    ASSUME NEW dh, NEW hs, NEW n \in Nat
    PROVE  \E f : IsChain(f, dh, hs, n)
<1> DEFINE S == {m \in Nat : \E f : IsChain(f, dh, hs, m)}
<1>1. 0 \in S
  <2> DEFINE f == [i \in 0..0 |-> dh]
  <2>1. IsChain(f, dh, hs, 0)
    BY DEF IsChain
  <2>2. QED
    BY <2>1
<1>2. ASSUME NEW m \in Nat, m \in S PROVE m + 1 \in S
  <2>1. PICK f : IsChain(f, dh, hs, m)
    BY <1>2
  <2> DEFINE g == [i \in 0..(m + 1) |-> IF i = m + 1 THEN hashAccumulate(f[m], hs[m + 1])
                                                     ELSE f[i]]
  <2>2. \A i \in 0..(m + 1) : g[i] = IF i = 0 THEN dh ELSE hashAccumulate(g[i - 1], hs[i])
    BY <2>1 DEF IsChain
  <2>3. g = [i \in 0..(m + 1) |-> g[i]]
    OBVIOUS
  <2> HIDE DEF g
  <2>4. IsChain(g, dh, hs, m + 1)
    BY <2>2, <2>3 DEF IsChain
  <2>5. QED
    BY <2>4
<1> HIDE DEF S
<1>3. Nat \subseteq S
  BY <1>1, <1>2, NatSetInduction
<1>4. QED
  BY <1>3 DEF S

\* And it does not depend on what follows.
LEMMA ChainUnique ==
    ASSUME NEW dh, NEW hs, NEW n \in Nat, NEW m \in Nat, n <= m,
           NEW f, IsChain(f, dh, hs, n), NEW g, IsChain(g, dh, hs, m)
    PROVE  f[n] = g[n]
<1> DEFINE S == {i \in Nat : i <= n => f[i] = g[i]}
<1>1. 0 \in S
  BY DEF IsChain
<1>2. ASSUME NEW i \in Nat, i \in S PROVE i + 1 \in S
  <2> SUFFICES ASSUME i + 1 <= n PROVE f[i + 1] = g[i + 1]
    OBVIOUS
  <2>1. i + 1 \in 0..n /\ i + 1 \in 0..m /\ i + 1 # 0 /\ (i + 1) - 1 = i
    OBVIOUS
  <2>2. /\ f[i + 1] = hashAccumulate(f[i], hs[i + 1])
        /\ g[i + 1] = hashAccumulate(g[i], hs[i + 1])
    BY <2>1 DEF IsChain
  <2>3. f[i] = g[i]
    BY <1>2, <2>1
  <2>4. QED
    BY <2>2, <2>3
<1> HIDE DEF S
<1>3. Nat \subseteq S
  BY <1>1, <1>2, NatSetInduction
<1>4. QED
  BY <1>3 DEF S

\* What a chain comes to.
LEMMA ChainIs ==
    ASSUME NEW dh, NEW hs, NEW n \in Nat, NEW f, IsChain(f, dh, hs, n)
    PROVE  Chain(dh, hs, n) = f[n]
<1> DEFINE h == CHOOSE g : g = [i \in 0..n |-> IF i = 0 THEN dh
                                               ELSE hashAccumulate(g[i - 1], hs[i])]
<1>1. Chain(dh, hs, n) = h[n]
  BY DEF Chain
<1>2. IsChain(h, dh, hs, n)
  BY DEF IsChain
<1> HIDE DEF h
<1>3. h[n] = f[n]
  BY <1>2, ChainUnique
<1>4. QED
  BY <1>1, <1>3

\* Before the first hash.
LEMMA ChainStart ==
    ASSUME NEW dh, NEW hs
    PROVE  Chain(dh, hs, 0) = dh
<1>1. PICK f : IsChain(f, dh, hs, 0)
  BY ChainExists
<1>2. f[0] = dh
  BY <1>1 DEF IsChain
<1>3. QED
  BY <1>1, <1>2, ChainIs

\* One more hash.
LEMMA ChainMore ==
    ASSUME NEW dh, NEW hs, NEW n \in Nat, NEW k \in Nat, k = n + 1
    PROVE  Chain(dh, hs, k) = hashAccumulate(Chain(dh, hs, n), hs[k])
<1>1. PICK f : IsChain(f, dh, hs, n)
  BY ChainExists
<1>2. PICK g : IsChain(g, dh, hs, k)
  BY ChainExists
<1>3. g[k] = hashAccumulate(g[n], hs[k])
  BY <1>2 DEF IsChain
<1>4. f[n] = g[n]
  BY <1>1, <1>2, ChainUnique
<1>5. Chain(dh, hs, n) = f[n] /\ Chain(dh, hs, k) = g[k]
  BY <1>1, <1>2, ChainIs
<1>6. QED
  BY <1>3, <1>4, <1>5

\* Hashes that are equal are of the same.
LEMMA HashesDiffer ==
    /\ \A a, b, c, d : hashAccumulate(a, b) = hashAccumulate(c, d) => a = c /\ b = d
    /\ \A m, n : hashTag("list", m) = hashTag("list", n) => m = n
    /\ \A a, b, n : hashAccumulate(a, b) # hashTag("list", n)
    /\ \A s, t : hashBlob(s) = hashBlob(t) => s = t
<1>1. ASSUME NEW a, NEW b, NEW c, NEW d, hashAccumulate(a, b) = hashAccumulate(c, d)
      PROVE  a = c /\ b = d
  BY <1>1 DEF hashAccumulate
<1>2. ASSUME NEW m, NEW n, hashTag("list", m) = hashTag("list", n) PROVE m = n
  BY <1>2 DEF hashTag
<1>3. ASSUME NEW a, NEW b, NEW n PROVE hashAccumulate(a, b) # hashTag("list", n)
  <2>1. "acc" \in DOMAIN hashAccumulate(a, b)
    BY DEF hashAccumulate
  <2>2. "acc" \notin DOMAIN hashTag("list", n)
    BY DEF hashTag
  <2>3. QED
    BY <2>1, <2>2
<1>4. ASSUME NEW s, NEW t, hashBlob(s) = hashBlob(t) PROVE s = t
  <2>1. hashBlob(s).dataHash = [sha384 |-> s] /\ hashBlob(t).dataHash = [sha384 |-> t]
    BY DEF hashBlob
  <2>2. [sha384 |-> s].sha384 = s /\ [sha384 |-> t].sha384 = t
    OBVIOUS
  <2>3. QED
    BY <1>4, <2>1, <2>2
<1>5. QED
  BY <1>1, <1>2, <1>3, <1>4

\* Chains of as many hashes that are equal have the same links.
LEMMA ChainsDiffer ==
    ASSUME NEW dh, NEW eh, NEW hs, NEW gs, NEW n \in Nat,
           Chain(dh, hs, n) = Chain(eh, gs, n)
    PROVE  dh = eh /\ \A i \in 1..n : hs[i] = gs[i]
<1> DEFINE A(m) == Chain(dh, hs, m)
           B(m) == Chain(eh, gs, m)
           S == {m \in Nat : A(m) = B(m) => dh = eh /\ \A i \in 1..m : hs[i] = gs[i]}
<1>1. A(0) = dh /\ B(0) = eh
  BY ChainStart
<1>2. \A m \in Nat : /\ A(m + 1) = hashAccumulate(A(m), hs[m + 1])
                     /\ B(m + 1) = hashAccumulate(B(m), gs[m + 1])
  <2>1. ASSUME NEW m \in Nat PROVE A(m + 1) = hashAccumulate(A(m), hs[m + 1])
    <3>1. PICK next \in Nat : next = m + 1
      OBVIOUS
    <3>2. A(next) = hashAccumulate(A(m), hs[next])
      BY <3>1, ChainMore
    <3>3. QED
      BY <3>1, <3>2
  <2>2. ASSUME NEW m \in Nat PROVE B(m + 1) = hashAccumulate(B(m), gs[m + 1])
    <3>1. PICK next \in Nat : next = m + 1
      OBVIOUS
    <3>2. B(next) = hashAccumulate(B(m), gs[next])
      BY <3>1, ChainMore
    <3>3. QED
      BY <3>1, <3>2
  <2> HIDE DEF A, B
  <2>3. QED
    BY <2>1, <2>2
<1> HIDE DEF A, B
<1>3. 0 \in S
  BY <1>1
<1>4. ASSUME NEW m \in Nat, m \in S PROVE m + 1 \in S
  <2> SUFFICES ASSUME A(m + 1) = B(m + 1)
               PROVE  dh = eh /\ \A i \in 1..(m + 1) : hs[i] = gs[i]
    OBVIOUS
  <2>1. A(m) = B(m) /\ hs[m + 1] = gs[m + 1]
    BY <1>2, HashesDiffer
  <2>2. dh = eh /\ \A i \in 1..m : hs[i] = gs[i]
    BY <1>4, <2>1
  <2>3. \A i \in 1..(m + 1) : i = m + 1 \/ i \in 1..m
    OBVIOUS
  <2>4. QED
    BY <2>1, <2>2, <2>3
<1> HIDE DEF S
<1>5. Nat \subseteq S
  BY <1>3, <1>4, NatSetInduction
<1>6. n \in S
  BY <1>5
<1>7. A(n) = B(n)
  BY DEF A, B
<1>8. QED
  BY <1>6, <1>7 DEF S

\* Lists with equal hashes have as many elements.
LEMMA ListsDiffer ==
    ASSUME NEW a, NEW b, NEW hs, NEW gs, NEW n \in Nat, NEW m \in Nat,
           Chain(hashTag("list", a), hs, n) = Chain(hashTag("list", b), gs, m)
    PROVE  n = m
<1> DEFINE A(k) == Chain(hashTag("list", a), hs, k)
           B(k) == Chain(hashTag("list", b), gs, k)
           S == {k \in Nat : \A l \in Nat : A(k) = B(l) => k = l}
<1>1. A(0) = hashTag("list", a) /\ B(0) = hashTag("list", b)
  BY ChainStart
<1>2. \A k \in Nat : /\ A(k + 1) = hashAccumulate(A(k), hs[k + 1])
                     /\ B(k + 1) = hashAccumulate(B(k), gs[k + 1])
  <2>1. ASSUME NEW k \in Nat PROVE A(k + 1) = hashAccumulate(A(k), hs[k + 1])
    <3>1. PICK next \in Nat : next = k + 1
      OBVIOUS
    <3>2. A(next) = hashAccumulate(A(k), hs[next])
      BY <3>1, ChainMore
    <3>3. QED
      BY <3>1, <3>2
  <2>2. ASSUME NEW k \in Nat PROVE B(k + 1) = hashAccumulate(B(k), gs[k + 1])
    <3>1. PICK next \in Nat : next = k + 1
      OBVIOUS
    <3>2. B(next) = hashAccumulate(B(k), gs[next])
      BY <3>1, ChainMore
    <3>3. QED
      BY <3>1, <3>2
  <2> HIDE DEF A, B
  <2>3. QED
    BY <2>1, <2>2
<1> HIDE DEF A, B
<1>3. \A l \in Nat : l # 0 => l - 1 \in Nat /\ l = (l - 1) + 1
  OBVIOUS
<1>4. \A l \in Nat : l # 0 => B(l) = hashAccumulate(B(l - 1), gs[l])
  BY <1>2, <1>3
<1>5. 0 \in S
  BY <1>1, <1>4, HashesDiffer
<1>6. ASSUME NEW k \in Nat, k \in S PROVE k + 1 \in S
  <2> SUFFICES ASSUME NEW l \in Nat, A(k + 1) = B(l) PROVE k + 1 = l
    OBVIOUS
  <2>1. l # 0
    <3>1. A(k + 1) = hashAccumulate(A(k), hs[k + 1])
      BY <1>2
    <3>2. A(k + 1) # hashTag("list", b)
      BY <3>1, HashesDiffer
    <3>3. QED
      BY <1>1, <3>2
  <2>2. A(k) = B(l - 1)
    BY <1>2, <1>4, <2>1, HashesDiffer
  <2>3. k = l - 1
    BY <1>3, <1>6, <2>1, <2>2
  <2>4. QED
    BY <1>3, <2>1, <2>3
<1> HIDE DEF S
<1>7. Nat \subseteq S
  BY <1>5, <1>6, NatSetInduction
<1>8. n \in S
  BY <1>7
<1>9. A(n) = B(m)
  BY DEF A, B
<1>10. QED
  BY <1>8, <1>9 DEF S

-----------------------------------------------------------------------------
(* The digest of a transaction.                                            *)

TagOf(tag) ==
    hashAccumulate(hashAccumulate(hashTag("list", 2), hashBlob(tag.key)), hashBlob(tag.value))

TagsOf(ts) ==
    Chain(hashTag("list", Len(ts)), [i \in 1..Len(ts) |-> TagOf(ts[i])], Len(ts))

HeadOf(tx) == [i \in 1..6 |-> hashBlob(Text(tx, i - 1))]

TailOf(tx) == [i \in 1..2 |-> hashBlob(IF i = 1 THEN tx.data_size ELSE tx.data_root)]

\* What parser_getDigest makes of a transaction.
DigestOf(tx) ==
    Chain(hashAccumulate(Chain(hashTag("list", 9), HeadOf(tx), 6), TagsOf(tx.tags)),
          TailOf(tx), 2)

\* Chunks accumulates the hashes of its elements.
LEMMA ChunksAreChain ==
    ASSUME NEW dh, NEW es, NEW n \in Nat, Len(es) = n,
           NEW hs, \A i \in 1..n : hs[i] = hashBlob(Bytes(es[i]))
    PROVE  Chunks(dh, es) = Chain(dh, hs, n)
<1> DEFINE Link(acc, i) == hashChunkWithAccumulator(acc, Bytes(es[i]))
           h == CHOOSE g : g = [i \in 0..Len(es) |-> IF i = 0 THEN dh
                                                     ELSE hashChunkWithAccumulator(g[i - 1], Bytes(es[i]))]
<1>1. Chunks(dh, es) = h[n]
  BY DEF Chunks
<1>2. \A acc : \A i \in 1..n : Link(acc, i) = hashAccumulate(acc, hs[i])
  BY DEF hashChunkWithAccumulator
<1>3. PICK f : IsChain(f, dh, hs, n)
  BY ChainExists
<1>4. \A g : [i \in 0..n |-> IF i = 0 THEN dh ELSE Link(g[i - 1], i)]
                 = [i \in 0..n |-> IF i = 0 THEN dh ELSE hashAccumulate(g[i - 1], hs[i])]
  <2> TAKE g
  <2> HIDE DEF Link
  <2>1. \A i \in 0..n : i # 0 => i \in 1..n
    OBVIOUS
  <2>2. \A i \in 0..n : (IF i = 0 THEN dh ELSE Link(g[i - 1], i))
                            = (IF i = 0 THEN dh ELSE hashAccumulate(g[i - 1], hs[i]))
    BY <1>2, <2>1
  <2>3. QED
    BY <2>2
<1>5. h = CHOOSE g : g = [i \in 0..n |-> IF i = 0 THEN dh ELSE Link(g[i - 1], i)]
  OBVIOUS
<1> HIDE DEF Link, h
<1>6. f = [i \in 0..n |-> IF i = 0 THEN dh ELSE Link(f[i - 1], i)]
  BY <1>3, <1>4 DEF IsChain
<1>7. h = [i \in 0..n |-> IF i = 0 THEN dh ELSE Link(h[i - 1], i)]
  BY <1>5, <1>6
<1>8. IsChain(h, dh, hs, n)
  BY <1>4, <1>7 DEF IsChain
<1>9. QED
  BY <1>1, <1>8, ChainIs

\* TagsDigest accumulates the digests of the tags.
LEMMA TagsAreChain ==
    ASSUME NEW n \in Nat, n = tags_count,
           NEW hs, \A i \in 1..n : hs[i] = parser_getTagDigest(i)
    PROVE  TagsDigest = Chain(hashTag("list", n), hs, n)
<1> DEFINE dh == hashTag("list", n)
           h == CHOOSE g : g = [i \in 0..tags_count |->
                                  IF i = 0 THEN hashTag("list", tags_count)
                                  ELSE hashAccumulate(g[i - 1], parser_getTagDigest(i))]
<1>1. TagsDigest = h[n]
  BY DEF TagsDigest
<1>2. PICK f : IsChain(f, dh, hs, n)
  BY ChainExists
<1>3. \A g : [i \in 0..n |-> IF i = 0 THEN dh ELSE hashAccumulate(g[i - 1], parser_getTagDigest(i))]
                 = [i \in 0..n |-> IF i = 0 THEN dh ELSE hashAccumulate(g[i - 1], hs[i])]
  <2> TAKE g
  <2> HIDE DEF dh
  <2>1. \A i \in 0..n : i # 0 => i \in 1..n
    OBVIOUS
  <2>2. \A i \in 0..n :
            (IF i = 0 THEN dh ELSE hashAccumulate(g[i - 1], parser_getTagDigest(i)))
                = (IF i = 0 THEN dh ELSE hashAccumulate(g[i - 1], hs[i]))
    BY <2>1
  <2>3. QED
    BY <2>2
<1>4. h = CHOOSE g : g = [i \in 0..n |-> IF i = 0 THEN dh
                                   ELSE hashAccumulate(g[i - 1], parser_getTagDigest(i))]
  OBVIOUS
<1> HIDE DEF dh, h
<1>5. f = [i \in 0..n |-> IF i = 0 THEN dh ELSE hashAccumulate(f[i - 1], parser_getTagDigest(i))]
  BY <1>2, <1>3 DEF IsChain
<1>6. h = [i \in 0..n |-> IF i = 0 THEN dh ELSE hashAccumulate(h[i - 1], parser_getTagDigest(i))]
  BY <1>4, <1>5
<1>7. IsChain(h, dh, hs, n)
  BY <1>3, <1>6 DEF IsChain
<1>8. QED
  BY <1>1, <1>7, ChainIs DEF dh

\* The digest of an accepted transaction is that of what is shown.
LEMMA DigestIsOfParsed ==
    ASSUME PInv, status = "ok"
    PROVE  parser_getDigest = DigestOf(Parsed)
<1>1. PICK n \in Nat : n = tags_count
  BY U16Bounds DEF PInv, ParserTypeOK
<1>2. Len(Parsed.tags) = n
  BY <1>1, AcceptedIsRead
<1>3. /\ Parsed.format = Bytes(Field("format")) /\ Parsed.owner = Bytes(Field("owner"))
      /\ Parsed.target = Bytes(Field("target"))
      /\ Parsed.quantity = Bytes(Field("quantity"))
      /\ Parsed.reward = Bytes(Field("reward")) /\ Parsed.last_tx = Bytes(Field("last_tx"))
      /\ Parsed.data_size = Bytes(Field("data_size"))
      /\ Parsed.data_root = Bytes(Field("data_root"))
      /\ \A i \in 1..n : /\ Parsed.tags[i].key = Bytes(Key(i))
                         /\ Parsed.tags[i].value = Bytes(Value(i))
  BY <1>1 DEF Parsed
<1> DEFINE head == HeadOf(Parsed)
           tail == TailOf(Parsed)
           tags == [i \in 1..Len(Parsed.tags) |-> TagOf(Parsed.tags[i])]
<1>4. ASSUME NEW i \in 1..6 PROVE head[i] = hashBlob(Bytes(Header[i]))
  <2>1. head[i] = hashBlob(Text(Parsed, i - 1))
    BY DEF HeadOf
  <2>2. /\ Text(Parsed, 0) = Parsed.format /\ Text(Parsed, 1) = Parsed.owner
        /\ Text(Parsed, 2) = Parsed.target /\ Text(Parsed, 3) = Parsed.quantity
        /\ Text(Parsed, 4) = Parsed.reward /\ Text(Parsed, 5) = Parsed.last_tx
    BY DEF Text
  <2>3. i = 1 \/ i = 2 \/ i = 3 \/ i = 4 \/ i = 5 \/ i = 6
    OBVIOUS
  <2> HIDE DEF head
  <2>4. QED
    BY <1>3, <2>1, <2>2, <2>3, Names
<1>5. ASSUME NEW i \in 1..2 PROVE tail[i] = hashBlob(Bytes(Trailer[i]))
  <2>1. i = 1 \/ i = 2
    OBVIOUS
  <2>2. tail[1] = hashBlob(Parsed.data_size) /\ tail[2] = hashBlob(Parsed.data_root)
    BY DEF TailOf
  <2> HIDE DEF tail
  <2>3. QED
    BY <1>3, <2>1, <2>2, Names
<1>6. ASSUME NEW i \in 1..n PROVE tags[i] = parser_getTagDigest(i)
  <2>1. tags[i] = TagOf(Parsed.tags[i])
    BY <1>2
  <2> HIDE DEF tags
  <2>2. QED
    BY <1>3, <2>1 DEF TagOf, parser_getTagDigest, hashChunkWithAccumulator
<1> HIDE DEF head, tail, tags
<1>7. TagsDigest = TagsOf(Parsed.tags)
  <2>1. TagsDigest = Chain(hashTag("list", n), tags, n)
    BY <1>1, <1>6, TagsAreChain
  <2>2. TagsOf(Parsed.tags) = Chain(hashTag("list", n), tags, n)
    BY <1>2 DEF TagsOf, tags
  <2>3. QED
    BY <2>1, <2>2
<1>8. Chunks(hashTag("list", 9), Header) = Chain(hashTag("list", 9), head, 6)
  <2>1. Len(Header) = 6 /\ 6 \in Nat
    BY DEF Header
  <2>2. QED
    BY <1>4, <2>1, ChunksAreChain
<1>9. \A dh : Chunks(dh, Trailer) = Chain(dh, tail, 2)
  <2>1. Len(Trailer) = 2 /\ 2 \in Nat
    BY DEF Trailer
  <2>2. QED
    BY <1>5, <2>1, ChunksAreChain
<1>10. QED
  BY <1>7, <1>8, <1>9 DEF parser_getDigest, parser_applyDigestTags, DigestOf, head, tail

\* Tags with equal digests are equal.
LEMMA TagsDiffer ==
    ASSUME NEW m \in Nat, NEW n \in Nat, NEW ss, NEW ts, Len(ss) = m, Len(ts) = n,
           TagsOf(ss) = TagsOf(ts)
    PROVE  m = n /\ \A i \in 1..n : ss[i].key = ts[i].key /\ ss[i].value = ts[i].value
<1> DEFINE hs == [i \in 1..m |-> TagOf(ss[i])]
           gs == [i \in 1..n |-> TagOf(ts[i])]
<1>1. Chain(hashTag("list", m), hs, m) = Chain(hashTag("list", n), gs, n)
  BY DEF TagsOf
<1>2. (\A i \in 1..m : hs[i] = TagOf(ss[i])) /\ (\A i \in 1..n : gs[i] = TagOf(ts[i]))
  OBVIOUS
<1> HIDE DEF hs, gs
<1>3. m = n
  BY <1>1, ListsDiffer
<1>4. \A i \in 1..n : hs[i] = gs[i]
  BY <1>1, <1>3, ChainsDiffer
<1>5. ASSUME NEW i \in 1..n PROVE ss[i].key = ts[i].key /\ ss[i].value = ts[i].value
  <2>1. TagOf(ss[i]) = TagOf(ts[i])
    BY <1>2, <1>3, <1>4
  <2>2. /\ hashBlob(ss[i].key) = hashBlob(ts[i].key)
        /\ hashBlob(ss[i].value) = hashBlob(ts[i].value)
    BY <2>1, HashesDiffer DEF TagOf
  <2>3. QED
    BY <2>2, HashesDiffer
<1>6. QED
  BY <1>3, <1>5

\* Transactions with equal digests are equal.
LEMMA DigestsDiffer ==
    ASSUME NEW s \in TxType, NEW t \in TxType, DigestOf(s) = DigestOf(t)
    PROVE  s = t
<1> DEFINE A(tx) == hashAccumulate(Chain(hashTag("list", 9), HeadOf(tx), 6), TagsOf(tx.tags))
<1>1. A(s) = A(t) /\ \A i \in 1..2 : TailOf(s)[i] = TailOf(t)[i]
  <2>1. Chain(A(s), TailOf(s), 2) = Chain(A(t), TailOf(t), 2)
    BY DEF DigestOf
  <2> HIDE DEF A
  <2>2. QED
    BY <2>1, ChainsDiffer
<1>2. /\ Chain(hashTag("list", 9), HeadOf(s), 6) = Chain(hashTag("list", 9), HeadOf(t), 6)
      /\ TagsOf(s.tags) = TagsOf(t.tags)
  BY <1>1, HashesDiffer
<1>3. \A i \in 1..6 : HeadOf(s)[i] = HeadOf(t)[i]
  BY <1>2, ChainsDiffer
<1>4. \A k \in 0..5 : Text(s, k) = Text(t, k)
  <2> SUFFICES ASSUME NEW k \in 0..5 PROVE Text(s, k) = Text(t, k)
    OBVIOUS
  <2>1. k + 1 \in 1..6 /\ (k + 1) - 1 = k
    OBVIOUS
  <2>2. /\ HeadOf(s)[k + 1] = hashBlob(Text(s, k))
        /\ HeadOf(t)[k + 1] = hashBlob(Text(t, k))
    BY <2>1 DEF HeadOf
  <2>3. QED
    BY <1>3, <2>1, <2>2, HashesDiffer
<1>5. /\ s.format = t.format /\ s.owner = t.owner /\ s.target = t.target
      /\ s.quantity = t.quantity /\ s.reward = t.reward /\ s.last_tx = t.last_tx
  <2>1. \A tx : /\ Text(tx, 0) = tx.format /\ Text(tx, 1) = tx.owner
                /\ Text(tx, 2) = tx.target /\ Text(tx, 3) = tx.quantity
                /\ Text(tx, 4) = tx.reward /\ Text(tx, 5) = tx.last_tx
    BY DEF Text
  <2>2. /\ Text(s, 0) = Text(t, 0) /\ Text(s, 1) = Text(t, 1) /\ Text(s, 2) = Text(t, 2)
        /\ Text(s, 3) = Text(t, 3) /\ Text(s, 4) = Text(t, 4) /\ Text(s, 5) = Text(t, 5)
    BY <1>4
  <2>3. QED
    BY <2>1, <2>2
<1>6. s.data_size = t.data_size /\ s.data_root = t.data_root
  <2>1. TailOf(s)[1] = TailOf(t)[1] /\ TailOf(s)[2] = TailOf(t)[2]
    BY <1>1
  <2>2. \A tx : TailOf(tx)[1] = hashBlob(tx.data_size) /\ TailOf(tx)[2] = hashBlob(tx.data_root)
    BY DEF TailOf
  <2>3. QED
    BY <2>1, <2>2, HashesDiffer
<1>7. Len(s.tags) \in Nat /\ Len(t.tags) \in Nat
  BY TextTyped
<1>8. /\ Len(s.tags) = Len(t.tags)
      /\ \A i \in 1..Len(s.tags) : s.tags[i].key = t.tags[i].key
                                   /\ s.tags[i].value = t.tags[i].value
  BY <1>2, <1>7, TagsDiffer
<1>9. QED
  BY <1>5, <1>6, <1>8, TxIsItsFields

-----------------------------------------------------------------------------
(* The theorems about signing.                                             *)

\* What was signed is a transaction, with its digest.
SignedWhatWasShown == \A s \in signed : s.tx \in TxType /\ s.digest = DigestOf(s.tx)

SInv == PInv /\ SignedWhatWasShown

\* The device that signs parses as the parser does: what holds of the parser
\* holds while transactions are signed (crypto_sign).
THEOREM SigningIsParsing == DigestSpec => Spec
<1>1. DigestInit => Init
  BY DEF DigestInit
<1>2. [DigestNext]_dvars => [Next]_vars
  BY DEF DigestNext, crypto_sign, Next, dvars
<1>3. QED
  BY <1>1, <1>2, PTL DEF DigestSpec, Spec

\* Every step keeps what was signed what was shown.
LEMMA NextSInv == SInv /\ [DigestNext]_dvars => SInv'
<1> SUFFICES ASSUME SInv, [DigestNext]_dvars PROVE SInv'
  OBVIOUS
<1>1. PInv'
  <2>1. [Next]_vars
    BY DEF DigestNext, crypto_sign, Next, dvars
  <2>2. QED
    BY <2>1, NextPInv DEF SInv
<1>2. CASE signed' = signed \/ signed' = {}
  BY <1>1, <1>2 DEF SInv, SignedWhatWasShown
<1>3. CASE crypto_sign
  <2>1. /\ status = "ok"
        /\ signed' = signed \cup {[digest |-> parser_getDigest, tx |-> Parsed]}
    BY <1>3 DEF crypto_sign
  <2>2. Parsed \in TxType /\ parser_getDigest = DigestOf(Parsed)
    BY <2>1, AcceptedIsRead, DigestIsOfParsed DEF SInv
  <2>3. SignedWhatWasShown'
    BY <2>1, <2>2 DEF SInv, SignedWhatWasShown
  <2>4. QED
    BY <1>1, <2>3 DEF SInv
<1>4. QED
  BY <1>2, <1>3 DEF DigestNext, dvars

\* A digest stands for one transaction, for any number of tags of any length: no
\* signature is of a transaction other than the one that was shown
\* (parser_getDigest, crypto_sign).
THEOREM DigestIsOfOne == DigestSpec => []DigestBindsTransaction
<1>1. DigestInit => SInv
  BY InitPInv DEF DigestInit, SInv, SignedWhatWasShown
<1>2. SInv => DigestBindsTransaction
  BY DigestsDiffer DEF SInv, SignedWhatWasShown, DigestBindsTransaction
<1>3. QED
  BY <1>1, <1>2, NextSInv, PTL DEF DigestSpec

\* While it signs, the device parses as the theorems of the parser say: the
\* invariants the run checks hold of the specification it checks.
THEOREM SigningKeepsParsing ==
    DigestSpec => [](/\ ParserTypeOK /\ StaysInBuffer /\ NothingStale
                     /\ AcceptedIsEncoded /\ EncodedIsParsedBack /\ ReviewCoversTransaction)
BY SigningIsParsing, ParserTypeCorrect, ReadsInside, AcceptedIsFresh,
   AcceptedHasOneReading, EncodedComesBack, ReviewCoversAll, PTL

-----------------------------------------------------------------------------
(* The digest is the deep hash.                                            *)

\* What Trees and hashOf are defined by.
LEMMA TreesAre ==
    /\ Trees[0] = [blob : Seq(Byte)]
    /\ \A d \in 1..3 : Trees[d] = [blob : Seq(Byte)] \cup [list : Seq(Trees[d - 1])]
<1> DEFINE B == [blob : Seq(Byte)]
           Level(T) == B \cup [list : Seq(T)]
           T1 == Level(B)
           T2 == Level(T1)
           f == [d \in 0..3 |-> IF d = 0 THEN B ELSE IF d = 1 THEN T1
                                ELSE IF d = 2 THEN T2 ELSE Level(T2)]
           Is(g) == g = [d \in 0..3 |-> IF d = 0 THEN B ELSE Level(g[d - 1])]
<1>1. Is(f)
  <2>1. f[0] = B /\ f[1] = T1 /\ f[2] = T2 /\ f[3] = Level(T2)
    <3> HIDE DEF B, T1, T2, Level
    <3>1. QED
      OBVIOUS
  <2>2. f = [d \in 0..3 |-> f[d]]
    OBVIOUS
  <2>3. f[1] = Level(f[0]) /\ f[2] = Level(f[1]) /\ f[3] = Level(f[2])
    <3> HIDE DEF f
    <3>1. QED
      BY <2>1
  <2> HIDE DEF f, B, Level
  <2>4. \A d \in 0..3 : f[d] = IF d = 0 THEN B ELSE Level(f[d - 1])
    <3>1. \A d \in 0..3 : d = 0 \/ d = 1 \/ d = 2 \/ d = 3
      OBVIOUS
    <3>2. QED
      BY <2>1, <2>3, <3>1
  <2>5. QED
    BY <2>2, <2>4
<1> HIDE DEF f
<1>2. Trees = CHOOSE g : Is(g)
  BY DEF Trees, DEPTH
<1> HIDE DEF Is
<1>3. Is(Trees)
  BY <1>1, <1>2
<1> USE DEF Is
<1>4. \A d \in 0..3 : Trees[d] = IF d = 0 THEN B ELSE Level(Trees[d - 1])
  <2> HIDE DEF Level, B
  <2>1. QED
    BY <1>3
<1>5. QED
  BY <1>4

\* The trees of a transaction: blobs are in all of Trees, lists in the next.
LEMMA BlobIsTree ==
    ASSUME NEW data \in Seq(Byte), NEW d \in 0..3
    PROVE  Blob(data) \in Trees[d] /\ "blob" \in DOMAIN Blob(data) /\ Blob(data).blob = data
<1>1. Blob(data) \in [blob : Seq(Byte)] /\ "blob" \in DOMAIN Blob(data) /\ Blob(data).blob = data
  BY DEF Blob
<1>2. d = 0 \/ d \in 1..3
  OBVIOUS
<1>3. [blob : Seq(Byte)] \subseteq Trees[d]
  BY <1>2, TreesAre
<1>4. QED
  BY <1>1, <1>3

LEMMA ListIsTree ==
    ASSUME NEW d \in 1..3, NEW ts \in Seq(Trees[d - 1])
    PROVE  List(ts) \in Trees[d] /\ "blob" \notin DOMAIN List(ts) /\ List(ts).list = ts
<1>1. List(ts) \in [list : Seq(Trees[d - 1])]
  BY DEF List
<1>2. "blob" \notin DOMAIN List(ts) /\ List(ts).list = ts
  BY DEF List
<1>3. QED
  BY <1>1, <1>2, TreesAre

\* What hashOf is defined by.
HashIn(f, d, tree) ==
    IF "blob" \in DOMAIN tree
    THEN blobHash(tree.blob)
    ELSE listHash([i \in 1..Len(tree.list) |-> f[d - 1][tree.list[i]]])

LEMMA HashOfIs ==
    \A d \in 0..3 : hashOf[d] = [tree \in Trees[d] |-> HashIn(hashOf, d, tree)]
<1> DEFINE Level(g, d) == [tree \in Trees[d] |->
                  IF "blob" \in DOMAIN tree
                  THEN blobHash(tree.blob)
                  ELSE listHash([i \in 1..Len(tree.list) |-> g[tree.list[i]]])]
           Is(g) == g = [d \in 0..3 |-> Level(g[d - 1], d)]
           H0 == [tree \in Trees[0] |-> blobHash(tree.blob)]
           H1 == Level(H0, 1)
           H2 == Level(H1, 2)
           f == [d \in 0..3 |-> IF d = 0 THEN H0 ELSE IF d = 1 THEN H1
                                ELSE IF d = 2 THEN H2 ELSE Level(H2, 3)]
<1>1. \A g : Level(g, 0) = H0
  <2>1. \A tree \in Trees[0] : "blob" \in DOMAIN tree
    BY TreesAre
  <2>2. QED
    BY <2>1
<1> HIDE DEF Level, H0, H1, H2
<1>2. Is(f)
  <2>1. f[0] = H0 /\ f[1] = H1 /\ f[2] = H2 /\ f[3] = Level(H2, 3)
    OBVIOUS
  <2>2. f = [d \in 0..3 |-> f[d]]
    OBVIOUS
  <2> HIDE DEF f
  <2>3. /\ f[0] = Level(f[0 - 1], 0) /\ f[1] = Level(f[0], 1)
        /\ f[2] = Level(f[1], 2) /\ f[3] = Level(f[2], 3)
    BY <1>1, <2>1 DEF H1, H2
  <2>4. \A d \in 0..3 : f[d] = Level(f[d - 1], d)
    <3>1. \A d \in 0..3 : d = 0 \/ d = 1 \/ d = 2 \/ d = 3
      OBVIOUS
    <3>2. QED
      BY <2>3, <3>1
  <2>5. QED
    BY <2>2, <2>4
<1> HIDE DEF f
<1>3. hashOf = CHOOSE g : Is(g)
  BY DEF hashOf, DEPTH, Level
<1> HIDE DEF Is
<1>4. Is(hashOf)
  BY <1>2, <1>3
<1>5. \A d \in 0..3 : hashOf[d] = Level(hashOf[d - 1], d)
  BY <1>4 DEF Is
<1>6. QED
  BY <1>5 DEF Level, HashIn

\* Chains of the same hashes are the same.
LEMMA ChainAlike ==
    ASSUME NEW dh, NEW hs, NEW gs, NEW n \in Nat, \A i \in 1..n : hs[i] = gs[i]
    PROVE  Chain(dh, hs, n) = Chain(dh, gs, n)
<1> DEFINE S == {m \in Nat : m <= n => Chain(dh, hs, m) = Chain(dh, gs, m)}
<1>1. 0 \in S
  BY ChainStart
<1>2. ASSUME NEW m \in Nat, m \in S PROVE m + 1 \in S
  <2> SUFFICES ASSUME m + 1 <= n PROVE Chain(dh, hs, m + 1) = Chain(dh, gs, m + 1)
    OBVIOUS
  <2>1. PICK k \in Nat : k = m + 1
    OBVIOUS
  <2>2. Chain(dh, hs, k) = hashAccumulate(Chain(dh, hs, m), hs[k])
    BY <2>1, ChainMore
  <2>3. Chain(dh, gs, k) = hashAccumulate(Chain(dh, gs, m), gs[k])
    BY <2>1, ChainMore
  <2>4. hs[k] = gs[k] /\ Chain(dh, hs, m) = Chain(dh, gs, m)
    BY <1>2, <2>1
  <2>5. QED
    BY <2>1, <2>2, <2>3, <2>4
<1> HIDE DEF S
<1>3. Nat \subseteq S
  BY <1>1, <1>2, NatSetInduction
<1>4. QED
  BY <1>3 DEF S

\* The hash of a blob.
LEMMA BlobHashed ==
    ASSUME NEW data \in Seq(Byte), NEW d \in 0..3
    PROVE  hashOf[d][Blob(data)] = hashBlob(data)
<1>1. PICK tree : tree = Blob(data)
  OBVIOUS
<1>2. tree \in Trees[d] /\ "blob" \in DOMAIN tree /\ tree.blob = data
  BY <1>1, BlobIsTree
<1>3. hashOf[d][tree] = HashIn(hashOf, d, tree)
  BY <1>2, HashOfIs
<1>4. HashIn(hashOf, d, tree) = blobHash(data)
  BY <1>2 DEF HashIn
<1>5. blobHash(data) = hashBlob(data)
  BY DEF blobHash, hashBlob, hashTag
<1>6. QED
  BY <1>1, <1>3, <1>4, <1>5

\* The hash of a list is the chain of the hashes of its elements.
AreHashes(hs, d, ts, n) ==
    /\ ts \in Seq(Trees[d - 1]) /\ Len(ts) = n
    /\ \A i \in 1..n : hs[i] = hashOf[d - 1][ts[i]]

LEMMA ListHashed ==
    ASSUME NEW d \in 1..3, NEW n \in Nat, NEW ts, NEW hs, AreHashes(hs, d, ts, n)
    PROVE  List(ts) \in Trees[d] /\ hashOf[d][List(ts)] = Chain(hashTag("list", n), hs, n)
<1> DEFINE gs == [i \in 1..n |-> hashOf[d - 1][ts[i]]]
<1>1. PICK tree : tree = List(ts)
  OBVIOUS
<1>2. tree \in Trees[d] /\ "blob" \notin DOMAIN tree /\ tree.list = ts /\ Len(ts) = n
  BY <1>1, ListIsTree DEF AreHashes
<1>3. hashOf[d][tree] = HashIn(hashOf, d, tree)
  BY <1>2, HashOfIs
<1>4. HashIn(hashOf, d, tree) = listHash(gs)
  BY <1>2 DEF HashIn
<1>5. Len(gs) = n /\ \A i \in 1..n : gs[i] = hs[i]
  BY DEF AreHashes
<1> HIDE DEF gs
<1>6. listHash(gs) = Chain(hashTag("list", n), gs, n)
  BY <1>5 DEF listHash, Chain, hashTag, hashAccumulate
<1>7. Chain(hashTag("list", n), gs, n) = Chain(hashTag("list", n), hs, n)
  BY <1>5, ChainAlike
<1>8. QED
  BY <1>1, <1>2, <1>3, <1>4, <1>6, <1>7

\* A function on 1..n is a sequence of what its values are.
LEMMA SeqOf ==
    ASSUME NEW T, NEW n \in Nat, NEW s, s = [i \in 1..n |-> s[i]], \A i \in 1..n : s[i] \in T
    PROVE  s \in Seq(T)
OBVIOUS

\* The hash of a tag.
TagTree(tag) == List(<<Blob(tag.key), Blob(tag.value)>>)

LEMMA TagHashed ==
    ASSUME NEW tag, tag.key \in Seq(Byte), tag.value \in Seq(Byte)
    PROVE  TagTree(tag) \in Trees[1] /\ hashOf[1][TagTree(tag)] = TagOf(tag)
<1> DEFINE ts == <<Blob(tag.key), Blob(tag.value)>>
           hs == <<hashBlob(tag.key), hashBlob(tag.value)>>
           dh == hashTag("list", 2)
<1>1. PICK d \in 1..3 : d = 1
  OBVIOUS
<1>2. d - 1 = 0 /\ d - 1 \in 0..3
  BY <1>1
<1>3. Blob(tag.key) \in Trees[d - 1] /\ Blob(tag.value) \in Trees[d - 1]
  BY <1>2, BlobIsTree
<1>4. ts \in Seq(Trees[d - 1]) /\ Len(ts) = 2
  <2>1. ts = [i \in 1..2 |-> ts[i]] /\ Len(ts) = 2
    OBVIOUS
  <2>2. \A i \in 1..2 : ts[i] \in Trees[d - 1]
    BY <1>3
  <2> HIDE DEF ts
  <2>3. QED
    BY <2>1, <2>2, SeqOf
<1>5. /\ hashOf[d - 1][Blob(tag.key)] = hashBlob(tag.key)
      /\ hashOf[d - 1][Blob(tag.value)] = hashBlob(tag.value)
  BY <1>2, BlobHashed
<1>6. \A i \in 1..2 : hs[i] = hashOf[d - 1][ts[i]]
  BY <1>5
<1>7. TagTree(tag) = List(ts)
  BY DEF TagTree
<1>8. hs[1] = hashBlob(tag.key) /\ hs[2] = hashBlob(tag.value)
  OBVIOUS
<1> HIDE DEF ts, hs
<1>9. List(ts) \in Trees[d] /\ hashOf[d][List(ts)] = Chain(dh, hs, 2)
  <2>1. AreHashes(hs, d, ts, 2)
    BY <1>4, <1>6 DEF AreHashes
  <2>2. QED
    BY <2>1, ListHashed
<1>10. Chain(dh, hs, 2) = hashAccumulate(Chain(dh, hs, 1), hs[2])
  BY ChainMore
<1>11. Chain(dh, hs, 1) = hashAccumulate(Chain(dh, hs, 0), hs[1])
  BY ChainMore
<1>12. Chain(dh, hs, 0) = dh
  BY ChainStart
<1>13. QED
  BY <1>1, <1>7, <1>8, <1>9, <1>10, <1>11, <1>12 DEF TagOf

\* The hash of the list of tags.
TagTrees(tags) == [i \in 1..Len(tags) |-> TagTree(tags[i])]

LEMMA TagsHashed ==
    ASSUME NEW tags, NEW n \in Nat, Len(tags) = n,
           \A i \in 1..n : tags[i].key \in Seq(Byte) /\ tags[i].value \in Seq(Byte)
    PROVE  /\ List(TagTrees(tags)) \in Trees[2]
           /\ hashOf[2][List(TagTrees(tags))] = TagsOf(tags)
<1> DEFINE ts == TagTrees(tags)
           hs == [i \in 1..n |-> TagOf(tags[i])]
<1>1. PICK d \in 1..3 : d = 2
  OBVIOUS
<1>2. d - 1 = 1
  BY <1>1
<1>3. \A i \in 1..n : /\ TagTree(tags[i]) \in Trees[d - 1]
                      /\ hashOf[d - 1][TagTree(tags[i])] = TagOf(tags[i])
  BY <1>2, TagHashed
<1>4. \A i \in 1..n : ts[i] = TagTree(tags[i]) /\ hs[i] = TagOf(tags[i])
  BY DEF TagTrees
<1>5. ts \in Seq(Trees[d - 1]) /\ Len(ts) = n
  BY <1>3 DEF TagTrees
<1>6. TagsOf(tags) = Chain(hashTag("list", n), hs, n)
  BY DEF TagsOf
<1> HIDE DEF ts, hs
<1>7. \A i \in 1..n : hs[i] = hashOf[d - 1][ts[i]]
  BY <1>3, <1>4
<1>8. List(ts) \in Trees[d] /\ hashOf[d][List(ts)] = Chain(hashTag("list", n), hs, n)
  <2>1. AreHashes(hs, d, ts, n)
    BY <1>5, <1>7 DEF AreHashes
  <2>2. QED
    BY <2>1, ListHashed
<1>9. QED
  BY <1>1, <1>6, <1>8 DEF ts

\* The hash of a transaction.
LEMMA TransactionHashed ==
    ASSUME NEW tx \in TxType
    PROVE  deepHash(SignatureData(tx)) = DigestOf(tx)
<1> DEFINE tags == List(TagTrees(tx.tags))
           ts == <<Blob(tx.format), Blob(tx.owner), Blob(tx.target), Blob(tx.quantity),
                   Blob(tx.reward), Blob(tx.last_tx), tags,
                   Blob(tx.data_size), Blob(tx.data_root)>>
           hs == <<hashBlob(tx.format), hashBlob(tx.owner), hashBlob(tx.target),
                   hashBlob(tx.quantity), hashBlob(tx.reward), hashBlob(tx.last_tx),
                   TagsOf(tx.tags), hashBlob(tx.data_size), hashBlob(tx.data_root)>>
           dh == hashTag("list", 9)
           nine == Chain(dh, hs, 6)
<1>1. SignatureData(tx) = List(ts)
  BY DEF SignatureData, TagTrees, TagTree
<1>2. PICK d \in 1..3 : d = 3
  OBVIOUS
<1>3. d - 1 = 2 /\ d - 1 \in 0..3
  BY <1>2
<1>4. /\ tx.format \in Seq(Byte) /\ tx.owner \in Seq(Byte) /\ tx.target \in Seq(Byte)
      /\ tx.quantity \in Seq(Byte) /\ tx.reward \in Seq(Byte) /\ tx.last_tx \in Seq(Byte)
      /\ tx.data_size \in Seq(Byte) /\ tx.data_root \in Seq(Byte)
  BY DEF TxType
<1>5. PICK n \in Nat : n = Len(tx.tags)
  BY TextTyped
<1>6. \A i \in 1..n : tx.tags[i].key \in Seq(Byte) /\ tx.tags[i].value \in Seq(Byte)
  <2>1. tx.tags \in Seq([key : Seq(Byte), value : Seq(Byte)])
    BY DEF TxType
  <2>2. \A i \in 1..n : tx.tags[i] \in [key : Seq(Byte), value : Seq(Byte)]
    BY <1>5, <2>1, ElementOfSeq
  <2>3. QED
    BY <2>2
<1>7. tags \in Trees[d - 1] /\ hashOf[d - 1][tags] = TagsOf(tx.tags)
  BY <1>3, <1>5, <1>6, TagsHashed
<1>8. \A b \in Seq(Byte) : Blob(b) \in Trees[d - 1] /\ hashOf[d - 1][Blob(b)] = hashBlob(b)
  BY <1>3, BlobIsTree, BlobHashed
<1> HIDE DEF tags
<1>9. ts \in Seq(Trees[d - 1]) /\ Len(ts) = 9
  <2>1. /\ Blob(tx.format) \in Trees[d - 1] /\ Blob(tx.owner) \in Trees[d - 1]
        /\ Blob(tx.target) \in Trees[d - 1] /\ Blob(tx.quantity) \in Trees[d - 1]
        /\ Blob(tx.reward) \in Trees[d - 1] /\ Blob(tx.last_tx) \in Trees[d - 1]
        /\ Blob(tx.data_size) \in Trees[d - 1] /\ Blob(tx.data_root) \in Trees[d - 1]
    BY <1>4, <1>8
  <2>2. ts = [i \in 1..9 |-> ts[i]] /\ Len(ts) = 9
    OBVIOUS
  <2>3. \A i \in 1..9 : ts[i] \in Trees[d - 1]
    BY <1>7, <2>1
  <2> HIDE DEF ts
  <2>4. QED
    BY <2>2, <2>3, SeqOf
<1>10. \A i \in 1..9 : hs[i] = hashOf[d - 1][ts[i]]
  <2>1. /\ hashOf[d - 1][Blob(tx.format)] = hashBlob(tx.format)
        /\ hashOf[d - 1][Blob(tx.owner)] = hashBlob(tx.owner)
        /\ hashOf[d - 1][Blob(tx.target)] = hashBlob(tx.target)
        /\ hashOf[d - 1][Blob(tx.quantity)] = hashBlob(tx.quantity)
        /\ hashOf[d - 1][Blob(tx.reward)] = hashBlob(tx.reward)
        /\ hashOf[d - 1][Blob(tx.last_tx)] = hashBlob(tx.last_tx)
        /\ hashOf[d - 1][Blob(tx.data_size)] = hashBlob(tx.data_size)
        /\ hashOf[d - 1][Blob(tx.data_root)] = hashBlob(tx.data_root)
    BY <1>4, <1>8
  <2>2. QED
    BY <1>7, <2>1
<1>11. /\ \A i \in 1..6 : hs[i] = HeadOf(tx)[i]
       /\ hs[7] = TagsOf(tx.tags) /\ hs[8] = TailOf(tx)[1] /\ hs[9] = TailOf(tx)[2]
  <2>1. /\ Text(tx, 0) = tx.format /\ Text(tx, 1) = tx.owner
        /\ Text(tx, 2) = tx.target /\ Text(tx, 3) = tx.quantity
        /\ Text(tx, 4) = tx.reward /\ Text(tx, 5) = tx.last_tx
    BY DEF Text
  <2>2. \A i \in 1..6 : i = 1 \/ i = 2 \/ i = 3 \/ i = 4 \/ i = 5 \/ i = 6
    OBVIOUS
  <2>3. /\ HeadOf(tx)[1] = hashBlob(Text(tx, 0)) /\ HeadOf(tx)[2] = hashBlob(Text(tx, 1))
        /\ HeadOf(tx)[3] = hashBlob(Text(tx, 2)) /\ HeadOf(tx)[4] = hashBlob(Text(tx, 3))
        /\ HeadOf(tx)[5] = hashBlob(Text(tx, 4)) /\ HeadOf(tx)[6] = hashBlob(Text(tx, 5))
    BY DEF HeadOf
  <2>4. \A i \in 1..6 : hs[i] = HeadOf(tx)[i]
    BY <2>1, <2>2, <2>3
  <2>5. TailOf(tx)[1] = hashBlob(tx.data_size) /\ TailOf(tx)[2] = hashBlob(tx.data_root)
    BY DEF TailOf
  <2>6. QED
    BY <2>4, <2>5
<1> HIDE DEF ts, hs
<1>12. hashOf[d][List(ts)] = Chain(dh, hs, 9)
  <2>1. AreHashes(hs, d, ts, 9)
    BY <1>9, <1>10 DEF AreHashes
  <2>2. QED
    BY <2>1, ListHashed
<1>13. nine = Chain(dh, HeadOf(tx), 6)
  BY <1>11, ChainAlike
<1>14. Chain(dh, hs, 9) = hashAccumulate(Chain(dh, hs, 8), hs[9])
  BY ChainMore
<1>15. Chain(dh, hs, 8) = hashAccumulate(Chain(dh, hs, 7), hs[8])
  BY ChainMore
<1>16. Chain(dh, hs, 7) = hashAccumulate(nine, hs[7])
  BY ChainMore
<1> DEFINE eh == hashAccumulate(nine, TagsOf(tx.tags))
<1>17. Chain(eh, TailOf(tx), 2) = hashAccumulate(Chain(eh, TailOf(tx), 1), TailOf(tx)[2])
  BY ChainMore
<1>18. Chain(eh, TailOf(tx), 1) = hashAccumulate(Chain(eh, TailOf(tx), 0), TailOf(tx)[1])
  BY ChainMore
<1>19. Chain(eh, TailOf(tx), 0) = eh
  BY ChainStart
<1>20. DigestOf(tx) = Chain(eh, TailOf(tx), 2)
  BY <1>13 DEF DigestOf
<1>21. deepHash(SignatureData(tx)) = hashOf[d][List(ts)]
  BY <1>1, <1>2 DEF deepHash, DEPTH
<1>22. QED
  BY <1>11, <1>12, <1>14, <1>15, <1>16, <1>17, <1>18, <1>19, <1>20, <1>21

\* The accumulators come to the deep hash of what the buffer begins with.
LEMMA DigestIsDeepHashState == EInv => DigestIsDeepHash
<1> SUFFICES ASSUME EInv, status = "ok", NEW tx \in Transactions, Begins(tx)
             PROVE  parser_getDigest = deepHash(SignatureData(tx))
  BY DEF DigestIsDeepHash, Begins
<1>1. tx \in TxType
  BY TransactionsAssumption DEF TxType
<1>2. Parsed = tx
  BY ParsedIsTheirs
<1>3. parser_getDigest = DigestOf(Parsed)
  BY DigestIsOfParsed DEF EInv
<1>4. QED
  BY <1>1, <1>2, <1>3, TransactionHashed

\* What crypto_sign signs is what the network verifies: parser_getDigest, with its
\* written-out list lengths and order, computes Arweave's deep hash of the
\* transaction, for any fields and any number of tags.
THEOREM SignsDeepHash == DigestSpec => []DigestIsDeepHash
BY SigningIsParsing, EncodingInvariance, DigestIsDeepHashState, PTL

-----------------------------------------------------------------------------
(* Encodings are prefix-free, which is what the command handler assumes of *)
(* the transactions it is sent (ValidAssumption of ApduHandler).           *)

Ext == INSTANCE SequencesExt

\* No length of tx has more than the 16 bits it is encoded in.
Fits(tx) ==
    /\ Len(tx.tags) <= 65535
    /\ \A k \in (0..(Count(tx) - 1)) \ {6} : Len(Text(tx, k)) <= 65535

\* The bytes the parser consumes of a transaction it accepts.
Accepted == {encodeTx(tx) : tx \in {t \in TxType : Fits(t)}}

\* A piece is a number of two bytes, or one and as many bytes of text.
Numbered(tx, n, p) ==
    /\ n = 6 => p[1] * 256 + p[2] = Len(tx.tags) /\ Len(p) = 2
    /\ n # 6 => /\ Text(tx, n) \in Seq(Byte) /\ Len(Text(tx, n)) \in Nat
                /\ p[1] * 256 + p[2] = Len(Text(tx, n))
                /\ Len(p) = Len(Text(tx, n)) + 2
                /\ \A i \in 1..Len(Text(tx, n)) : p[2 + i] = Text(tx, n)[i]

LEMMA PieceNumber ==
    ASSUME NEW tx \in TxType, Fits(tx), NEW n \in Nat, n < Count(tx)
    PROVE  Numbered(tx, n, Pieces(tx)[n + 1])
<1> DEFINE p == Pieces(tx)[n + 1]
<1>1. Count(tx) \in Nat /\ n + 1 \in 1..Count(tx) /\ n \in 0..(Count(tx) - 1)
  BY PiecesTyped
<1>2. ASSUME n = 6 PROVE p[1] * 256 + p[2] = Len(tx.tags) /\ Len(p) = 2
  <2>1. p = encodeu16(Len(tx.tags))
    BY <1>1, <1>2 DEF Pieces
  <2>2. Len(tx.tags) \in Nat /\ Len(tx.tags) <= 65535
    BY TextTyped DEF Fits
  <2>3. QED
    BY <2>1, <2>2, NumberEncoded
<1>3. ASSUME n # 6
      PROVE  /\ Text(tx, n) \in Seq(Byte) /\ Len(Text(tx, n)) \in Nat
             /\ p[1] * 256 + p[2] = Len(Text(tx, n))
             /\ Len(p) = Len(Text(tx, n)) + 2
             /\ \A i \in 1..Len(Text(tx, n)) : p[2 + i] = Text(tx, n)[i]
  <2> DEFINE s == Text(tx, n)
  <2>1. p = encodeWithLen(s)
    <3>1. n + 1 # 7 /\ (n + 1) - 1 = n
      BY <1>3
    <3>2. QED
      BY <1>1, <3>1 DEF Pieces
  <2>2. s \in Seq(Byte)
    BY <1>1, <1>3, TextTyped
  <2>3. Len(s) \in Nat /\ Len(s) <= 65535
    BY <1>1, <1>3, <2>2, LenProperties DEF Fits
  <2> HIDE DEF s, p
  <2>4. /\ Len(p) = Len(s) + 2
        /\ \A i \in 1..2 : p[i] = encodeu16(Len(s))[i]
        /\ \A i \in 1..Len(s) : p[2 + i] = s[i]
    BY <2>1, <2>2, TextEncoded
  <2>5. encodeu16(Len(s))[1] * 256 + encodeu16(Len(s))[2] = Len(s)
    BY <2>3, NumberEncoded
  <2>6. p[1] * 256 + p[2] = Len(s)
    BY <2>4, <2>5
  <2>7. QED
    BY <2>2, <2>3, <2>4, <2>6 DEF s, p
<1>4. QED
  BY <1>2, <1>3 DEF Numbered

\* Encodings of which one begins with the other go on alike.
LEMMA NextAlike ==
    ASSUME NEW s \in TxType, NEW t \in TxType, Fits(s), Fits(t),
           Ext!IsPrefix(encodeTx(s), encodeTx(t)),
           NEW n \in Nat, n < Count(s), n < Count(t),
           \A k \in 1..n : Pieces(s)[k] = Pieces(t)[k]
    PROVE  Pieces(s)[n + 1] = Pieces(t)[n + 1]
<1> DEFINE j == Joined(Pieces(s), n)
           w == Pieces(s)[n + 1]
           v == Pieces(t)[n + 1]
           e == encodeTx(s)
           f == encodeTx(t)
<1>1. Joined(Pieces(t), n) = j
  BY JoinedAlike
<1>2. Follows(e, j, w) /\ Follows(f, j, v)
  BY <1>1, PieceOfEncoding
<1>3. Len(e) <= Len(f) /\ SubSeq(e, 1, Len(e)) = SubSeq(f, 1, Len(e))
  BY DEF Ext!IsPrefix
<1>4. /\ n = 6 => Len(w) = 2 /\ Len(v) = 2
      /\ n # 6 => /\ Len(w) = (w[1] * 256 + w[2]) + 2
                  /\ Len(v) = (v[1] * 256 + v[2]) + 2
  <2>1. Numbered(s, n, w) /\ Numbered(t, n, v)
    BY PieceNumber
  <2> HIDE DEF w, v
  <2>2. ASSUME n = 6 PROVE Len(w) = 2 /\ Len(v) = 2
    BY <2>1, <2>2 DEF Numbered
  <2>3. ASSUME n # 6 PROVE Len(w) = (w[1] * 256 + w[2]) + 2
    BY <2>1, <2>3 DEF Numbered
  <2>4. ASSUME n # 6 PROVE Len(v) = (v[1] * 256 + v[2]) + 2
    BY <2>1, <2>4 DEF Numbered
  <2>5. QED
    BY <2>2, <2>3, <2>4
<1> HIDE DEF j, w, v, e, f
<1>5. \A i \in 1..Len(e) : e[i] = f[i]
  <2>1. e \in Seq(Byte) /\ f \in Seq(Byte) /\ Len(e) \in Nat /\ Len(f) \in Nat
    BY <1>2 DEF Follows
  <2>2. ASSUME NEW i \in 1..Len(e) PROVE e[i] = f[i]
    <3>1. SubSeq(e, 1, Len(e))[i] = e[i]
      BY <2>1
    <3>2. SubSeq(f, 1, Len(e))[i] = f[i]
      BY <1>3, <2>1
    <3>3. QED
      BY <1>3, <3>1, <3>2
  <2>3. QED
    BY <2>2
<1>6. /\ Len(w) \in Nat /\ Len(v) \in Nat /\ Len(w) >= 2 /\ Len(v) >= 2
      /\ w \in Seq(Byte) /\ v \in Seq(Byte)
  BY <1>2 DEF Follows
<1>7. ASSUME NEW i \in 1..Len(w), i \in 1..Len(v) PROVE w[i] = v[i]
  <2>1. /\ e[Len(j) + i] = w[i] /\ f[Len(j) + i] = v[i]
        /\ Len(j) \in Nat /\ Len(e) \in Nat /\ Len(j) + Len(w) <= Len(e)
    BY <1>2, <1>7 DEF Follows
  <2>2. Len(j) + i \in 1..Len(e)
    BY <1>6, <2>1
  <2>3. QED
    BY <1>5, <2>1, <2>2
<1>8. w[1] = v[1] /\ w[2] = v[2]
  <2>1. 1 \in 1..Len(w) /\ 1 \in 1..Len(v) /\ 2 \in 1..Len(w) /\ 2 \in 1..Len(v)
    BY <1>6
  <2>2. QED
    BY <1>7, <2>1
<1>9. Len(w) = Len(v)
  BY <1>4, <1>8
<1>10. w = v
  BY <1>6, <1>7, <1>9, SeqEqual
<1>11. QED
  BY <1>10 DEF w, v

\* So they are of the same pieces.
LEMMA AllAlike ==
    ASSUME NEW s \in TxType, NEW t \in TxType, Fits(s), Fits(t),
           Ext!IsPrefix(encodeTx(s), encodeTx(t))
    PROVE  /\ Len(s.tags) = Len(t.tags)
           /\ \A k \in 1..Count(s) : Pieces(s)[k] = Pieces(t)[k]
<1> DEFINE P == Pieces(s)
           Q == Pieces(t)
           c == Count(s)
           d == Count(t)
           S == {n \in Nat : n <= c => n <= d /\ \A k \in 1..n : P[k] = Q[k]}
<1>1. c \in Nat /\ d \in Nat /\ c >= 9 /\ d >= 9
  BY PiecesTyped
<1>2. ASSUME P[7] = Q[7] PROVE Len(s.tags) = Len(t.tags) /\ c = d
  <2>1. PICK n \in Nat : n = 6
    OBVIOUS
  <2>2. n < c /\ n < d /\ n + 1 = 7
    BY <1>1, <2>1
  <2>3. P[7][1] * 256 + P[7][2] = Len(s.tags) /\ Q[7][1] * 256 + Q[7][2] = Len(t.tags)
    <3>1. Numbered(s, n, P[n + 1]) /\ Numbered(t, n, Q[n + 1])
      BY <2>2, PieceNumber
    <3> HIDE DEF P, Q
    <3>2. QED
      BY <2>1, <2>2, <3>1 DEF Numbered
  <2>4. Len(s.tags) = Len(t.tags)
    BY <1>2, <2>3
  <2>5. QED
    BY <2>4 DEF Count
<1>3. \A n \in Nat : n < c /\ n < d /\ (\A k \in 1..n : P[k] = Q[k]) => P[n + 1] = Q[n + 1]
  BY NextAlike
<1> HIDE DEF P, Q, c, d
<1>4. 0 \in S
  BY <1>1
<1>5. ASSUME NEW n \in Nat, n \in S PROVE n + 1 \in S
  <2> SUFFICES ASSUME n + 1 <= c
               PROVE  n + 1 <= d /\ \A k \in 1..(n + 1) : P[k] = Q[k]
    OBVIOUS
  <2>1. n < c /\ n <= d /\ \A k \in 1..n : P[k] = Q[k]
    BY <1>1, <1>5
  <2>2. n < d
    <3>1. CASE n < 7
      BY <1>1, <3>1
    <3>2. CASE n >= 7
      BY <1>1, <1>2, <2>1, <3>2
    <3>3. QED
      BY <3>1, <3>2
  <2>3. P[n + 1] = Q[n + 1]
    BY <1>3, <2>1, <2>2
  <2>4. \A k \in 1..(n + 1) : k = n + 1 \/ k \in 1..n
    OBVIOUS
  <2>5. QED
    BY <1>1, <2>1, <2>2, <2>3, <2>4
<1> HIDE DEF S
<1>6. Nat \subseteq S
  BY <1>4, <1>5, NatSetInduction
<1>7. c \in S
  BY <1>1, <1>6
<1>8. \A k \in 1..c : P[k] = Q[k]
  BY <1>1, <1>7 DEF S
<1>9. P[7] = Q[7]
  BY <1>1, <1>8
<1>10. QED
  BY <1>2, <1>8, <1>9 DEF P, Q, c

\* Texts in equal pieces are equal.
LEMMA TextsAlike ==
    ASSUME NEW s \in TxType, NEW t \in TxType, Fits(s), Fits(t),
           NEW n \in Nat, n # 6, n < Count(s), n < Count(t),
           Pieces(s)[n + 1] = Pieces(t)[n + 1]
    PROVE  Text(s, n) = Text(t, n)
<1> DEFINE a == Text(s, n)
           b == Text(t, n)
           p == Pieces(s)[n + 1]
<1>1. Numbered(s, n, p) /\ Numbered(t, n, p)
  BY PieceNumber
<1> HIDE DEF p
<1>2. /\ a \in Seq(Byte) /\ b \in Seq(Byte) /\ Len(a) = Len(b)
      /\ \A i \in 1..Len(a) : p[2 + i] = a[i]
      /\ \A i \in 1..Len(b) : p[2 + i] = b[i]
  BY <1>1 DEF Numbered
<1> HIDE DEF a, b
<1>3. \A i \in 1..Len(a) : a[i] = b[i]
  BY <1>2
<1>4. a = b
  BY <1>2, <1>3, SeqEqual
<1>5. QED
  BY <1>4 DEF a, b

\* No encoding begins with another.
LEMMA PrefixIsWhole ==
    ASSUME NEW s \in TxType, NEW t \in TxType, Fits(s), Fits(t),
           Ext!IsPrefix(encodeTx(s), encodeTx(t))
    PROVE  s = t
<1> DEFINE n == Len(s.tags)
<1>1. /\ n \in Nat /\ Len(t.tags) = n /\ Count(s) = 9 + 2 * n /\ Count(t) = 9 + 2 * n
      /\ \A k \in 1..Count(s) : Pieces(s)[k] = Pieces(t)[k]
  BY AllAlike, TextTyped DEF Count
<1>2. ASSUME NEW k \in Nat, k < 9 + 2 * n, k # 6 PROVE Text(s, k) = Text(t, k)
  <2>1. k + 1 \in 1..Count(s) /\ k < Count(s) /\ k < Count(t)
    BY <1>1, <1>2
  <2>2. Pieces(s)[k + 1] = Pieces(t)[k + 1]
    BY <1>1, <2>1
  <2>3. QED
    BY <1>2, <2>1, <2>2, TextsAlike
<1>3. /\ s.format = t.format /\ s.owner = t.owner /\ s.target = t.target
      /\ s.quantity = t.quantity /\ s.reward = t.reward /\ s.last_tx = t.last_tx
  <2>1. /\ Text(s, 0) = Text(t, 0) /\ Text(s, 1) = Text(t, 1) /\ Text(s, 2) = Text(t, 2)
        /\ Text(s, 3) = Text(t, 3) /\ Text(s, 4) = Text(t, 4) /\ Text(s, 5) = Text(t, 5)
    BY <1>1, <1>2
  <2>2. QED
    BY <2>1 DEF Text
<1>4. s.data_size = t.data_size /\ s.data_root = t.data_root
  <2>1. /\ Text(s, 7 + 2 * n) = Text(t, 7 + 2 * n)
        /\ Text(s, 8 + 2 * n) = Text(t, 8 + 2 * n)
    BY <1>1, <1>2
  <2>2. QED
    BY <1>1, <2>1, TextOf
<1>5. ASSUME NEW i \in 1..n
      PROVE  s.tags[i].key = t.tags[i].key /\ s.tags[i].value = t.tags[i].value
  <2>1. /\ Text(s, 5 + 2 * i) = Text(t, 5 + 2 * i)
        /\ Text(s, 6 + 2 * i) = Text(t, 6 + 2 * i)
    BY <1>1, <1>2
  <2>2. QED
    BY <1>1, <2>1, TextOf
<1>6. QED
  BY <1>1, <1>3, <1>4, <1>5, TxIsItsFields

\* The bytes a transaction is encoded in are some, and none of them is the
\* beginning of those of another, while no length has more than 16 bits: a
\* chunk of a transaction is not a transaction, which is what the command
\* handler takes for granted of those it is sent (encodeTx, process_chunk).
THEOREM AcceptedArePrefixFree ==
    /\ Accepted \subseteq Seq(Byte) \ {<<>>}
    /\ \A v, w \in Accepted : Ext!IsPrefix(v, w) => v = w
<1>1. ASSUME NEW w \in Accepted PROVE w \in Seq(Byte) \ {<<>>}
  <2>1. PICK tx \in TxType : w = encodeTx(tx)
    BY DEF Accepted
  <2>2. QED
    BY <2>1, EncodedTyped, EncodingNotEmpty
<1>2. ASSUME NEW v \in Accepted, NEW w \in Accepted, Ext!IsPrefix(v, w) PROVE v = w
  <2>1. PICK s \in TxType : Fits(s) /\ v = encodeTx(s)
    BY DEF Accepted
  <2>2. PICK t \in TxType : Fits(t) /\ w = encodeTx(t)
    BY DEF Accepted
  <2>3. s = t
    BY <1>2, <2>1, <2>2, PrefixIsWhole
  <2>4. QED
    BY <2>1, <2>2, <2>3
<1>3. QED
  BY <1>1, <1>2

\* No length of an accepted transaction has more than 16 bits.
LEMMA ParsedFits ==
    ASSUME PInv, status = "ok"
    PROVE  Parsed \in TxType /\ Fits(Parsed)
<1>1. /\ Parsed \in TxType /\ Len(Parsed.tags) = tags_count /\ pos = Count(Parsed)
      /\ \A k \in Nat : k < pos /\ k # 6 => Bytes(Reads(k)) = Text(Parsed, k)
  BY AcceptedIsRead
<1>2. /\ tags_count \in Nat /\ tags_count <= 65535
      /\ pos = Last /\ Last = 9 + 2 * tags_count
  BY U16Bounds DEF PInv, ParserTypeOK, ReadsEnd, Last
<1>3. tags_count <= MAX_NUMBER_TAGS
  <2>1. status \in {"reading", "parsed", "ok"} /\ pos > 6
    BY <1>2
  <2>2. QED
    BY <2>1 DEF PInv, ParserTypeOK
<1>4. ASSUME NEW k \in (0..(Count(Parsed) - 1)) \ {6} PROVE Len(Text(Parsed, k)) <= 65535
  <2>1. k \in Nat /\ k < pos /\ k < Last /\ k # 6
    BY <1>1, <1>2
  <2>2. Reads(k) \in Elements
    BY <1>2, <1>3, <2>1, ReadIsElement
  <2>3. Len(Bytes(Reads(k))) = len[Reads(k)]
    BY <2>2, BytesTyped DEF PInv
  <2>4. len[Reads(k)] <= 65535
    BY <2>2, U16Bounds DEF PInv, ParserTypeOK
  <2>5. QED
    BY <1>1, <2>1, <2>3, <2>4
<1>5. QED
  BY <1>1, <1>2, <1>4 DEF Fits

\* They are the bytes the parser accepts: those it consumed of a transaction it
\* accepted are such an encoding (tx_parse).
AcceptsEncodings == status = "ok" => SubSeq(buffer, 1, offset) \in Accepted

THEOREM AcceptsAccepted == Spec => []AcceptsEncodings
<1>1. EInv => AcceptsEncodings
  <2> SUFFICES ASSUME EInv, status = "ok" PROVE SubSeq(buffer, 1, offset) \in Accepted
    BY DEF AcceptsEncodings
  <2>1. Parsed \in TxType /\ Fits(Parsed)
    BY ParsedFits DEF EInv
  <2>2. SubSeq(buffer, 1, offset) = encodeTx(Parsed)
    BY AcceptedIsEncodedState DEF AcceptedIsEncoded
  <2>3. QED
    BY <2>1, <2>2 DEF Accepted
<1>2. QED
  BY <1>1, EncodingInvariance, PTL
=============================================================================
