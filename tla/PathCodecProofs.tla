-------------------------- MODULE PathCodecProofs --------------------------
(* Proofs about PathCodec, for paths of any bytes and any length. *)
EXTENDS PathCodec, SequenceTheorems, WellFoundedInduction, TLAPS

-----------------------------------------------------------------------------
(* Loops over positions.                                                     *)

LEMMA LeastNatural ==
  ASSUME NEW S \in SUBSET Nat, S # {}
  PROVE  \E n \in S : \A m \in S : n <= m
<1>1. PICK n \in S : \A m \in S : <<m, n>> \notin OpToRel(<, Nat)
  BY NatLessThanWellFounded, WFMin
<1>2. ASSUME NEW m \in S, m < n PROVE FALSE
  <2>1. m \in Nat /\ n \in Nat
    OBVIOUS
  <2>2. <<m, n>> \in OpToRel(<, Nat)
    BY <1>2, <2>1, Zenon DEF OpToRel
  <2> QED BY <1>1, <2>2
<1>3. \A m \in S : n <= m
  BY <1>2
<1> QED BY <1>3

\* What holds at a position if it holds at all later ones holds at all.
LEMMA Backwards ==
  ASSUME NEW n \in Nat, NEW G,
         \A i \in 1 .. n + 1 : (\A j \in i + 1 .. n + 1 : j \in G) => i \in G
  PROVE  1 .. n + 1 \subseteq G
<1> SUFFICES ASSUME NEW i \in 1 .. n + 1, i \notin G PROVE FALSE
  OBVIOUS
<1> DEFINE S == {m \in 0 .. n : n + 1 - m \notin G}
<1>1. S \in SUBSET Nat /\ n + 1 - i \in S
  OBVIOUS
<1>2. PICK m \in S : \A k \in S : m <= k
  <2> HIDE DEF S
  <2> QED BY <1>1, LeastNatural
<1>3. \A j \in n + 1 - m + 1 .. n + 1 : j \in G
  <2> SUFFICES ASSUME NEW j \in n + 1 - m + 1 .. n + 1, j \notin G PROVE FALSE
    OBVIOUS
  <2>1. n + 1 - j \in S
    OBVIOUS
  <2> QED BY <1>2, <2>1
<1> QED BY <1>2, <1>3

\* A loop that always goes on, and never beyond the end.
Runs(steps, n) ==
    /\ n \in Nat
    /\ steps \in [1 .. n -> [text : Seq(Byte), width : Nat \ {0}]]
    /\ \A i \in 1 .. n : i + steps[i].width <= n + 1

\* f is what such a loop writes, from k on.
Writes(steps, n, k, f) ==
    /\ f \in [k .. n + 1 -> Seq(Byte)]
    /\ f[n + 1] = <<>>
    /\ \A i \in k .. n : f[i] = steps[i].text \o f[i + steps[i].width]

LEMMA WrittenExists ==
  ASSUME NEW n, NEW steps, Runs(steps, n)
  PROVE  \E f : Writes(steps, n, 1, f)
<1> DEFINE G == {k \in 1 .. n + 1 : \E f : Writes(steps, n, k, f)}
<1>0. n \in Nat
  BY DEF Runs
<1>1. ASSUME NEW k \in 1 .. n + 1, \A j \in k + 1 .. n + 1 : j \in G PROVE k \in G
  <2>1. CASE k = n + 1
    <3> DEFINE f == [i \in k .. n + 1 |-> <<>>]
    <3>1. k .. n + 1 = {n + 1} /\ k .. n = {}
      BY <1>0, <2>1
    <3>2. f \in [k .. n + 1 -> Seq(Byte)] /\ f[n + 1] = <<>>
      BY <3>1
    <3>3. Writes(steps, n, k, f)
      BY <3>1, <3>2 DEF Writes
    <3> QED BY <3>3
  <2>2. CASE k \in 1 .. n
    <3>1. PICK f : Writes(steps, n, k + 1, f)
      <4>1. k + 1 \in k + 1 .. n + 1
        BY <1>0, <2>2
      <4> QED BY <1>1, <4>1
    <3> DEFINE g == [i \in k .. n + 1 |->
                        IF i = k THEN steps[k].text \o f[k + steps[k].width] ELSE f[i]]
    <3>2. /\ steps[k].text \in Seq(Byte)
          /\ k + steps[k].width \in k + 1 .. n + 1
      BY <1>0, <2>2 DEF Runs
    <3>3. steps[k].text \o f[k + steps[k].width] \in Seq(Byte)
      BY <3>1, <3>2, ConcatProperties DEF Writes
    <3>4. g \in [k .. n + 1 -> Seq(Byte)]
      <4> SUFFICES ASSUME NEW i \in k .. n + 1, i # k PROVE f[i] \in Seq(Byte)
        BY <3>3
      <4>1. i \in k + 1 .. n + 1
        BY <1>0, <2>2
      <4> QED BY <3>1, <4>1 DEF Writes
    <3>5. g[n + 1] = <<>>
      BY <1>0, <3>1, <2>2 DEF Writes
    <3>6. ASSUME NEW i \in k .. n PROVE g[i] = steps[i].text \o g[i + steps[i].width]
      <4>1. i \in 1 .. n /\ i + steps[i].width \in k + 1 .. n + 1
        BY <1>0, <2>2 DEF Runs
      <4>2. g[i + steps[i].width] = f[i + steps[i].width]
        BY <1>0, <2>2, <4>1
      <4>3. CASE i = k
        <5>1. i \in k .. n + 1
          BY <1>0, <2>2
        <5>2. g[i] = steps[i].text \o f[i + steps[i].width]
          BY <4>3, <5>1
        <5> QED BY <4>2, <5>2
      <4>4. CASE i # k
        <5>1. i \in k + 1 .. n /\ i \in k .. n + 1
          BY <1>0, <2>2, <4>4
        <5>2. f[i] = steps[i].text \o f[i + steps[i].width]
          BY <3>1, <5>1 DEF Writes
        <5> QED BY <4>2, <4>4, <5>1, <5>2
      <4> QED BY <4>3, <4>4
    <3> HIDE DEF g
    <3>7. Writes(steps, n, k, g)
      BY <3>4, <3>5, <3>6 DEF Writes
    <3> QED BY <3>7
  <2> QED BY <1>0, <2>1, <2>2
<1> HIDE DEF G
<1>2. 1 \in G
  <2>1. 1 .. n + 1 \subseteq G
    BY <1>0, <1>1, Backwards
  <2> QED BY <1>0, <2>1
<1> QED BY <1>2 DEF G

LEMMA WrittenFrom ==
  ASSUME NEW n, NEW steps, Runs(steps, n)
  PROVE  Writes(steps, n, 1, Written(steps))
<1>0. Len(steps) = n /\ n \in Nat
  BY DEF Runs
<1>1. PICK f : Writes(steps, n, 1, f)
  BY WrittenExists
<1> DEFINE New(h) == [i \in 1 .. Len(steps) + 1 |->
                         IF i > Len(steps) THEN <<>>
                         ELSE steps[i].text \o h[i + steps[i].width]]
<1>2. f = New(f)
  <2>1. \A i \in 1 .. n + 1 : f[i] = IF i > n THEN <<>>
                                    ELSE steps[i].text \o f[i + steps[i].width]
    <3> SUFFICES ASSUME NEW i \in 1 .. n + 1
                 PROVE  f[i] = IF i > n THEN <<>> ELSE steps[i].text \o f[i + steps[i].width]
      OBVIOUS
    <3>1. CASE i = n + 1
      BY <1>0, <1>1, <3>1 DEF Writes
    <3>2. CASE i \in 1 .. n
      <4>1. f[i] = steps[i].text \o f[i + steps[i].width]
        BY <1>1, <3>2 DEF Writes
      <4>2. ~(i > n)
        BY <1>0, <3>2
      <4> QED BY <4>1, <4>2, Zenon
    <3> QED BY <1>0, <3>1, <3>2
  <2>2. f = [i \in 1 .. n + 1 |-> f[i]]
    BY <1>1 DEF Writes
  <2> QED BY <1>0, <2>1, <2>2
<1>3. Written(steps) = New(Written(steps))
  <2>1. Written(steps) = CHOOSE h : h = New(h)
    BY DEF Written
  <2> HIDE DEF New
  <2> QED BY <1>2, <2>1
<1>4. /\ Written(steps)[n + 1] = <<>>
      /\ \A i \in 1 .. n :
            Written(steps)[i] = steps[i].text \o Written(steps)[i + steps[i].width]
  <2>1. ASSUME NEW i \in 1 .. n + 1
        PROVE  Written(steps)[i] = IF i > n THEN <<>>
                                   ELSE steps[i].text \o Written(steps)[i + steps[i].width]
    BY <1>0, <1>3, Zenon
  <2>2. n + 1 \in 1 .. n + 1 /\ n + 1 > n /\ \A i \in 1 .. n : i \in 1 .. n + 1 /\ ~(i > n)
    BY <1>0
  <2> QED BY <2>1, <2>2, Zenon
<1>5. 1 .. n + 1 \subseteq {i \in 1 .. n + 1 : Written(steps)[i] \in Seq(Byte)}
  <2> DEFINE G == {i \in 1 .. n + 1 : Written(steps)[i] \in Seq(Byte)}
  <2>1. ASSUME NEW i \in 1 .. n + 1, \A j \in i + 1 .. n + 1 : j \in G PROVE i \in G
    <3>1. CASE i = n + 1
      <4>1. <<>> \in Seq(Byte)
        OBVIOUS
      <4> QED BY <1>4, <3>1, <4>1, Zenon
    <3>2. CASE i \in 1 .. n
      <4>1. i + steps[i].width \in i + 1 .. n + 1 /\ steps[i].text \in Seq(Byte)
        BY <1>0, <3>2 DEF Runs
      <4>2. Written(steps)[i + steps[i].width] \in Seq(Byte)
        BY <2>1, <4>1
      <4>3. steps[i].text \o Written(steps)[i + steps[i].width] \in Seq(Byte)
        BY <4>1, <4>2, ConcatProperties
      <4> QED BY <1>0, <1>4, <3>2, <4>3
    <3> QED BY <1>0, <3>1, <3>2
  <2> HIDE DEF G
  <2>2. 1 .. n + 1 \subseteq G
    BY <1>0, <2>1, Backwards
  <2> QED BY <2>2 DEF G
<1>6. Written(steps) = [i \in 1 .. n + 1 |-> Written(steps)[i]]
  BY <1>0, <1>3
<1>7. Written(steps) \in [1 .. n + 1 -> Seq(Byte)]
  BY <1>5, <1>6
<1> QED BY <1>4, <1>7 DEF Writes

-----------------------------------------------------------------------------
(* Runes, quotes and escapes.                                                *)

LEMMA QuoteBytes ==
  ASSUME NEW s \in Seq(Byte), NEW i \in Nat \ {0}
  PROVE  QuoteAt(s, i) <=> i + 2 <= Len(s) /\ s[i] = 226 /\ s[i + 1] = 128 /\ s[i + 2] = 155
<1> SUFFICES ASSUME i + 2 <= Len(s)
             PROVE  SubSeq(s, i, i + 2) = Quote
                    <=> s[i] = 226 /\ s[i + 1] = 128 /\ s[i + 2] = 155
  BY DEF QuoteAt
<1> DEFINE q == SubSeq(s, i, i + 2)
<1>1. q \in Seq(Byte) /\ Len(q) = 3 /\ q[1] = s[i] /\ q[2] = s[i + 1] /\ q[3] = s[i + 2]
  BY SubSeqProperties
<1>2. Quote \in Seq(Byte) /\ Len(Quote) = 3
      /\ Quote[1] = 226 /\ Quote[2] = 128 /\ Quote[3] = 155
  BY DEF Quote, Byte
<1> HIDE DEF q
<1>3. q = Quote <=> \A k \in 1 .. 3 : q[k] = Quote[k]
  BY <1>1, <1>2, SeqEqual
<1> QED BY <1>1, <1>2, <1>3 DEF q

LEMMA Bytes ==
  ASSUME NEW s \in Seq(Byte)
  PROVE  Len(s) \in Nat /\ \A i \in 1 .. Len(s) : s[i] \in 0 .. 255
<1>1. Len(s) \in Nat /\ s \in [1 .. Len(s) -> Byte]
  BY LenProperties
<1> QED BY <1>1 DEF Byte

\* What RuneLen makes of a byte: those that continue a rune announce none.
LeadShape(b) ==
    /\ Announced(b) \in 0 .. 4
    /\ Announced(b) # 0 => b \notin 128 .. 191
    /\ b = 226 => Announced(b) = 3
    /\ b < 128 => Announced(b) = 1
    /\ Second(b) \subseteq 128 .. 191

LEMMA LeadBytes == \A b \in 0 .. 255 : LeadShape(b)
<1> SUFFICES ASSUME NEW b \in 0 .. 255 PROVE LeadShape(b)
  OBVIOUS
<1>1. /\ Announced(b) \in 0 .. 4
      /\ Announced(b) # 0 => b \notin 128 .. 191
      /\ b = 226 => Announced(b) = 3
      /\ b < 128 => Announced(b) = 1
  BY DEF Announced
<1>2. Second(b) \subseteq 128 .. 191
  BY DEF Second
<1> QED BY <1>1, <1>2 DEF LeadShape

LEMMA RuneShape ==
  ASSUME NEW s \in Seq(Byte), NEW i \in 1 .. Len(s)
  PROVE  /\ RuneLen(s, i) \in 0 .. 4
         /\ i + RuneLen(s, i) - 1 <= Len(s)
         /\ RuneLen(s, i) # 0 => s[i] \notin 128 .. 191
         /\ \A j \in i + 1 .. i + RuneLen(s, i) - 1 : s[j] \in 128 .. 191
         /\ RuneLen(s, i) # 0 /\ s[i] = 226 => RuneLen(s, i) = 3
         /\ s[i] < 128 => RuneLen(s, i) = 1
<1>1. s[i] \in 0 .. 255 /\ Len(s) \in Nat /\ i \in 1 .. Len(s)
  BY Bytes
<1>2. LeadShape(s[i])
  BY <1>1, LeadBytes, Zenon
<1> DEFINE n == Announced(s[i])
<1>3. CASE /\ i + n - 1 <= Len(s)
           /\ n > 1 => s[i + 1] \in Second(s[i])
           /\ \A j \in i + 2 .. i + n - 1 : s[j] \in 128 .. 191
  <2>1. RuneLen(s, i) = n
    BY <1>3 DEF RuneLen
  <2>2. ASSUME NEW j \in i + 1 .. i + n - 1 PROVE s[j] \in 128 .. 191
    <3>1. CASE j = i + 1
      <4>1. n > 1
        BY <1>1, <1>2, <3>1 DEF LeadShape
      <4>2. s[j] \in Second(s[i])
        BY <1>3, <3>1, <4>1
      <4> QED BY <1>2, <4>2 DEF LeadShape
    <3>2. CASE j \in i + 2 .. i + n - 1
      BY <1>3, <3>2
    <3> QED BY <1>1, <1>2, <3>1, <3>2 DEF LeadShape
  <2> QED BY <1>1, <1>2, <1>3, <2>1, <2>2 DEF LeadShape
<1>4. CASE ~(/\ i + n - 1 <= Len(s)
             /\ n > 1 => s[i + 1] \in Second(s[i])
             /\ \A j \in i + 2 .. i + n - 1 : s[j] \in 128 .. 191)
  <2>1. RuneLen(s, i) = 0
    BY <1>4 DEF RuneLen
  <2>2. ~(s[i] < 128)
    <3> SUFFICES ASSUME s[i] < 128 PROVE FALSE
      OBVIOUS
    <3>1. n = 1
      BY <1>2 DEF LeadShape
    <3> HIDE DEF n
    <3> QED BY <1>1, <1>4, <3>1
  <2> QED BY <1>1, <2>1, <2>2
<1> QED BY <1>3, <1>4

LEMMA RuneLocal ==
  ASSUME NEW a \in Seq(Byte), NEW i \in 1 .. Len(a),
         NEW b \in Seq(Byte), NEW j \in 1 .. Len(b),
         RuneLen(a, i) # 0,
         j + RuneLen(a, i) - 1 <= Len(b),
         \A k \in 0 .. RuneLen(a, i) - 1 : b[j + k] = a[i + k]
  PROVE  RuneLen(b, j) = RuneLen(a, i)
<1>1. a[i] \in 0 .. 255 /\ Len(a) \in Nat /\ Len(b) \in Nat
  BY Bytes
<1> DEFINE n == Announced(a[i])
<1>2. /\ RuneLen(a, i) = n
      /\ i + n - 1 <= Len(a)
      /\ n > 1 => a[i + 1] \in Second(a[i])
      /\ \A k \in i + 2 .. i + n - 1 : a[k] \in 128 .. 191
  BY DEF RuneLen
<1>3. n \in 1 .. 4
  <2>0. LeadShape(a[i])
    BY <1>1, LeadBytes, Zenon
  <2>1. n \in 0 .. 4
    BY <2>0 DEF LeadShape
  <2> QED BY <1>2, <2>1
<1> HIDE DEF n
<1>4. b[j] = a[i] /\ (n > 1 => b[j + 1] = a[i + 1])
  <2>1. b[j + 0] = a[i + 0] /\ (n > 1 => b[j + 1] = a[i + 1])
    <3>1. 0 \in 0 .. n - 1 /\ (n > 1 => 1 \in 0 .. n - 1)
      BY <1>3
    <3> QED BY <1>2, <3>1
  <2>2. j + 0 = j /\ i + 0 = i
    BY <1>1
  <2> QED BY <2>1, <2>2
<1>5. \A k \in j + 2 .. j + n - 1 : b[k] \in 128 .. 191
  <2> SUFFICES ASSUME NEW k \in j + 2 .. j + n - 1 PROVE b[k] \in 128 .. 191
    OBVIOUS
  <2>1. k - j \in 0 .. n - 1 /\ i + (k - j) \in i + 2 .. i + n - 1 /\ j + (k - j) = k
    BY <1>1, <1>3
  <2>2. b[j + (k - j)] = a[i + (k - j)]
    BY <1>2, <2>1
  <2> QED BY <1>2, <2>1, <2>2
<1> QED BY <1>1, <1>2, <1>3, <1>4, <1>5 DEF RuneLen, n

LEMMA HexDigits ==
  ASSUME NEW b \in Byte
  PROVE  /\ Hex(b) \in Seq(Byte) /\ Len(Hex(b)) = 2
         /\ Hex(b)[1] < 128 /\ Hex(b)[2] < 128
         /\ HexValue(Hex(b)[1]) \in 0 .. 15 /\ HexValue(Hex(b)[2]) \in 0 .. 15
         /\ 16 * HexValue(Hex(b)[1]) + HexValue(Hex(b)[2]) = b
<1>1. b \in 0 .. 255 /\ b \div 16 \in 0 .. 15 /\ b % 16 \in 0 .. 15
      /\ 16 * (b \div 16) + (b % 16) = b
  BY DEF Byte
<1>2. ASSUME NEW d \in 0 .. 15
      PROVE  HexDigit(d) \in 48 .. 70 /\ HexValue(HexDigit(d)) = d
  BY DEF HexDigit, HexValue
<1>3. HexDigit(b \div 16) \in 48 .. 70 /\ HexValue(HexDigit(b \div 16)) = b \div 16
  BY <1>1, <1>2
<1>4. HexDigit(b % 16) \in 48 .. 70 /\ HexValue(HexDigit(b % 16)) = b % 16
  BY <1>1, <1>2
<1>5. Len(Hex(b)) = 2 /\ Hex(b)[1] = HexDigit(b \div 16) /\ Hex(b)[2] = HexDigit(b % 16)
  BY DEF Hex
<1>6. Hex(b) \in Seq(Byte)
  BY <1>3, <1>4 DEF Hex, Byte
<1>7. HexDigit(b \div 16) < 128 /\ HexDigit(b % 16) < 128
  BY <1>3, <1>4
<1>8. 16 * HexValue(Hex(b)[1]) + HexValue(Hex(b)[2]) = b
  BY <1>1, <1>3, <1>4, <1>5
<1>9. HexValue(Hex(b)[1]) \in 0 .. 15 /\ HexValue(Hex(b)[2]) \in 0 .. 15
  BY <1>1, <1>3, <1>4, <1>5
<1> QED BY <1>5, <1>6, <1>7, <1>8, <1>9, Zenon

LEMMA EscapeBytes ==
  ASSUME NEW s \in Seq(Byte), NEW i \in Nat \ {0}
  PROVE  EscapeAt(s, i) \in Byte \cup {-1} /\ (EscapeAt(s, i) >= 0 => i + 1 <= Len(s))
<1>1. CASE i + 1 > Len(s) \/ HexValue(s[i]) < 0 \/ HexValue(s[i + 1]) < 0
  <2>1. EscapeAt(s, i) = -1
    BY <1>1, Zenon DEF EscapeAt
  <2> QED BY <2>1
<1>2. CASE ~(i + 1 > Len(s) \/ HexValue(s[i]) < 0 \/ HexValue(s[i + 1]) < 0)
  <2>1. EscapeAt(s, i) = 16 * HexValue(s[i]) + HexValue(s[i + 1])
    BY <1>2, Zenon DEF EscapeAt
  <2>2. Len(s) \in Nat /\ ~(i + 1 > Len(s))
    BY <1>2, Bytes
  <2>3. s[i] \in 0 .. 255 /\ s[i + 1] \in 0 .. 255
    BY <2>2, Bytes
  <2>4. ASSUME NEW c, c \in 0 .. 255 PROVE HexValue(c) \in -1 .. 15
    BY <2>4 DEF HexValue
  <2>5. HexValue(s[i]) \in 0 .. 15 /\ HexValue(s[i + 1]) \in 0 .. 15
    <3>1. HexValue(s[i]) \in -1 .. 15 /\ HexValue(s[i + 1]) \in -1 .. 15
      BY <2>3, <2>4
    <3> QED BY <1>2, <3>1
  <2>6. \A x, y \in 0 .. 15 : 16 * x + y \in 0 .. 255
    OBVIOUS
  <2>7. EscapeAt(s, i) \in 0 .. 255
    BY <2>1, <2>5, <2>6
  <2> QED BY <2>2, <2>7 DEF Byte
<1> QED BY <1>1, <1>2

LEMMA QuoteIsRune ==
  ASSUME NEW s \in Seq(Byte), NEW i \in 1 .. Len(s), QuoteAt(s, i)
  PROVE  RuneLen(s, i) = 3
<1>1. i + 2 <= Len(s) /\ s[i] = 226 /\ s[i + 1] = 128 /\ s[i + 2] = 155
  BY QuoteBytes
<1>2. Announced(226) = 3
  BY DEF Announced
<1>3. Second(226) = 128 .. 191
  BY DEF Second
<1>4. i \in Nat /\ i + 3 - 1 = i + 2 /\ (3 > 1) /\ i + 2 .. i + 2 = {i + 2}
  BY Bytes
<1>5. 128 \in 128 .. 191 /\ 155 \in 128 .. 191
  OBVIOUS
<1> QED BY <1>1, <1>2, <1>3, <1>4, <1>5 DEF RuneLen

\* The three things encodePath does at a position.
LEMMA EncodeCases ==
  ASSUME NEW s \in Seq(Byte), NEW i \in 1 .. Len(s)
  PROVE  \/ RuneLen(s, i) = 0 /\ EncodeStep(s, i) = [text |-> Quote \o Hex(s[i]), width |-> 1]
         \/ /\ QuoteAt(s, i) /\ RuneLen(s, i) = 3
            /\ EncodeStep(s, i) = [text |-> Quote \o Quote, width |-> 3]
         \/ /\ RuneLen(s, i) # 0 /\ ~QuoteAt(s, i)
            /\ EncodeStep(s, i) = [text  |-> SubSeq(s, i, i + RuneLen(s, i) - 1),
                                   width |-> RuneLen(s, i)]
<1>1. QuoteAt(s, i) => RuneLen(s, i) = 3
  BY QuoteIsRune
<1>2. CASE RuneLen(s, i) = 0
  <2>1. ~QuoteAt(s, i)
    BY <1>1, <1>2
  <2> QED BY <1>2, <2>1 DEF EncodeStep
<1>3. CASE QuoteAt(s, i)
  BY <1>1, <1>3 DEF EncodeStep
<1>4. CASE RuneLen(s, i) # 0 /\ ~QuoteAt(s, i)
  BY <1>4 DEF EncodeStep
<1> QED BY <1>2, <1>3, <1>4

LEMMA EncodeRuns ==
  ASSUME NEW s \in Seq(Byte)
  PROVE  Runs([i \in 1 .. Len(s) |-> EncodeStep(s, i)], Len(s))
<1>0. Len(s) \in Nat
  BY Bytes
<1>1. ASSUME NEW i \in 1 .. Len(s)
      PROVE  /\ EncodeStep(s, i) \in [text : Seq(Byte), width : Nat \ {0}]
             /\ i + EncodeStep(s, i).width <= Len(s) + 1
  <2>0. Quote \in Seq(Byte) /\ s[i] \in Byte
    BY Bytes DEF Quote, Byte
  <2>1. CASE RuneLen(s, i) = 0 /\ EncodeStep(s, i) = [text |-> Quote \o Hex(s[i]), width |-> 1]
    <3>1. Quote \o Hex(s[i]) \in Seq(Byte)
      BY <2>0, HexDigits, ConcatProperties
    <3> QED BY <1>0, <2>1, <3>1
  <2>2. CASE QuoteAt(s, i) /\ EncodeStep(s, i) = [text |-> Quote \o Quote, width |-> 3]
    <3>1. Quote \o Quote \in Seq(Byte)
      BY <2>0, ConcatProperties
    <3>2. i + 2 <= Len(s)
      BY <2>2 DEF QuoteAt
    <3> QED BY <1>0, <2>2, <3>1, <3>2
  <2>3. CASE /\ RuneLen(s, i) # 0
             /\ EncodeStep(s, i) = [text  |-> SubSeq(s, i, i + RuneLen(s, i) - 1),
                                    width |-> RuneLen(s, i)]
    <3>1. RuneLen(s, i) \in 0 .. 4 /\ i + RuneLen(s, i) - 1 <= Len(s)
      BY RuneShape
    <3>2. SubSeq(s, i, i + RuneLen(s, i) - 1) \in Seq(Byte)
      BY <1>0, <3>1, SubSeqProperties
    <3> QED BY <1>0, <2>3, <3>1, <3>2
  <2> QED BY <2>1, <2>2, <2>3, EncodeCases
<1> QED BY <1>0, <1>1 DEF Runs

\* What decodePath does at a position.
LEMMA DecodeCases ==
  ASSUME NEW s \in Seq(Byte), NEW i \in 1 .. Len(s)
  PROVE  \/ /\ QuoteAt(s, i) /\ QuoteAt(s, i + 3)
            /\ DecodeStep(s, i) = [text |-> Quote, width |-> 6]
         \/ /\ QuoteAt(s, i) /\ EscapeAt(s, i + 3) >= 0
            /\ DecodeStep(s, i) = [text |-> <<EscapeAt(s, i + 3)>>, width |-> 5]
         \/ /\ ~QuoteAt(s, i)
            /\ DecodeStep(s, i) = [text |-> <<s[i]>>, width |-> 1]
         \/ /\ QuoteAt(s, i) /\ ~QuoteAt(s, i + 3) /\ ~(EscapeAt(s, i + 3) >= 0)
            /\ DecodeStep(s, i) = [text |-> Quote, width |-> 3]
<1>1. ASSUME QuoteAt(s, i + 3) PROVE ~(EscapeAt(s, i + 3) >= 0)
  <2>1. i + 3 \in Nat \ {0}
    BY Bytes
  <2>2. s[i + 3] = 226
    BY <1>1, <2>1, QuoteBytes
  <2>3. HexValue(226) = -1
    BY DEF HexValue
  <2>4. HexValue(s[i + 3]) < 0
    BY <2>2, <2>3
  <2>5. EscapeAt(s, i + 3) = -1
    BY <2>4, Zenon DEF EscapeAt
  <2> QED BY <2>5
<1>2. CASE ~QuoteAt(s, i)
  BY <1>2 DEF DecodeStep
<1>3. CASE QuoteAt(s, i) /\ QuoteAt(s, i + 3)
  BY <1>1, <1>3 DEF DecodeStep
<1>4. CASE QuoteAt(s, i) /\ EscapeAt(s, i + 3) >= 0
  BY <1>1, <1>4 DEF DecodeStep
<1>5. CASE QuoteAt(s, i) /\ ~QuoteAt(s, i + 3) /\ ~(EscapeAt(s, i + 3) >= 0)
  BY <1>5 DEF DecodeStep
<1> QED BY <1>2, <1>3, <1>4, <1>5

LEMMA DecodeRuns ==
  ASSUME NEW s \in Seq(Byte)
  PROVE  Runs([i \in 1 .. Len(s) |-> DecodeStep(s, i)], Len(s))
<1>0. Len(s) \in Nat
  BY Bytes
<1>1. ASSUME NEW i \in 1 .. Len(s)
      PROVE  /\ DecodeStep(s, i) \in [text : Seq(Byte), width : Nat \ {0}]
             /\ i + DecodeStep(s, i).width <= Len(s) + 1
  <2>0. Quote \in Seq(Byte) /\ s[i] \in Byte /\ i + 3 \in Nat \ {0}
    BY Bytes DEF Quote, Byte
  <2>1. CASE QuoteAt(s, i + 3) /\ DecodeStep(s, i) = [text |-> Quote, width |-> 6]
    <3>1. i + 3 + 2 <= Len(s)
      BY <2>1 DEF QuoteAt
    <3> QED BY <1>0, <2>0, <2>1, <3>1
  <2>2. CASE /\ EscapeAt(s, i + 3) >= 0
             /\ DecodeStep(s, i) = [text |-> <<EscapeAt(s, i + 3)>>, width |-> 5]
    <3>1. EscapeAt(s, i + 3) \in Byte \cup {-1} /\ i + 3 + 1 <= Len(s)
      BY <2>0, <2>2, EscapeBytes
    <3>2. EscapeAt(s, i + 3) \in Byte
      BY <2>2, <3>1
    <3>3. <<EscapeAt(s, i + 3)>> \in Seq(Byte)
      BY <3>2
    <3> QED BY <1>0, <2>2, <3>1, <3>3
  <2>3. CASE DecodeStep(s, i) = [text |-> <<s[i]>>, width |-> 1]
    <3>1. <<s[i]>> \in Seq(Byte)
      BY <2>0
    <3> QED BY <1>0, <2>3, <3>1
  <2>4. CASE QuoteAt(s, i) /\ DecodeStep(s, i) = [text |-> Quote, width |-> 3]
    <3>1. i + 2 <= Len(s)
      BY <2>4 DEF QuoteAt
    <3> QED BY <1>0, <2>0, <2>4, <3>1
  <2> QED BY <2>1, <2>2, <2>3, <2>4, DecodeCases
<1> QED BY <1>0, <1>1 DEF Runs

-----------------------------------------------------------------------------
(* decodePath undoes encodePath.                                             *)

EncodeFrom(s) == Written([i \in 1 .. Len(s) |-> EncodeStep(s, i)])
DecodeFrom(s) == Written([i \in 1 .. Len(s) |-> DecodeStep(s, i)])

LEMMA EncodeWrites ==
  ASSUME NEW s \in Seq(Byte)
  PROVE  /\ EncodeFrom(s) \in [1 .. Len(s) + 1 -> Seq(Byte)]
         /\ EncodeFrom(s)[Len(s) + 1] = <<>>
         /\ \A i \in 1 .. Len(s) :
               EncodeFrom(s)[i] =
                   EncodeStep(s, i).text \o EncodeFrom(s)[i + EncodeStep(s, i).width]
<1> DEFINE steps == [i \in 1 .. Len(s) |-> EncodeStep(s, i)]
<1>1. Writes(steps, Len(s), 1, EncodeFrom(s))
  BY EncodeRuns, WrittenFrom DEF EncodeFrom
<1> QED BY <1>1 DEF Writes

LEMMA DecodeWrites ==
  ASSUME NEW s \in Seq(Byte)
  PROVE  /\ DecodeFrom(s) \in [1 .. Len(s) + 1 -> Seq(Byte)]
         /\ DecodeFrom(s)[Len(s) + 1] = <<>>
         /\ \A i \in 1 .. Len(s) :
               DecodeFrom(s)[i] =
                   DecodeStep(s, i).text \o DecodeFrom(s)[i + DecodeStep(s, i).width]
<1> DEFINE steps == [i \in 1 .. Len(s) |-> DecodeStep(s, i)]
<1>1. Writes(steps, Len(s), 1, DecodeFrom(s))
  BY DecodeRuns, WrittenFrom DEF DecodeFrom
<1> QED BY <1>1 DEF Writes

LEMMA Rests ==
  ASSUME NEW s \in Seq(Byte), NEW k \in 1 .. Len(s) + 1
  PROVE  EncodeFrom(s)[k] \in Seq(Byte) /\ DecodeFrom(s)[k] \in Seq(Byte)
<1>1. EncodeFrom(s) \in [1 .. Len(s) + 1 -> Seq(Byte)]
  BY EncodeWrites
<1>2. DecodeFrom(s) \in [1 .. Len(s) + 1 -> Seq(Byte)]
  BY DecodeWrites
<1>3. EncodeFrom(s)[k] \in Seq(Byte)
  BY <1>1
<1>4. DecodeFrom(s)[k] \in Seq(Byte)
  BY <1>2
<1> QED BY <1>3, <1>4

\* At j, t begins like r.
Begins(t, j, r) == \A k \in 1 .. Len(r) : t[j - 1 + k] = r[k]

\* From j on, t is r.
Agrees(t, j, r) == Len(t) = j - 1 + Len(r) /\ Begins(t, j, r)

LEMMA Lengths ==
  ASSUME NEW a \in Seq(Byte), NEW b \in Seq(Byte)
  PROVE  /\ Len(a) \in Nat /\ Len(b) \in Nat
         /\ a \o b \in Seq(Byte) /\ Len(a \o b) = Len(a) + Len(b)
         /\ \A k \in 1 .. Len(a) : (a \o b)[k] = a[k]
         /\ \A k \in 1 .. Len(b) : (a \o b)[Len(a) + k] = b[k]
<1>1. /\ Len(a) \in Nat /\ Len(b) \in Nat /\ a \o b \in Seq(Byte)
      /\ Len(a \o b) = Len(a) + Len(b)
      /\ \A k \in 1 .. Len(a) + Len(b) :
            (a \o b)[k] = IF k <= Len(a) THEN a[k] ELSE b[k - Len(a)]
  BY ConcatProperties
<1>2. ASSUME NEW k \in 1 .. Len(a) PROVE (a \o b)[k] = a[k]
  <2>1. k \in 1 .. Len(a) + Len(b) /\ k <= Len(a)
    BY <1>1
  <2> QED BY <1>1, <2>1
<1>3. ASSUME NEW k \in 1 .. Len(b) PROVE (a \o b)[Len(a) + k] = b[k]
  <2>1. /\ Len(a) + k \in 1 .. Len(a) + Len(b) /\ ~(Len(a) + k <= Len(a))
        /\ Len(a) + k - Len(a) = k
    BY <1>1
  <2>2. (a \o b)[Len(a) + k] = IF Len(a) + k <= Len(a) THEN a[Len(a) + k]
                               ELSE b[Len(a) + k - Len(a)]
    BY <1>1, <2>1
  <2> QED BY <2>1, <2>2
<1> QED BY <1>1, <1>2, <1>3

LEMMA Assoc ==
  ASSUME NEW a \in Seq(Byte), NEW b \in Seq(Byte), NEW c \in Seq(Byte)
  PROVE  (a \o b) \o c = a \o (b \o c)
BY ConcatAssociative

LEMMA AgreesHead ==
  ASSUME NEW t \in Seq(Byte), NEW a \in Seq(Byte), NEW b \in Seq(Byte),
         NEW j, j \in Nat \ {0}, Agrees(t, j, a \o b)
  PROVE  Begins(t, j, a)
<1> SUFFICES ASSUME NEW k \in 1 .. Len(a) PROVE t[j - 1 + k] = a[k]
  BY DEF Begins
<1>1. k \in 1 .. Len(a \o b) /\ (a \o b)[k] = a[k]
  BY Lengths
<1> QED BY <1>1 DEF Agrees, Begins

LEMMA AgreesConcat ==
  ASSUME NEW t \in Seq(Byte), NEW a \in Seq(Byte), NEW b \in Seq(Byte),
         NEW j, j \in Nat \ {0}, NEW n, n = Len(a), Agrees(t, j, a \o b)
  PROVE  j + n \in Nat \ {0} /\ j + n <= Len(t) + 1 /\ Agrees(t, j + n, b)
<1>1. /\ n \in Nat /\ Len(b) \in Nat /\ Len(a \o b) = n + Len(b)
      /\ \A k \in 1 .. Len(b) : (a \o b)[n + k] = b[k]
  BY Lengths
<1>2. /\ Len(t) = j - 1 + n + Len(b)
      /\ \A k \in 1 .. n + Len(b) : t[j - 1 + k] = (a \o b)[k]
  <2>1. Len(t) = j - 1 + Len(a \o b) /\ \A k \in 1 .. Len(a \o b) : t[j - 1 + k] = (a \o b)[k]
    BY DEF Agrees, Begins
  <2>2. Len(t) = j - 1 + n + Len(b)
    BY <1>1, <2>1
  <2> QED BY <1>1, <2>1, <2>2
<1>3. ASSUME NEW k \in 1 .. Len(b) PROVE t[j + n - 1 + k] = b[k]
  <2>1. n + k \in 1 .. n + Len(b) /\ j - 1 + (n + k) = j + n - 1 + k
    BY <1>1
  <2> QED BY <1>1, <1>2, <2>1
<1>4. Len(t) = j + n - 1 + Len(b)
  BY <1>1, <1>2
<1> DEFINE q == j + n
<1>5. Len(t) = q - 1 + Len(b) /\ \A k \in 1 .. Len(b) : t[q - 1 + k] = b[k]
  BY <1>3, <1>4
<1> HIDE DEF q
<1>6. Agrees(t, q, b)
  BY <1>5 DEF Agrees, Begins
<1>7. j + n \in Nat \ {0} /\ j + n <= Len(t) + 1
  BY <1>1, <1>4
<1> QED BY <1>6, <1>7 DEF q

\* A byte that decodePath copies.
LEMMA DecodeCopies ==
  ASSUME NEW t \in Seq(Byte), NEW j \in 1 .. Len(t),
         NEW s \in Seq(Byte), NEW i \in 1 .. Len(s),
         ~QuoteAt(t, j), t[j] = s[i],
         DecodeFrom(t)[j + 1] = SubSeq(s, i + 1, Len(s))
  PROVE  DecodeFrom(t)[j] = SubSeq(s, i, Len(s))
<1>1. DecodeStep(t, j) = [text |-> <<t[j]>>, width |-> 1]
  BY DecodeCases
<1>2. DecodeFrom(t)[j] = <<s[i]>> \o SubSeq(s, i + 1, Len(s))
  <2>1. DecodeFrom(t)[j] = DecodeStep(t, j).text \o DecodeFrom(t)[j + DecodeStep(t, j).width]
    BY DecodeWrites
  <2>2. DecodeStep(t, j).text = <<s[i]>> /\ DecodeStep(t, j).width = 1
    BY <1>1
  <2> QED BY <2>1, <2>2
<1>3. SubSeq(s, i, Len(s)) = <<s[i]>> \o SubSeq(s, i + 1, Len(s))
  BY Bytes, SubSeqRecursiveFirst
<1> QED BY <1>2, <1>3

LEMMA QuoteSeq == Quote \in Seq(Byte) /\ Len(Quote) = 3
BY DEF Quote, Byte

LEMMA AfterQuote ==
  ASSUME NEW t \in Seq(Byte), NEW j \in Nat \ {0}, NEW r \in Seq(Byte),
         Agrees(t, j, Quote \o r)
  PROVE  /\ QuoteAt(t, j) /\ j \in 1 .. Len(t)
         /\ j + 3 \in Nat \ {0} /\ j + 3 <= Len(t) + 1 /\ Agrees(t, j + 3, r)
<1>1. j + 3 <= Len(t) + 1 /\ Agrees(t, j + 3, r)
  BY QuoteSeq, AgreesConcat
<1>2. t[j] = Quote[1] /\ t[j + 1] = Quote[2] /\ t[j + 2] = Quote[3]
  <2>1. t[j - 1 + 1] = Quote[1] /\ t[j - 1 + 2] = Quote[2] /\ t[j - 1 + 3] = Quote[3]
    <3>1. 1 \in 1 .. Len(Quote) /\ 2 \in 1 .. Len(Quote) /\ 3 \in 1 .. Len(Quote)
      BY QuoteSeq
    <3>2. Begins(t, j, Quote)
      BY QuoteSeq, AgreesHead
    <3> QED BY <3>1, <3>2, Zenon DEF Begins
  <2>2. j - 1 + 1 = j /\ j - 1 + 2 = j + 1 /\ j - 1 + 3 = j + 2
    OBVIOUS
  <2> QED BY <2>1, <2>2, Zenon
<1>3. t[j] = 226 /\ t[j + 1] = 128 /\ t[j + 2] = 155
  BY <1>2 DEF Quote
<1>4. j + 2 <= Len(t) /\ j \in 1 .. Len(t) /\ j + 3 \in Nat \ {0}
  BY <1>1, Bytes
<1> QED BY <1>1, <1>3, <1>4, QuoteBytes

\* What decodePath makes of a quoted byte, and of a doubled quote rune.
LEMMA DecodeEscape ==
  ASSUME NEW t \in Seq(Byte), NEW j \in Nat \ {0}, NEW r \in Seq(Byte), NEW b \in Byte,
         Agrees(t, j, (Quote \o Hex(b)) \o r)
  PROVE  /\ Agrees(t, j + 5, r) /\ j + 5 \in Nat \ {0}
         /\ DecodeFrom(t)[j] = <<b>> \o DecodeFrom(t)[j + 5]
<1> DEFINE h == Hex(b)
<1>1. /\ h \in Seq(Byte) /\ Len(h) = 2
      /\ h[1] < 128 /\ h[2] < 128
      /\ HexValue(h[1]) \in 0 .. 15 /\ HexValue(h[2]) \in 0 .. 15
      /\ 16 * HexValue(h[1]) + HexValue(h[2]) = b
      /\ Agrees(t, j, (Quote \o h) \o r)
  BY HexDigits
<1> HIDE DEF h
<1>2. Agrees(t, j, Quote \o (h \o r))
  <2>1. (Quote \o h) \o r = Quote \o (h \o r)
    BY <1>1, QuoteSeq, Assoc
  <2> QED BY <1>1, <2>1
<1>3. h \o r \in Seq(Byte)
  BY <1>1, ConcatProperties
<1>4. /\ QuoteAt(t, j) /\ j \in 1 .. Len(t)
      /\ j + 3 \in Nat \ {0} /\ Agrees(t, j + 3, h \o r)
  BY <1>2, <1>3, AfterQuote
<1>5. j + 3 + 2 <= Len(t) + 1 /\ Agrees(t, j + 3 + 2, r)
  BY <1>1, <1>4, AgreesConcat
<1>6. j + 3 + 1 <= Len(t) /\ j + 5 \in Nat \ {0} /\ Agrees(t, j + 5, r)
  <2>1. j + 3 + 2 = j + 5
    OBVIOUS
  <2> QED BY <1>5, <2>1, Bytes
<1>7. t[j + 3] = h[1] /\ t[j + 3 + 1] = h[2]
  <2>1. t[j + 3 - 1 + 1] = h[1] /\ t[j + 3 - 1 + 2] = h[2]
    <3>1. 1 \in 1 .. Len(h) /\ 2 \in 1 .. Len(h)
      BY <1>1
    <3>2. Begins(t, j + 3, h)
      BY <1>1, <1>4, AgreesHead
    <3> QED BY <3>1, <3>2 DEF Begins
  <2>2. j + 3 - 1 + 1 = j + 3 /\ j + 3 - 1 + 2 = j + 3 + 1
    BY <1>4
  <2> QED BY <2>1, <2>2, Zenon
<1>8. ~QuoteAt(t, j + 3)
  <2>1. h[1] # 226
    <3>1. ~(226 < 128)
      OBVIOUS
    <3> QED BY <1>1, <3>1, Zenon
  <2>2. t[j + 3] # 226
    BY <1>7, <2>1, Zenon
  <2> QED BY <1>4, <2>2, QuoteBytes
<1>9. EscapeAt(t, j + 3) = b
  <2>1. ~(j + 3 + 1 > Len(t)) /\ ~(HexValue(h[1]) < 0) /\ ~(HexValue(h[2]) < 0)
    <3>1. ~(HexValue(h[1]) < 0) /\ ~(HexValue(h[2]) < 0)
      <4>1. \A v \in 0 .. 15 : ~(v < 0)
        OBVIOUS
      <4> QED BY <1>1, <4>1, Zenon
    <3>2. ~(j + 3 + 1 > Len(t))
      BY <1>6, Bytes
    <3> QED BY <3>1, <3>2
  <2>2. EscapeAt(t, j + 3) = 16 * HexValue(t[j + 3]) + HexValue(t[j + 3 + 1])
    BY <1>7, <2>1, Zenon DEF EscapeAt
  <2> QED BY <1>1, <1>7, <2>2
<1>10. DecodeStep(t, j) = [text |-> <<b>>, width |-> 5]
  <2>1. EscapeAt(t, j + 3) >= 0
    BY <1>9 DEF Byte
  <2> QED BY <1>4, <1>8, <1>9, <2>1, DecodeCases
<1>11. DecodeFrom(t)[j] = DecodeStep(t, j).text \o DecodeFrom(t)[j + DecodeStep(t, j).width]
  BY <1>4, DecodeWrites
<1>12. DecodeStep(t, j).text = <<b>> /\ DecodeStep(t, j).width = 5
  BY <1>10
<1> QED BY <1>6, <1>11, <1>12

LEMMA DecodeDoubled ==
  ASSUME NEW t \in Seq(Byte), NEW j \in Nat \ {0}, NEW r \in Seq(Byte),
         Agrees(t, j, (Quote \o Quote) \o r)
  PROVE  /\ Agrees(t, j + 6, r) /\ j + 6 \in Nat \ {0}
         /\ DecodeFrom(t)[j] = Quote \o DecodeFrom(t)[j + 6]
<1>1. Agrees(t, j, Quote \o (Quote \o r)) /\ Quote \o r \in Seq(Byte)
  <2>1. (Quote \o Quote) \o r = Quote \o (Quote \o r)
    BY QuoteSeq, Assoc
  <2>2. Quote \o r \in Seq(Byte)
    BY QuoteSeq, ConcatProperties
  <2> QED BY <2>1, <2>2
<1>2. /\ QuoteAt(t, j) /\ j \in 1 .. Len(t)
      /\ j + 3 \in Nat \ {0} /\ Agrees(t, j + 3, Quote \o r)
  BY <1>1, AfterQuote
<1>3. QuoteAt(t, j + 3) /\ Agrees(t, j + 3 + 3, r)
  BY <1>2, AfterQuote
<1>4. j + 3 + 3 = j + 6 /\ j + 6 \in Nat \ {0}
  OBVIOUS
<1>5. DecodeStep(t, j) = [text |-> Quote, width |-> 6]
  <2>1. ~(EscapeAt(t, j + 3) >= 0)
    <3>1. t[j + 3] = 226
      BY <1>2, <1>3, QuoteBytes
    <3>2. HexValue(226) = -1
      BY DEF HexValue
    <3>3. HexValue(t[j + 3]) < 0
      BY <3>1, <3>2
    <3>4. EscapeAt(t, j + 3) = -1
      BY <3>3, Zenon DEF EscapeAt
    <3> QED BY <3>4
  <2> QED BY <1>2, <1>3, <2>1, DecodeCases
<1>6. DecodeFrom(t)[j] = DecodeStep(t, j).text \o DecodeFrom(t)[j + DecodeStep(t, j).width]
  BY <1>2, DecodeWrites
<1>7. DecodeStep(t, j).text = Quote /\ DecodeStep(t, j).width = 6
  BY <1>5
<1> QED BY <1>3, <1>4, <1>6, <1>7

\* At i, s has a rune of n bytes.
RuneAt(s, i, n) == RuneLen(s, i) = n /\ n # 0

LEMMA RuneFacts ==
  ASSUME NEW s \in Seq(Byte), NEW i \in 1 .. Len(s), NEW n, RuneAt(s, i, n)
  PROVE  /\ n \in 1 .. 4 /\ i + n - 1 <= Len(s)
         /\ \A m \in i + 1 .. i + n - 1 : s[m] \in 128 .. 191
         /\ s[i] \notin 128 .. 191
         /\ s[i] = 226 => n = 3
<1> DEFINE r == RuneLen(s, i)
<1>1. /\ r \in 0 .. 4 /\ i + r - 1 <= Len(s)
      /\ r # 0 => s[i] \notin 128 .. 191
      /\ \A j \in i + 1 .. i + r - 1 : s[j] \in 128 .. 191
      /\ r # 0 /\ s[i] = 226 => r = 3
  BY RuneShape
<1>2. r = n /\ n # 0
  BY DEF RuneAt
<1> HIDE DEF r
<1>3. r \in 1 .. 4
  BY <1>1, <1>2
<1> QED BY <1>1, <1>2, <1>3

\* A rune that encodePath has copied is copied back, byte by byte: none of its
\* bytes begins a quote.
LEMMA DecodeRune ==
  ASSUME NEW t \in Seq(Byte), NEW j \in Nat \ {0},
         NEW s \in Seq(Byte), NEW i \in 1 .. Len(s),
         NEW n, RuneAt(s, i, n), ~QuoteAt(s, i),
         Begins(t, j, SubSeq(s, i, i + n - 1)), j + n <= Len(t) + 1,
         DecodeFrom(t)[j + n] = SubSeq(s, i + n, Len(s))
  PROVE  DecodeFrom(t)[j] = SubSeq(s, i, Len(s))
<1>0. Len(s) \in Nat /\ Len(t) \in Nat /\ n \in 1 .. 4 /\ i \in Nat
  BY Bytes, RuneFacts
<1>1. /\ i + n - 1 <= Len(s)
      /\ \A m \in i + 1 .. i + n - 1 : s[m] \in 128 .. 191
      /\ s[i] = 226 => n = 3
  BY RuneFacts
<1>2. ASSUME NEW k \in 1 .. n PROVE t[j - 1 + k] = s[i - 1 + k]
  <2> DEFINE c == SubSeq(s, i, i + n - 1)
  <2>1. \A m \in i .. i + n - 1 : s[m] \in Byte
    BY <1>0, <1>1, Bytes DEF Byte
  <2>2. Len(c) = n /\ \A m \in 1 .. n : c[m] = s[i + m - 1]
    BY <1>0, <1>1, <2>1, SubSeqProperties
  <2> HIDE DEF c
  <2>3. t[j - 1 + k] = c[k]
    BY <2>2 DEF Begins, c
  <2>4. i + k - 1 = i - 1 + k
    BY <1>0, <1>1
  <2> QED BY <2>2, <2>3, <2>4
<1>3. ASSUME NEW k \in 1 .. n PROVE ~QuoteAt(t, j - 1 + k)
  <2> SUFFICES ASSUME QuoteAt(t, j - 1 + k) PROVE FALSE
    OBVIOUS
  <2>1. t[j - 1 + k] = 226 /\ t[j - 1 + k + 1] = 128 /\ t[j - 1 + k + 2] = 155
    BY <1>0, <1>1, QuoteBytes
  <2>2. CASE k = 1
    <3>1. i - 1 + 1 = i /\ j - 1 + 1 = j
      BY <1>0, <1>1
    <3>2. s[i] = 226 /\ n = 3
      <4>1. t[j - 1 + 1] = s[i - 1 + 1]
        <5>1. 1 \in 1 .. n
          BY <1>0
        <5> QED BY <1>2, <5>1
      <4>2. t[j - 1 + 1] = 226
        BY <2>1, <2>2, Zenon
      <4>3. s[i] = 226
        BY <3>1, <4>1, <4>2, Zenon
      <4> QED BY <1>1, <4>3, Zenon
    <3>3. t[j - 1 + 2] = s[i - 1 + 2] /\ t[j - 1 + 3] = s[i - 1 + 3]
      BY <1>2, <3>2
    <3>4. /\ j - 1 + 2 = j - 1 + k + 1 /\ j - 1 + 3 = j - 1 + k + 2
          /\ i - 1 + 2 = i + 1 /\ i - 1 + 3 = i + 2
      BY <1>0, <1>1, <2>2
    <3>5. s[i + 1] = 128 /\ s[i + 2] = 155 /\ i + 2 <= Len(s)
      BY <1>0, <1>1, <2>1, <3>2, <3>3, <3>4
    <3> QED BY <3>2, <3>5, QuoteBytes
  <2>3. CASE k # 1
    <3>1. i - 1 + k \in i + 1 .. i + n - 1
      BY <1>0, <1>1, <2>3
    <3>2. s[i - 1 + k] \in 128 .. 191
      BY <1>0, <1>1, <3>1
    <3>3. t[j - 1 + k] = s[i - 1 + k]
      BY <1>2
    <3>4. s[i - 1 + k] = 226
      BY <2>1, <3>3, Zenon
    <3> QED BY <3>2, <3>4
  <2> QED BY <2>2, <2>3
<1> DEFINE G == {k \in 1 .. n + 1 : DecodeFrom(t)[j - 1 + k] = SubSeq(s, i - 1 + k, Len(s))}
<1>4. ASSUME NEW k \in 1 .. n + 1, \A m \in k + 1 .. n + 1 : m \in G PROVE k \in G
  <2>1. CASE k = n + 1
    <3>1. j - 1 + k = j + n /\ i - 1 + k = i + n
      BY <1>0, <1>1, <2>1
    <3> QED BY <3>1
  <2>2. CASE k \in 1 .. n
    <3> DEFINE p == j - 1 + k
               q == i - 1 + k
    <3>1. k + 1 \in G
      <4>1. k + 1 \in k + 1 .. n + 1
        BY <1>0, <2>2
      <4> QED BY <1>4, <4>1, Zenon
    <3>2. /\ j - 1 + (k + 1) = p + 1 /\ i - 1 + (k + 1) = q + 1
          /\ p \in 1 .. Len(t) /\ q \in 1 .. Len(s)
      BY <1>0, <1>1, <2>2
    <3>3. DecodeFrom(t)[p + 1] = SubSeq(s, q + 1, Len(s))
      BY <3>1, <3>2
    <3>4. ~QuoteAt(t, p) /\ t[p] = s[q]
      BY <1>2, <1>3, <2>2
    <3> HIDE DEF p, q
    <3>5. DecodeFrom(t)[p] = SubSeq(s, q, Len(s))
      BY <3>2, <3>3, <3>4, DecodeCopies
    <3> QED BY <3>5 DEF p, q
  <2> QED BY <1>0, <1>1, <2>1, <2>2
<1>5. 1 \in G
  <2> HIDE DEF G
  <2>1. 1 .. n + 1 \subseteq G
    BY <1>0, <1>1, <1>4, Backwards
  <2> QED BY <1>0, <1>1, <2>1
<1>6. j - 1 + 1 = j /\ i - 1 + 1 = i
  BY <1>0, <1>1
<1> QED BY <1>5, <1>6

\* Where t is what encodePath writes from i on, decodePath writes s from i on.
Undone(s, t, i) ==
    \A j \in Nat \ {0} :
        Agrees(t, j, EncodeFrom(s)[i]) => DecodeFrom(t)[j] = SubSeq(s, i, Len(s))

LEMMA UndoneBefore ==
  ASSUME NEW s \in Seq(Byte), NEW t \in Seq(Byte), NEW i \in 1 .. Len(s),
         \A m \in i + 1 .. Len(s) + 1 : Undone(s, t, m)
  PROVE  Undone(s, t, i)
<1> SUFFICES ASSUME NEW j \in Nat \ {0}, Agrees(t, j, EncodeFrom(s)[i])
             PROVE  DecodeFrom(t)[j] = SubSeq(s, i, Len(s))
  BY DEF Undone
<1>0. Len(s) \in Nat /\ s[i] \in Byte /\ i \in Nat
  BY Bytes DEF Byte
<1>1. EncodeFrom(s)[i] = EncodeStep(s, i).text \o EncodeFrom(s)[i + EncodeStep(s, i).width]
  BY EncodeWrites
<1>2. CASE EncodeStep(s, i) = [text |-> Quote \o Hex(s[i]), width |-> 1]
  <2> DEFINE r == EncodeFrom(s)[i + 1]
  <2>1. r \in Seq(Byte)
    <3>1. i + 1 \in 1 .. Len(s) + 1
      BY <1>0
    <3> QED BY <3>1, Rests
  <2>2. EncodeFrom(s)[i] = (Quote \o Hex(s[i])) \o r
    <3>1. EncodeStep(s, i).text = Quote \o Hex(s[i]) /\ EncodeStep(s, i).width = 1
      BY <1>2
    <3> QED BY <1>1, <3>1, Zenon
  <2>3. Agrees(t, j, (Quote \o Hex(s[i])) \o r)
    BY <2>2
  <2> HIDE DEF r
  <2>4. /\ Agrees(t, j + 5, r) /\ j + 5 \in Nat \ {0}
        /\ DecodeFrom(t)[j] = <<s[i]>> \o DecodeFrom(t)[j + 5]
    BY <1>0, <2>1, <2>3, DecodeEscape
  <2>5. Undone(s, t, i + 1)
    BY <1>0
  <2>6. DecodeFrom(t)[j + 5] = SubSeq(s, i + 1, Len(s))
    BY <2>4, <2>5 DEF Undone, r
  <2>7. SubSeq(s, i, Len(s)) = <<s[i]>> \o SubSeq(s, i + 1, Len(s))
    BY <1>0, SubSeqRecursiveFirst
  <2> QED BY <2>4, <2>6, <2>7
<1>3. CASE QuoteAt(s, i) /\ EncodeStep(s, i) = [text |-> Quote \o Quote, width |-> 3]
  <2> DEFINE r == EncodeFrom(s)[i + 3]
  <2>0. i + 2 <= Len(s) /\ SubSeq(s, i, i + 2) = Quote
    BY <1>3 DEF QuoteAt
  <2>1. r \in Seq(Byte)
    <3>1. i + 3 \in 1 .. Len(s) + 1
      BY <1>0, <2>0
    <3> QED BY <3>1, Rests
  <2>2. EncodeFrom(s)[i] = (Quote \o Quote) \o r
    <3>1. EncodeStep(s, i).text = Quote \o Quote /\ EncodeStep(s, i).width = 3
      BY <1>3
    <3> QED BY <1>1, <3>1, Zenon
  <2>3. Agrees(t, j, (Quote \o Quote) \o r)
    BY <2>2
  <2> HIDE DEF r
  <2>4. /\ Agrees(t, j + 6, r) /\ j + 6 \in Nat \ {0}
        /\ DecodeFrom(t)[j] = Quote \o DecodeFrom(t)[j + 6]
    BY <2>1, <2>3, DecodeDoubled
  <2>5. Undone(s, t, i + 3)
    BY <1>0, <2>0
  <2>6. DecodeFrom(t)[j + 6] = SubSeq(s, i + 3, Len(s))
    BY <2>4, <2>5 DEF Undone, r
  <2>7. SubSeq(s, i, Len(s)) = Quote \o SubSeq(s, i + 3, Len(s))
    <3>1. SubSeq(s, i, i + 2) \o SubSeq(s, i + 2 + 1, Len(s)) = SubSeq(s, i, Len(s))
      <4>1. i \in 1 .. Len(s) + 1 /\ i + 2 \in i - 1 .. Len(s) /\ Len(s) \in i + 2 .. Len(s)
        BY <1>0, <2>0
      <4> QED BY <4>1, ConcatAdjacentSubSeq
    <3>2. i + 2 + 1 = i + 3
      BY <1>0
    <3> QED BY <2>0, <3>1, <3>2
  <2> QED BY <2>4, <2>6, <2>7
<1>4. ASSUME NEW n, RuneAt(s, i, n), ~QuoteAt(s, i),
             EncodeStep(s, i) = [text |-> SubSeq(s, i, i + n - 1), width |-> n]
      PROVE  DecodeFrom(t)[j] = SubSeq(s, i, Len(s))
  <2> DEFINE r == EncodeFrom(s)[i + n]
             c == SubSeq(s, i, i + n - 1)
  <2>0. n \in 1 .. 4 /\ i + n - 1 <= Len(s)
    BY <1>4, RuneFacts
  <2>1. r \in Seq(Byte)
    <3>1. i + n \in 1 .. Len(s) + 1
      BY <1>0, <2>0
    <3> QED BY <3>1, Rests
  <2>2. c \in Seq(Byte) /\ Len(c) = n
    <3>1. \A m \in i .. i + n - 1 : s[m] \in Byte
      BY <1>0, <2>0, Bytes DEF Byte
    <3> QED BY <1>0, <2>0, <3>1, SubSeqProperties
  <2>3. Agrees(t, j, c \o r)
    BY <1>1, <1>4
  <2> HIDE DEF r, c
  <2>4. Begins(t, j, c)
    BY <2>1, <2>2, <2>3, AgreesHead
  <2>5. j + n \in Nat \ {0} /\ j + n <= Len(t) + 1 /\ Agrees(t, j + n, r)
    BY <2>1, <2>2, <2>3, AgreesConcat
  <2>6. Undone(s, t, i + n)
    BY <1>0, <2>0
  <2>7. DecodeFrom(t)[j + n] = SubSeq(s, i + n, Len(s))
    BY <2>5, <2>6 DEF Undone, r
  <2> QED BY <1>4, <2>4, <2>5, <2>7, DecodeRune DEF c
<1> QED
  <2>1. CASE /\ RuneLen(s, i) # 0 /\ ~QuoteAt(s, i)
             /\ EncodeStep(s, i) = [text  |-> SubSeq(s, i, i + RuneLen(s, i) - 1),
                                    width |-> RuneLen(s, i)]
    <3>1. RuneAt(s, i, RuneLen(s, i))
      BY <2>1 DEF RuneAt
    <3> QED BY <1>4, <2>1, <3>1
  <2> QED BY <1>2, <1>3, <2>1, EncodeCases

LEMMA DecodeEncoded ==
  ASSUME NEW s \in Seq(Byte)
  PROVE  DecodeFrom(EncodeFrom(s)[1])[1] = s
<1> DEFINE t == EncodeFrom(s)[1]
           G == {i \in 1 .. Len(s) + 1 : Undone(s, t, i)}
<1>0. Len(s) \in Nat /\ t \in Seq(Byte)
  <2>1. 1 \in 1 .. Len(s) + 1
    BY Bytes
  <2> QED BY <2>1, Bytes, Rests
<1>1. ASSUME NEW i \in 1 .. Len(s) + 1, \A m \in i + 1 .. Len(s) + 1 : m \in G
      PROVE  i \in G
  <2> HIDE DEF t
  <2>1. CASE i = Len(s) + 1
    <3> SUFFICES ASSUME NEW j \in Nat \ {0}, Agrees(t, j, EncodeFrom(s)[i])
                 PROVE  DecodeFrom(t)[j] = SubSeq(s, i, Len(s))
      BY DEF Undone
    <3>1. EncodeFrom(s)[i] = <<>>
      BY <2>1, EncodeWrites
    <3>2. Len(t) = j - 1
      BY <3>1 DEF Agrees
    <3>3. j = Len(t) + 1
      BY <3>2
    <3>4. DecodeFrom(t)[j] = <<>>
      BY <1>0, <3>3, DecodeWrites
    <3>5. SubSeq(s, i, Len(s)) = <<>>
      BY <1>0, <2>1, SubSeqEmpty
    <3> QED BY <3>4, <3>5
  <2>2. CASE i \in 1 .. Len(s)
    <3>1. \A m \in i + 1 .. Len(s) + 1 : Undone(s, t, m)
      BY <1>1
    <3> QED BY <1>0, <2>2, <3>1, UndoneBefore
  <2> QED BY <1>0, <2>1, <2>2
<1>2. Undone(s, t, 1)
  <2>1. 1 .. Len(s) + 1 \subseteq G
    <3> HIDE DEF G
    <3> QED BY <1>0, <1>1, Backwards
  <2>2. 1 \in G
    BY <1>0, <2>1
  <2> QED BY <2>2
<1>3. Agrees(t, 1, t)
  <2> HIDE DEF t
  <2>1. Len(t) = 1 - 1 + Len(t) /\ \A k \in 1 .. Len(t) : 1 - 1 + k = k
    BY <1>0, Bytes
  <2> QED BY <2>1 DEF Agrees, Begins
<1>4. DecodeFrom(t)[1] = SubSeq(s, 1, Len(s))
  BY <1>2, <1>3 DEF Undone
<1> QED BY <1>4, SubSeqFull

\* A path without a quote rune is stored as it is, and read as it is.
LEMMA DecodePlain ==
  ASSUME NEW s \in Seq(Byte), ~HasQuote(s)
  PROVE  DecodeFrom(s)[1] = s
<1> DEFINE G == {i \in 1 .. Len(s) + 1 : DecodeFrom(s)[i] = SubSeq(s, i, Len(s))}
<1>0. Len(s) \in Nat
  BY Bytes
<1>1. ASSUME NEW i \in 1 .. Len(s) + 1, \A m \in i + 1 .. Len(s) + 1 : m \in G
      PROVE  i \in G
  <2>1. CASE i = Len(s) + 1
    <3>1. SubSeq(s, i, Len(s)) = <<>>
      BY <1>0, <2>1, SubSeqEmpty
    <3> QED BY <2>1, <3>1, DecodeWrites
  <2>2. CASE i \in 1 .. Len(s)
    <3>1. DecodeFrom(s)[i + 1] = SubSeq(s, i + 1, Len(s))
      <4>1. i + 1 \in i + 1 .. Len(s) + 1
        BY <1>0, <2>2
      <4> QED BY <1>1, <4>1
    <3>2. ~QuoteAt(s, i)
      BY <2>2 DEF HasQuote
    <3> QED BY <2>2, <3>1, <3>2, DecodeCopies
  <2> QED BY <1>0, <2>1, <2>2
<1>2. 1 \in G
  <2> HIDE DEF G
  <2>1. 1 .. Len(s) + 1 \subseteq G
    BY <1>0, <1>1, Backwards
  <2> QED BY <1>0, <2>1
<1>3. DecodeFrom(s)[1] = SubSeq(s, 1, Len(s))
  BY <1>2
<1> QED BY <1>3, SubSeqFull

\* What encodePath writes is a path, and decodePath makes of it the path it was.
THEOREM DecodeInvertsEncode ==
  ASSUME NEW s \in Seq(Byte)
  PROVE  EncodePath(s) \in Seq(Byte) /\ DecodePath(EncodePath(s)) = s
<1>0. Len(s) \in Nat /\ 1 \in 1 .. Len(s) + 1
  BY Bytes
<1>1. CASE NeedsEncoding(s)
  <2>1. EncodePath(s) = EncodeFrom(s)[1]
    BY <1>1 DEF EncodePath, EncodeFrom
  <2>2. EncodeFrom(s)[1] \in Seq(Byte)
    BY <1>0, Rests
  <2>3. DecodePath(EncodePath(s)) = DecodeFrom(EncodeFrom(s)[1])[1]
    BY <2>1 DEF DecodePath, DecodeFrom
  <2> QED BY <2>1, <2>2, <2>3, DecodeEncoded
<1>2. CASE ~NeedsEncoding(s)
  <2>1. EncodePath(s) = s /\ ~HasQuote(s)
    BY <1>2 DEF EncodePath, NeedsEncoding
  <2>2. DecodePath(s) = DecodeFrom(s)[1]
    BY DEF DecodePath, DecodeFrom
  <2> QED BY <2>1, <2>2, DecodePlain
<1> QED BY <1>1, <1>2

LEMMA DecodeIsPath ==
  ASSUME NEW s \in Seq(Byte)
  PROVE  DecodePath(s) \in Seq(Byte)
<1>1. DecodePath(s) = DecodeFrom(s)[1]
  BY DEF DecodePath, DecodeFrom
<1>2. 1 \in 1 .. Len(s) + 1
  BY Bytes
<1> QED BY <1>1, <1>2, Rests

-----------------------------------------------------------------------------
(* encodePath writes valid UTF-8.                                            *)

LEMMA ValidConcat ==
  ASSUME NEW a \in Seq(Byte), NEW b \in Seq(Byte), ValidString(a), ValidString(b)
  PROVE  ValidString(a \o b)
<1> DEFINE c == a \o b
<1>1. /\ Len(a) \in Nat /\ Len(b) \in Nat
      /\ c \in Seq(Byte) /\ Len(c) = Len(a) + Len(b)
      /\ \A k \in 1 .. Len(a) : c[k] = a[k]
      /\ \A k \in 1 .. Len(b) : c[Len(a) + k] = b[k]
  BY Lengths
<1> HIDE DEF c
<1>2. ASSUME NEW i \in 1 .. Len(a) PROVE \E j \in 1 .. i : RuneLen(c, j) > i - j
  <2>1. PICK j \in 1 .. i : RuneLen(a, j) > i - j
    BY DEF ValidString
  <2>2. j \in 1 .. Len(a) /\ j \in 1 .. Len(c)
    BY <1>1
  <2>3. RuneLen(a, j) \in 0 .. 4 /\ j + RuneLen(a, j) - 1 <= Len(a)
    BY <2>2, RuneShape
  <2>4. RuneLen(a, j) # 0
    BY <1>1, <2>1
  <2>5. \A k \in 0 .. RuneLen(a, j) - 1 : c[j + k] = a[j + k]
    <3> SUFFICES ASSUME NEW k \in 0 .. RuneLen(a, j) - 1 PROVE c[j + k] = a[j + k]
      OBVIOUS
    <3>1. j + k \in 1 .. Len(a)
      BY <1>1, <2>3
    <3> QED BY <1>1, <3>1
  <2>6. j + RuneLen(a, j) - 1 <= Len(c)
    BY <1>1, <2>3
  <2>7. RuneLen(c, j) = RuneLen(a, j)
    BY <1>1, <2>2, <2>4, <2>5, <2>6, RuneLocal
  <2> QED BY <2>1, <2>7
<1>3. ASSUME NEW i \in 1 .. Len(b)
      PROVE  \E j \in 1 .. Len(a) + i : RuneLen(c, j) > Len(a) + i - j
  <2>1. PICK j \in 1 .. i : RuneLen(b, j) > i - j
    BY DEF ValidString
  <2>2. j \in 1 .. Len(b) /\ Len(a) + j \in 1 .. Len(c)
    BY <1>1
  <2>3. RuneLen(b, j) \in 0 .. 4 /\ j + RuneLen(b, j) - 1 <= Len(b)
    BY <2>2, RuneShape
  <2>4. RuneLen(b, j) # 0
    BY <1>1, <2>1
  <2>5. \A k \in 0 .. RuneLen(b, j) - 1 : c[Len(a) + j + k] = b[j + k]
    <3> SUFFICES ASSUME NEW k \in 0 .. RuneLen(b, j) - 1 PROVE c[Len(a) + j + k] = b[j + k]
      OBVIOUS
    <3>1. j + k \in 1 .. Len(b) /\ Len(a) + j + k = Len(a) + (j + k)
      BY <1>1, <2>3
    <3> QED BY <1>1, <3>1
  <2>6. Len(a) + j + RuneLen(b, j) - 1 <= Len(c)
    BY <1>1, <2>3
  <2>7. RuneLen(c, Len(a) + j) = RuneLen(b, j)
    BY <1>1, <2>2, <2>4, <2>5, <2>6, RuneLocal
  <2>8. Len(a) + j \in 1 .. Len(a) + i /\ RuneLen(c, Len(a) + j) > Len(a) + i - (Len(a) + j)
    BY <1>1, <2>1, <2>3, <2>7
  <2> QED BY <2>8
<1>4. ASSUME NEW i \in 1 .. Len(c) PROVE \E j \in 1 .. i : RuneLen(c, j) > i - j
  <2>1. CASE i \in 1 .. Len(a)
    BY <1>2, <2>1
  <2>2. CASE i - Len(a) \in 1 .. Len(b)
    <3>1. Len(a) + (i - Len(a)) = i
      BY <1>1
    <3>2. \E j \in 1 .. Len(a) + (i - Len(a)) : RuneLen(c, j) > Len(a) + (i - Len(a)) - j
      BY <1>3, <2>2
    <3> QED BY <3>1, <3>2
  <2>3. i \in 1 .. Len(a) \/ i - Len(a) \in 1 .. Len(b)
    BY <1>1
  <2> QED BY <2>1, <2>2, <2>3, Zenon
<1>5. ValidString(c)
  BY <1>4 DEF ValidString
<1> QED BY <1>5 DEF c

LEMMA ValidRune ==
  ASSUME NEW s \in Seq(Byte), NEW i \in 1 .. Len(s), NEW n, RuneAt(s, i, n)
  PROVE  ValidString(SubSeq(s, i, i + n - 1))
<1> DEFINE c == SubSeq(s, i, i + n - 1)
<1>0. Len(s) \in Nat /\ n \in 1 .. 4 /\ i + n - 1 <= Len(s)
  BY Bytes, RuneFacts
<1>1. c \in Seq(Byte) /\ Len(c) = n /\ \A k \in 1 .. n : c[k] = s[i + k - 1]
  <2>1. \A m \in i .. i + n - 1 : s[m] \in Byte
    BY <1>0, Bytes DEF Byte
  <2> QED BY <1>0, <2>1, SubSeqProperties
<1> HIDE DEF c
<1>2. \A k \in 0 .. n - 1 : c[1 + k] = s[i + k]
  <2> SUFFICES ASSUME NEW k \in 0 .. n - 1 PROVE c[1 + k] = s[i + k]
    OBVIOUS
  <2>1. 1 + k \in 1 .. n /\ i + (1 + k) - 1 = i + k
    BY <1>0
  <2> QED BY <1>1, <2>1
<1>3. RuneLen(c, 1) = RuneLen(s, i)
  <2>1. RuneLen(s, i) # 0 /\ RuneLen(s, i) = n
    BY DEF RuneAt
  <2>2. 1 \in 1 .. Len(c) /\ 1 + RuneLen(s, i) - 1 <= Len(c)
    BY <1>0, <1>1, <2>1
  <2>3. \A k \in 0 .. RuneLen(s, i) - 1 : c[1 + k] = s[i + k]
    BY <1>2, <2>1
  <2> QED BY <1>1, <2>1, <2>2, <2>3, RuneLocal
<1>4. RuneLen(c, 1) = n
  BY <1>3 DEF RuneAt
<1>5. \A k \in 1 .. Len(c) : \E j \in 1 .. k : RuneLen(c, j) > k - j
  <2> SUFFICES ASSUME NEW k \in 1 .. Len(c) PROVE \E j \in 1 .. k : RuneLen(c, j) > k - j
    OBVIOUS
  <2>1. 1 \in 1 .. k /\ n > k - 1
    BY <1>0, <1>1
  <2> QED BY <1>4, <2>1
<1> QED BY <1>5 DEF ValidString, c

LEMMA ValidQuote == ValidString(Quote)
<1>1. Quote \in Seq(Byte) /\ Len(Quote) = 3 /\ 1 \in 1 .. Len(Quote)
  BY QuoteSeq
<1>2. SubSeq(Quote, 1, 3) = Quote
  BY <1>1, SubSeqFull
<1>3. QuoteAt(Quote, 1)
  BY <1>1, <1>2 DEF QuoteAt
<1>4. RuneAt(Quote, 1, 3)
  BY <1>1, <1>3, QuoteIsRune DEF RuneAt
<1>5. ValidString(SubSeq(Quote, 1, 1 + 3 - 1))
  BY <1>1, <1>4, ValidRune
<1>6. 1 + 3 - 1 = 3
  OBVIOUS
<1> QED BY <1>2, <1>5, <1>6, Zenon

LEMMA ValidHex ==
  ASSUME NEW b \in Byte
  PROVE  ValidString(Hex(b))
<1> DEFINE h == Hex(b)
<1>1. h \in Seq(Byte) /\ Len(h) = 2 /\ h[1] < 128 /\ h[2] < 128
  BY HexDigits
<1> HIDE DEF h
<1>2. ASSUME NEW i \in 1 .. Len(h) PROVE \E j \in 1 .. i : RuneLen(h, j) > i - j
  <2>1. h[i] < 128
    BY <1>1
  <2>2. RuneLen(h, i) = 1
    BY <1>1, <2>1, RuneShape
  <2>3. i \in 1 .. i /\ 1 > i - i
    BY <1>1
  <2> QED BY <2>2, <2>3
<1> QED BY <1>2 DEF ValidString, h

LEMMA EncodeStepValid ==
  ASSUME NEW s \in Seq(Byte), NEW i \in 1 .. Len(s)
  PROVE  ValidString(EncodeStep(s, i).text)
<1>1. CASE EncodeStep(s, i) = [text |-> Quote \o Hex(s[i]), width |-> 1]
  <2>1. s[i] \in Byte
    BY Bytes DEF Byte
  <2>2. Hex(s[i]) \in Seq(Byte) /\ ValidString(Hex(s[i]))
    BY <2>1, HexDigits, ValidHex
  <2>3. ValidString(Quote \o Hex(s[i]))
    BY <2>2, QuoteSeq, ValidQuote, ValidConcat
  <2> QED BY <1>1, <2>3
<1>2. CASE EncodeStep(s, i) = [text |-> Quote \o Quote, width |-> 3]
  <2>1. ValidString(Quote \o Quote)
    BY QuoteSeq, ValidQuote, ValidConcat
  <2> QED BY <1>2, <2>1
<1>3. CASE /\ RuneLen(s, i) # 0
           /\ EncodeStep(s, i) = [text  |-> SubSeq(s, i, i + RuneLen(s, i) - 1),
                                  width |-> RuneLen(s, i)]
  <2>1. RuneAt(s, i, RuneLen(s, i))
    BY <1>3 DEF RuneAt
  <2>2. ValidString(SubSeq(s, i, i + RuneLen(s, i) - 1))
    BY <2>1, ValidRune
  <2> QED BY <1>3, <2>2
<1> QED BY <1>1, <1>2, <1>3, EncodeCases

\* Whatever bytes a path has, what encodePath writes for it is valid UTF-8.
THEOREM EncodedIsValid ==
  ASSUME NEW s \in Seq(Byte)
  PROVE  ValidString(EncodePath(s))
<1> DEFINE G == {i \in 1 .. Len(s) + 1 : ValidString(EncodeFrom(s)[i])}
<1>0. Len(s) \in Nat
  BY Bytes
<1>1. ASSUME NEW i \in 1 .. Len(s) + 1, \A m \in i + 1 .. Len(s) + 1 : m \in G
      PROVE  i \in G
  <2>1. CASE i = Len(s) + 1
    <3>1. EncodeFrom(s)[i] = <<>>
      BY <2>1, EncodeWrites
    <3>2. ValidString(<<>>)
      BY DEF ValidString
    <3> QED BY <3>1, <3>2
  <2>2. CASE i \in 1 .. Len(s)
    <3> DEFINE x == EncodeStep(s, i).text
               w == EncodeStep(s, i).width
               y == EncodeFrom(s)[i + w]
    <3>1. x \in Seq(Byte) /\ w \in Nat \ {0} /\ i + w <= Len(s) + 1
      BY <2>2, EncodeRuns DEF Runs
    <3>2. i + w \in i + 1 .. Len(s) + 1 /\ i + w \in 1 .. Len(s) + 1
      BY <1>0, <2>2, <3>1
    <3>3. y \in Seq(Byte) /\ ValidString(y)
      BY <1>1, <3>2, Rests
    <3>4. ValidString(x)
      BY <2>2, EncodeStepValid
    <3>5. EncodeFrom(s)[i] = x \o y
      BY <2>2, EncodeWrites
    <3> HIDE DEF x, y
    <3>6. ValidString(x \o y)
      BY <3>1, <3>3, <3>4, ValidConcat
    <3> QED BY <3>5, <3>6
  <2> QED BY <1>0, <2>1, <2>2
<1>2. 1 \in G
  <2> HIDE DEF G
  <2>1. 1 .. Len(s) + 1 \subseteq G
    BY <1>0, <1>1, Backwards
  <2> QED BY <1>0, <2>1
<1>3. CASE NeedsEncoding(s)
  <2>1. EncodePath(s) = EncodeFrom(s)[1]
    BY <1>3 DEF EncodePath, EncodeFrom
  <2> QED BY <1>2, <2>1
<1>4. CASE ~NeedsEncoding(s)
  BY <1>4 DEF EncodePath, NeedsEncoding
<1> QED BY <1>3, <1>4

-----------------------------------------------------------------------------
(* Saving and loading.                                                       *)

\* The map in the index file holds m, under encoded keys that make a valid file.
LEMMA EncodedMap ==
  ASSUME NEW m, PathMap(m), NEW d \in EncodeKeys(m)
  PROVE  /\ DOMAIN d = {EncodePath(k) : k \in DOMAIN m}
         /\ \A k \in DOMAIN m : d[EncodePath(k)] = m[k]
         /\ \A t \in DOMAIN d : ValidString(t)
<1>1. \A k \in DOMAIN m : k \in Seq(Byte)
  BY DEF PathMap
<1> DEFINE new == [k \in DOMAIN m |-> EncodePath(k)]
<1>2. /\ DOMAIN d = {new[k] : k \in DOMAIN m}
      /\ \A t \in {new[k] : k \in DOMAIN m} : \E k \in DOMAIN m : new[k] = t /\ d[t] = m[k]
  BY DEF EncodeKeys, Rewritten
<1>3. DOMAIN d = {EncodePath(k) : k \in DOMAIN m}
  BY <1>2
<1>4. ASSUME NEW k \in DOMAIN m PROVE d[EncodePath(k)] = m[k]
  <2>1. PICK l \in DOMAIN m : EncodePath(l) = EncodePath(k) /\ d[EncodePath(k)] = m[l]
    BY <1>2
  <2>2. DecodePath(EncodePath(l)) = l /\ DecodePath(EncodePath(k)) = k
    BY <1>1, DecodeInvertsEncode
  <2>3. l = k
    BY <2>1, <2>2
  <2> QED BY <2>1, <2>3
<1>5. \A t \in DOMAIN d : ValidString(t)
  BY <1>1, <1>3, EncodedIsValid
<1> QED BY <1>3, <1>4, <1>5

LEMMA LoadedMap ==
  ASSUME NEW m, PathMap(m), NEW d \in EncodeKeys(m), NEW x \in DecodeKeys(d)
  PROVE  x = m
<1>1. /\ DOMAIN d = {EncodePath(k) : k \in DOMAIN m}
      /\ \A k \in DOMAIN m : d[EncodePath(k)] = m[k]
  BY EncodedMap
<1>2. \A k \in DOMAIN m : DecodePath(EncodePath(k)) = k
  BY DecodeInvertsEncode DEF PathMap
<1> DEFINE new == [t \in DOMAIN d |-> DecodePath(t)]
<1>3. /\ x \in [{new[t] : t \in DOMAIN d} -> {d[t] : t \in DOMAIN d}]
      /\ \A k \in {new[t] : t \in DOMAIN d} : \E t \in DOMAIN d : new[t] = k /\ x[k] = d[t]
  BY DEF DecodeKeys, Rewritten
<1>4. {new[t] : t \in DOMAIN d} = DOMAIN m
  <2>1. ASSUME NEW k \in DOMAIN m PROVE EncodePath(k) \in DOMAIN d /\ new[EncodePath(k)] = k
    BY <1>1, <1>2
  <2>2. ASSUME NEW t \in DOMAIN d PROVE new[t] \in DOMAIN m
    BY <1>1, <1>2
  <2> HIDE DEF new
  <2> QED BY <2>1, <2>2
<1>5. ASSUME NEW k \in DOMAIN m PROVE x[k] = m[k]
  <2>1. PICK t \in DOMAIN d : DecodePath(t) = k /\ x[k] = d[t]
    BY <1>3, <1>4
  <2>2. PICK l \in DOMAIN m : t = EncodePath(l)
    BY <1>1
  <2>3. l = k
    BY <1>2, <2>1, <2>2
  <2> QED BY <1>1, <2>1, <2>2, <2>3
<1>6. x = [k \in DOMAIN m |-> x[k]]
  BY <1>3, <1>4
<1> QED BY <1>5, <1>6 DEF PathMap

LEMMA DecodedMap ==
  ASSUME NEW d, PathMap(d), NEW x \in DecodeKeys(d)
  PROVE  PathMap(x)
<1> DEFINE new == [t \in DOMAIN d |-> DecodePath(t)]
<1>1. x \in [{new[t] : t \in DOMAIN d} -> {d[t] : t \in DOMAIN d}]
  BY DEF DecodeKeys, Rewritten
<1>2. \A t \in DOMAIN d : new[t] \in Seq(Byte)
  BY DecodeIsPath DEF PathMap
<1> HIDE DEF new
<1> QED BY <1>1, <1>2 DEF PathMap

\* What the index file holds at each stage of an index's life.
CodecInv ==
    /\ codec \in {"scanned", "edited", "saved", "loaded"}
    /\ codec = "scanned" => PathMap(memory)
    /\ codec = "edited" => PathMap(disk) /\ saved = NoMap
    /\ codec = "saved" => PathMap(saved) /\ disk \in EncodeKeys(saved)
    /\ codec = "loaded" => PathMap(memory) /\ saved \in {memory, NoMap}

\* The invariant of an index's way into the file and out of it.
THEOREM CodecInductive == CodecSpec => []CodecInv
<1>1. CodecInit => CodecInv
  BY CodecAssumption DEF CodecInit, CodecInv
<1>2. CodecInv /\ [CodecNext]_codecVars => CodecInv'
  <2> SUFFICES ASSUME CodecInv, [CodecNext]_codecVars PROVE CodecInv'
    OBVIOUS
  <2>1. CASE SaveIndex
    <3>1. PathMap(memory)
      BY <2>1 DEF CodecInv, SaveIndex
    <3>2. PICK d \in EncodeKeys(memory) :
              IF \A t \in DOMAIN d : ValidString(t)
              THEN codec' = "saved" /\ disk' = d
              ELSE codec' = "refused" /\ UNCHANGED disk
      BY <2>1 DEF SaveIndex
    <3>3. \A t \in DOMAIN d : ValidString(t)
      BY <3>1, EncodedMap
    <3>4. codec' = "saved" /\ disk' = d /\ saved' = memory
      BY <2>1, <3>2, <3>3 DEF SaveIndex
    <3> QED BY <3>1, <3>4 DEF CodecInv
  <2>2. CASE LoadIndex
    <3>1. codec' = "loaded" /\ memory' \in DecodeKeys(disk) /\ saved' = saved
      BY <2>2 DEF LoadIndex
    <3>2. CASE codec = "saved"
      <4>1. PathMap(saved) /\ disk \in EncodeKeys(saved)
        BY <3>2 DEF CodecInv
      <4>2. memory' = saved
        BY <3>1, <4>1, LoadedMap
      <4> QED BY <3>1, <4>1, <4>2 DEF CodecInv
    <3>3. CASE codec = "edited"
      <4>1. PathMap(disk) /\ saved = NoMap
        BY <3>3 DEF CodecInv
      <4>2. PathMap(memory')
        BY <3>1, <4>1, DecodedMap
      <4> QED BY <3>1, <4>1, <4>2 DEF CodecInv
    <3> QED BY <2>2, <3>2, <3>3 DEF LoadIndex
  <2>3. CASE UNCHANGED codecVars
    BY <2>3 DEF CodecInv, codecVars
  <2> QED BY <2>1, <2>2, <2>3 DEF CodecNext
<1> QED BY <1>1, <1>2, PTL DEF CodecSpec

\* What saveIndex stores, loadIndex reads again, key by key, whatever bytes the
\* paths have and also where the index comes from a file edited by hand.
THEOREM LoadedAlwaysIsSaved == CodecSpec => []LoadedIsSaved
<1>1. CodecInv => LoadedIsSaved
  BY DEF CodecInv, LoadedIsSaved
<1> QED BY <1>1, CodecInductive, PTL

\* json.Marshal never meets a key that is not valid UTF-8: no name of a file
\* keeps the index from being saved.
THEOREM NeverEverRefused == CodecSpec => []NeverRefused
<1>1. CodecInv => NeverRefused
  BY DEF CodecInv, NeverRefused
<1> QED BY <1>1, CodecInductive, PTL
=============================================================================
