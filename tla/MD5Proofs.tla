------------------------------ MODULE MD5Proofs ------------------------------
(***************************************************************************)
(* Proofs about the digest context of MD5: for every length of a block and *)
(* of a word, every input and every way to cut it into pieces.             *)
(***************************************************************************)
EXTENDS MD5, DivisionProofs, SequenceTheorems, TLAPS

-----------------------------------------------------------------------------
(* The count.                                                              *)
LEMMA CountInWords ==
  ASSUME NEW n \in Nat
  PROVE  /\ BitCount(n).low \in 0 .. WordMod - 1
         /\ BitCount(n).high \in 0 .. WordMod - 1
         /\ BitCount(n).low + WordMod * BitCount(n).high = (8 * n) % (WordMod * WordMod)
<1> DEFINE W == WordMod
           q == (8 * n) \div W
           r == (8 * n) % W
           j == q \div W
           h == q % W
<1>1. W \in Nat \ {0} /\ 8 * n \in Nat
  BY MD5Assumption
<1> HIDE DEF W
<1>2. q \in Nat /\ r \in Nat /\ r < W /\ 8 * n = W * q + r
  BY <1>1, DivMod, QuotientNatural
<1> HIDE DEF q, r
<1>3. j \in Nat /\ h \in Nat /\ h < W /\ q = W * j + h
  BY <1>1, <1>2, DivMod, QuotientNatural
<1> HIDE DEF j, h
<1>4. 8 * n = (W * W) * j + (W * h + r)
  <2>1. W * q = W * (W * j) + W * h
    BY <1>1, <1>3
  <2>2. W * (W * j) = (W * W) * j
    BY <1>1, <1>3
  <2> QED
    BY <1>1, <1>2, <1>3, <2>1, <2>2
<1>5. W * h + r \in Nat /\ W * W \in Nat \ {0} /\ W * h + r < W * W
  <2>1. W * (W - h) >= W
    BY <1>1, <1>3, ProductGrows
  <2>2. W * (W - h) = W * W - W * h
    BY <1>1, <1>3
  <2>3. W * h \in Nat /\ W * W \in Nat \ {0}
    BY <1>1, <1>3
  <2> QED
    BY <1>1, <1>2, <1>3, <2>1, <2>2, <2>3
<1>6. (8 * n) % (W * W) = W * h + r
  <2> DEFINE x == 8 * n
             words == W * W
             rest == W * h + r
  <2>1. x \in Int /\ words \in Nat \ {0} /\ rest \in Nat /\ rest < words /\ x = words * j + rest
    BY <1>1, <1>4, <1>5
  <2>2. j \in Int
    BY <1>3
  <2> HIDE DEF x, words, rest
  <2>3. x % words = rest
    BY <2>1, <2>2, DivModUnique
  <2> QED
    BY <2>3 DEF x, words, rest
<1>7. BitCount(n).low = r /\ BitCount(n).high = h
  BY DEF BitCount, r, h, q, W
<1>8. W * h \in Nat
  BY <1>1, <1>3
<1> QED
  BY <1>1, <1>2, <1>3, <1>6, <1>7, <1>8 DEF W

(* update() adds to the count as it should: a carry is a wrapped sum that  *)
(* is less than what was added.                                            *)
LEMMA CountedAdds ==
  ASSUME NEW m \in Nat, NEW n \in Nat
  PROVE  Counted(BitCount(m), n) = BitCount(m + n)
<1> DEFINE W == WordMod
           p == (8 * m) \div W
           s == (8 * m) % W
           q == (8 * n) \div W
           r == (8 * n) % W
           low == (s + r) % W
           carry == IF low < r THEN 1 ELSE 0
<1>1. W \in Nat \ {0} /\ 8 * n \in Nat /\ 8 * m \in Nat
  BY MD5Assumption
<1>2. Counted(BitCount(m), n) = [low |-> low, high |-> ((p % W) + carry + q) % W]
  BY DEF Counted, BitCount, Shifted
<1>3. BitCount(m + n) = [low |-> (8 * (m + n)) % W, high |-> ((8 * (m + n)) \div W) % W]
  BY DEF BitCount
<1> HIDE DEF W
<1>4. p \in Nat /\ s \in Nat /\ s < W /\ 8 * m = W * p + s
  BY <1>1, DivMod, QuotientNatural
<1>5. q \in Nat /\ r \in Nat /\ r < W /\ 8 * n = W * q + r
  BY <1>1, DivMod, QuotientNatural
<1> HIDE DEF p, s, q, r
<1>6. 8 * (m + n) = W * (p + q) + (s + r)
  BY <1>1, <1>4, <1>5
<1>7. /\ low \in Nat /\ low < W
      /\ 8 * (m + n) = W * (p + q + carry) + low
  <2>1. CASE s + r < W
    <3>1. low = s + r
      BY <1>1, <1>4, <1>5, <2>1
    <3>2. carry = 0
      BY <1>4, <1>5, <3>1
    <3> HIDE DEF low, carry
    <3> QED
      BY <1>1, <1>4, <1>5, <1>6, <2>1, <3>1, <3>2
  <2>2. CASE ~(s + r < W)
    <3>1. s + r = W * 1 + (s + r - W) /\ s + r - W \in Nat /\ s + r - W < W
      BY <1>1, <1>4, <1>5, <2>2
    <3>2. low = s + r - W
      BY <1>1, <1>4, <1>5, <3>1, DivModUnique
    <3>3. carry = 1
      BY <1>1, <1>4, <1>5, <3>2
    <3> HIDE DEF low, carry
    <3>4. W * (p + q + 1) = W * (p + q) + W
      BY <1>1, <1>4, <1>5
    <3> QED
      BY <1>1, <1>4, <1>5, <1>6, <3>1, <3>2, <3>3, <3>4
  <2> QED
    BY <2>1, <2>2
<1>8. carry \in Nat
  OBVIOUS
<1> HIDE DEF low, carry
<1>9. (8 * (m + n)) % W = low /\ (8 * (m + n)) \div W = p + q + carry
  BY <1>1, <1>4, <1>5, <1>7, <1>8, DivModUnique
<1>10. ((p % W) + carry + q) % W = (p + q + carry) % W
  <2>1. ((p % W) + (carry + q)) % W = (p + (carry + q)) % W
    <3> DEFINE u == carry + q
    <3>1. u \in Nat
      BY <1>5, <1>8
    <3> HIDE DEF u
    <3>2. ((p % W) + u) % W = (p + u) % W
      BY <1>1, <1>4, <3>1, ModOfSum
    <3> QED
      BY <3>2 DEF u
  <2>2. p % W \in Nat
    BY <1>1, <1>4, DivMod
  <2>3. (p % W) + carry + q = (p % W) + (carry + q) /\ p + (carry + q) = p + q + carry
    BY <1>4, <1>5, <1>8, <2>2
  <2> QED
    BY <2>1, <2>3
<1> QED
  BY <1>2, <1>3, <1>9, <1>10

(* The bytes in the buffer can be read off the low word, although that     *)
(* has wrapped: its range is a whole number of blocks.                     *)
LEMMA IndexIsRest ==
  ASSUME NEW n \in Nat
  PROVE  Index(BitCount(n)) = n % BlockLen
<1> DEFINE W == WordMod
           B == BlockLen
           k == W \div (8 * B)
           q == (8 * n) \div W
           r == (8 * n) % W
           x == r \div 8
<1>1. W \in Nat \ {0} /\ B \in Nat \ {0} /\ W % (8 * B) = 0 /\ 8 * n \in Nat
  BY MD5Assumption
<1>2. Index(BitCount(n)) = x % B
  BY DEF Index, BitCount
<1> HIDE DEF W, B
<1>3. k \in Nat /\ W = (8 * B) * k
  <2> DEFINE e == 8 * B
  <2>1. e \in Nat \ {0}
    BY <1>1
  <2> HIDE DEF e
  <2>2. W \div e \in Nat /\ W % e \in Nat /\ W = e * (W \div e) + (W % e)
    BY <1>1, <2>1, DivMod, QuotientNatural
  <2>3. W % e = 0
    BY <1>1 DEF e
  <2>4. W = e * (W \div e)
    BY <2>1, <2>2, <2>3
  <2> QED
    BY <2>2, <2>4 DEF e
<1>4. q \in Nat /\ r \in Nat /\ 8 * n = W * q + r
  BY <1>1, DivMod, QuotientNatural
<1> HIDE DEF k, q, r
<1>5. B * k * q \in Nat /\ r = 8 * (n - B * k * q)
  <2>1. B * k * q \in Nat /\ W * q = 8 * (B * k * q)
    BY <1>1, <1>3, <1>4
  <2> QED
    BY <1>1, <1>4, <2>1
<1>6. x = n - B * k * q /\ x \in Nat
  BY <1>4, <1>5
<1> HIDE DEF x
<1>7. x \div B \in Nat /\ x % B \in Nat /\ x % B < B /\ x = B * (x \div B) + (x % B)
  <2>1. x \in Nat /\ x \in Int /\ B \in Nat \ {0}
    BY <1>1, <1>6
  <2> QED
    BY <2>1, DivMod, QuotientNatural
<1>8. n = B * (k * q + (x \div B)) + (x % B) /\ k * q + (x \div B) \in Int
  <2> DEFINE d == x \div B
             e == x % B
  <2>1. d \in Nat /\ e \in Nat /\ x = B * d + e
    BY <1>7
  <2> HIDE DEF d, e
  <2>2. B * (k * q + d) = B * k * q + B * d
    BY <1>1, <1>3, <1>4, <2>1
  <2>3. k * q \in Nat
    BY <1>3, <1>4
  <2>4. n = B * (k * q + d) + e
    <3> DEFINE a == B * k * q
               b == B * d
               t == B * (k * q + d)
    <3>1. a \in Nat /\ x = n - a
      BY <1>5, <1>6
    <3>2. b \in Nat /\ x = b + e
      BY <1>1, <2>1
    <3>3. t = a + b
      BY <2>2
    <3> HIDE DEF a, b, t
    <3>4. n = t + e
      BY <2>1, <3>1, <3>2, <3>3
    <3> QED
      BY <3>4 DEF t
  <2>5. k * q + d \in Int
    BY <2>1, <2>3
  <2> QED
    BY <2>4, <2>5 DEF d, e
<1>9. n % B = x % B
  <2> DEFINE j == k * q + (x \div B)
             e == x % B
  <2>1. j \in Int /\ e \in Nat /\ e < B /\ n = B * j + e
    BY <1>7, <1>8
  <2> HIDE DEF j, e
  <2>2. n % B = e
    BY <1>1, <2>1, DivModUnique
  <2> QED
    BY <2>2 DEF e
<1> QED
  BY <1>2, <1>9 DEF B

-----------------------------------------------------------------------------
(* A context that has taken in the sequence s: it has transformed the      *)
(* whole blocks of s and keeps the rest at the front of the buffer.        *)
BlockOf(s, k) == [i \in 1 .. BlockLen |-> s[BlockLen * (k - 1) + i]]

WholeBlocks(s) == [k \in 1 .. Len(s) \div BlockLen |-> BlockOf(s, k)]

Absorbed(c, s) ==
  /\ c.count = BitCount(Len(s))
  /\ c.state = WholeBlocks(s)
  /\ \A i \in 1 .. Len(s) % BlockLen :
       c.buffer[i] = s[BlockLen * (Len(s) \div BlockLen) + i]

(* A piece that does not fill the buffer.                                  *)
LEMMA ShortPiece ==
  ASSUME NEW S, NEW c, NEW s \in Seq(S), NEW p \in Seq(S), Absorbed(c, s),
         Len(p) < BlockLen - (Len(s) % BlockLen)
  PROVE  Absorbed(Updated(c, p), s \o p)
<1> DEFINE B == BlockLen
           n == Len(s)
           index == n % B
           q == n \div B
           u == Updated(c, p)
<1>1. B \in Nat \ {0} /\ n \in Nat /\ Len(p) \in Nat
  BY MD5Assumption, LenProperties
<1>2. q \in Nat /\ index \in Nat /\ index < B /\ n = B * q + index
  <2> HIDE DEF B, n
  <2> QED
    BY <1>1, DivMod, QuotientNatural
<1>3. /\ Len(s \o p) = n + Len(p)
      /\ \A i \in 1 .. n + Len(p) : (s \o p)[i] = IF i <= n THEN s[i] ELSE p[i - n]
  BY ConcatProperties
<1>4. Index(c.count) = index /\ Len(p) < B - index
  BY <1>1, IndexIsRest DEF Absorbed
<1>5. /\ u.count = BitCount(n + Len(p))
      /\ u.state = WholeBlocks(s)
      /\ u.buffer = Overwritten(c.buffer, index, p)
  <2>1. ~(Len(p) >= B - index)
    <3> HIDE DEF B, index
    <3> QED
      BY <1>1, <1>2, <1>4
  <2>2. Counted(c.count, Len(p)) = BitCount(n + Len(p))
    BY <1>1, CountedAdds DEF Absorbed
  <2> HIDE DEF B, index
  <2> QED
    BY <1>4, <2>1, <2>2 DEF Updated, Absorbed, B
<1> HIDE DEF u, q, index, B, n
<1>6. (n + Len(p)) \div B = q /\ (n + Len(p)) % B = index + Len(p)
  <2>1. n + Len(p) = B * q + (index + Len(p)) /\ index + Len(p) < B /\ index + Len(p) \in Nat
    BY <1>1, <1>2, <1>4
  <2> DEFINE total == n + Len(p)
             rest == index + Len(p)
  <2>2. total \in Int /\ q \in Int /\ rest \in Nat /\ rest < B /\ total = B * q + rest
    BY <1>1, <1>2, <2>1
  <2> HIDE DEF total, rest
  <2>3. total \div B = q /\ total % B = rest
    BY <1>1, <2>2, DivModUnique
  <2> QED
    BY <2>3 DEF total, rest
<1>7. u.state = WholeBlocks(s \o p)
  <2>1. \A k \in 1 .. q : BlockOf(s \o p, k) = BlockOf(s, k)
    <3> SUFFICES ASSUME NEW k \in 1 .. q, NEW i \in 1 .. B
                 PROVE  (s \o p)[B * (k - 1) + i] = s[B * (k - 1) + i]
      BY DEF BlockOf, B
    <3>1. B * (k - 1) + i \in 1 .. n
      <4>1. B * (k - 1) \in Nat /\ B * (q - k) \in Nat
        BY <1>1, <1>2
      <4>2. B * q = B * (k - 1) + B + B * (q - k)
        BY <1>1, <1>2
      <4> QED
        BY <1>1, <1>2, <4>1, <4>2
    <3> QED
      BY <1>1, <1>3, <3>1
  <2> QED
    BY <1>3, <1>5, <1>6, <2>1 DEF WholeBlocks, B, q, n
<1>8. ASSUME NEW i \in 1 .. index + Len(p)
      PROVE  u.buffer[i] = (s \o p)[B * q + i]
  <2>1. i \in 1 .. B /\ B * q \in Nat /\ B * q + i \in 1 .. n + Len(p)
    BY <1>1, <1>2, <1>4, <1>8
  <2>2. u.buffer[i] = IF index < i /\ i <= index + Len(p) THEN p[i - index] ELSE c.buffer[i]
    BY <1>5, <2>1 DEF Overwritten, B
  <2>3. CASE i <= index
    <3>1. c.buffer[i] = s[B * q + i]
      BY <1>1, <1>2, <1>8, <2>3 DEF Absorbed, B, q, index, n
    <3>2. (s \o p)[B * q + i] = s[B * q + i]
      BY <1>1, <1>2, <1>3, <2>1, <2>3
    <3> QED
      BY <1>2, <1>8, <2>2, <2>3, <3>1, <3>2
  <2>4. CASE ~(i <= index)
    <3>1. B * q + i - n = i - index /\ ~(B * q + i <= n)
      BY <1>1, <1>2, <1>8, <2>1, <2>4
    <3>2. (s \o p)[B * q + i] = p[i - index]
      <4> DEFINE at == B * q + i
      <4>1. at \in 1 .. n + Len(p)
        BY <2>1
      <4>2. ~(at <= n) /\ at - n = i - index
        BY <1>1, <1>2, <1>8, <2>1, <3>1
      <4> HIDE DEF at
      <4>3. (s \o p)[at] = p[at - n]
        BY <1>3, <4>1, <4>2
      <4> QED
        BY <4>2, <4>3 DEF at
    <3>3. u.buffer[i] = p[i - index]
      BY <1>1, <1>2, <1>8, <2>2, <2>4
    <3> QED
      BY <3>2, <3>3
  <2> QED
    BY <2>3, <2>4
<1> QED
  BY <1>3, <1>5, <1>6, <1>7, <1>8 DEF Absorbed, u, B, n

(* The whole blocks of a sequence are sequences.                           *)
LEMMA BlocksAreSeqs ==
  ASSUME NEW S, NEW s \in Seq(S)
  PROVE  /\ Len(s) \div BlockLen \in Nat
         /\ WholeBlocks(s) \in Seq(Seq(S))
         /\ Len(WholeBlocks(s)) = Len(s) \div BlockLen
         /\ \A k \in 1 .. Len(s) \div BlockLen : WholeBlocks(s)[k] = BlockOf(s, k)
<1> DEFINE B == BlockLen
           n == Len(s)
           q == n \div B
<1>1. B \in Nat \ {0} /\ n \in Nat /\ \A i \in 1 .. n : s[i] \in S
  BY MD5Assumption, LenProperties, ElementOfSeq
<1>2. q \in Nat /\ B * q <= n
  <2> HIDE DEF B, n
  <2>1. q \in Nat /\ n % B \in Nat /\ n = B * q + (n % B)
    BY <1>1, DivMod, QuotientNatural
  <2> QED
    BY <1>1, <2>1
<1>3. ASSUME NEW k \in 1 .. q PROVE BlockOf(s, k) \in Seq(S)
  <2>1. \A i \in 1 .. B : B * (k - 1) + i \in 1 .. n
    <3> HIDE DEF B, n, q
    <3> QED
      BY <1>1, <1>2, PlaceInBlock
  <2>2. \A i \in 1 .. B : s[B * (k - 1) + i] \in S
    BY <1>1, <2>1
  <2>3. BlockOf(s, k) \in [1 .. B -> S]
    BY <2>2 DEF BlockOf
  <2> QED
    BY <1>1, <2>3
<1>4. WholeBlocks(s) \in [1 .. q -> Seq(S)]
  BY <1>3 DEF WholeBlocks
<1> HIDE DEF q
<1>5. WholeBlocks(s) \in Seq(Seq(S)) /\ Len(WholeBlocks(s)) = q
  BY <1>2, <1>4
<1> QED
  BY <1>2, <1>5 DEF WholeBlocks, q

(* A part of a piece, byte by byte.                                        *)
LEMMA PieceBlock ==
  ASSUME NEW S, NEW p \in Seq(S), NEW a \in Nat, NEW b \in Nat, a + b <= Len(p)
  PROVE  /\ SubSeq(p, a + 1, a + b) \in Seq(S)
         /\ Len(SubSeq(p, a + 1, a + b)) = b
         /\ \A i \in 1 .. b : SubSeq(p, a + 1, a + b)[i] = p[a + i]
<1>1. Len(p) \in Nat /\ \A i \in a + 1 .. a + b : p[i] \in S
  BY LenProperties, ElementOfSeq
<1> DEFINE first == a + 1
           last == a + b
<1>2. first \in Int /\ last \in Int /\ last - first + 1 = b /\ (first <= last <=> b > 0)
  OBVIOUS
<1>3. \A i \in first .. last : p[i] \in S
  BY <1>1
<1>4. \A i \in Int : first + i - 1 = a + i
  OBVIOUS
<1> HIDE DEF first, last
<1>5. /\ SubSeq(p, first, last) \in Seq(S)
      /\ Len(SubSeq(p, first, last)) = IF first <= last THEN last - first + 1 ELSE 0
      /\ \A i \in 1 .. last - first + 1 : SubSeq(p, first, last)[i] = p[first + i - 1]
  BY <1>2, <1>3, SubSeqProperties
<1>6. Len(SubSeq(p, first, last)) = b
  BY <1>2, <1>5
<1>7. \A i \in 1 .. b : SubSeq(p, first, last)[i] = p[a + i]
  BY <1>2, <1>4, <1>5
<1> QED
  BY <1>5, <1>6, <1>7 DEF first, last

(* A piece that fills the buffer: what it holds then, the whole blocks     *)
(* after that, and the rest.                                               *)
LEMMA LongPiece ==
  ASSUME NEW S, NEW c, NEW s \in Seq(S), NEW p \in Seq(S), Absorbed(c, s),
         Len(p) >= BlockLen - (Len(s) % BlockLen)
  PROVE  Absorbed(Updated(c, p), s \o p)
<1> DEFINE B == BlockLen
           n == Len(s)
           m == Len(p)
           index == n % B
           q == n \div B
           space == B - index
           nb == (m - space) \div B
           r == (m - space) % B
           t == s \o p
           u == Updated(c, p)
           full == Overwritten(c.buffer, index, SubSeq(p, 1, space))
           blocks == BlocksOf(p, space)
           left == SubSeq(p, space + B * Len(blocks) + 1, m)
<1>1. B \in Nat \ {0} /\ n \in Nat /\ m \in Nat
  BY MD5Assumption, LenProperties
<1>2. q \in Nat /\ index \in Nat /\ index < B /\ n = B * q + index
  <2> HIDE DEF B, n
  <2> QED
    BY <1>1, DivMod, QuotientNatural
<1>3. /\ t \in Seq(S) /\ Len(t) = n + m
      /\ \A i \in 1 .. n + m : t[i] = IF i <= n THEN s[i] ELSE p[i - n]
  BY ConcatProperties
<1>4. Index(c.count) = index /\ m >= space
  BY <1>1, IndexIsRest DEF Absorbed
<1>5. nb \in Nat /\ r \in Nat /\ r < B /\ m = space + B * nb + r
  <2> HIDE DEF B, m, index
  <2> DEFINE d == m - space
  <2>1. d \in Nat
    BY <1>1, <1>2, <1>4
  <2>2. m = space + d
    BY <1>1, <1>2
  <2> HIDE DEF d
  <2>3. d \div B \in Nat /\ d % B \in Nat /\ d % B < B /\ d = B * (d \div B) + (d % B)
    BY <1>1, <2>1, DivMod, QuotientNatural
  <2>4. d \div B = nb /\ d % B = r
    BY DEF d
  <2>5. space \in Int
    BY <1>1, <1>2
  <2> HIDE DEF nb, r, space
  <2>6. nb \in Nat /\ r \in Nat /\ r < B /\ d = B * nb + r
    BY <2>3, <2>4
  <2>7. B * nb \in Nat
    BY <1>1, <2>6
  <2> QED
    BY <1>1, <2>1, <2>2, <2>5, <2>6, <2>7
<1>6. /\ blocks = [k \in 1 .. nb |-> SubSeq(p, space + B * (k - 1) + 1, space + B * k)]
      /\ Len(blocks) = nb
  <2>1. blocks = [k \in 1 .. nb |-> SubSeq(p, space + B * (k - 1) + 1, space + B * k)]
    BY DEF BlocksOf
  <2> HIDE DEF blocks, nb, space, B
  <2> QED
    BY <1>5, <2>1
<1>7. /\ u.count = BitCount(n + m)
      /\ u.state = WholeBlocks(s) \o (<<full>> \o blocks)
      /\ u.buffer = Overwritten(full, 0, left)
  <2>1. Counted(c.count, m) = BitCount(n + m)
    BY <1>1, CountedAdds DEF Absorbed
  <2> HIDE DEF index
  <2> QED
    BY <1>4, <2>1 DEF Updated, Absorbed, Transformed
<1>8. space \in Nat \ {0} /\ space <= B
  <2> HIDE DEF B, index
  <2> QED
    BY <1>1, <1>2
<1>9. (n + m) \div B = q + 1 + nb /\ (n + m) % B = r
  <2> DEFINE total == n + m
             j == q + 1 + nb
  <2>1. total \in Int /\ j \in Int
    BY <1>1, <1>2, <1>5
  <2>2. total = B * j + r
    <3> HIDE DEF B, n, m, index, q, nb, r
    <3>1. B * (q + 1 + nb) = B * q + B + B * nb
      BY <1>1, <1>2, <1>5
    <3>2. B * q \in Nat /\ B * nb \in Nat
      BY <1>1, <1>2, <1>5
    <3> QED
      BY <1>1, <1>2, <1>5, <3>1, <3>2
  <2> HIDE DEF total, j, B, r
  <2>3. total \div B = j /\ total % B = r
    BY <1>1, <1>5, <2>1, <2>2, DivModUnique
  <2> QED
    BY <2>3 DEF total, j
<1> HIDE DEF u, B, n, m, index, q, space, nb, r, t, blocks
(* Where the bytes of the piece are in all.                                *)
<1>10. \A i \in 1 .. m : t[n + i] = p[i]
  <2> SUFFICES ASSUME NEW i \in 1 .. m PROVE t[n + i] = p[i]
    OBVIOUS
  <2> DEFINE at == n + i
  <2>1. at \in 1 .. n + m /\ ~(at <= n) /\ at - n = i
    BY <1>1
  <2> HIDE DEF at
  <2>2. t[at] = p[at - n]
    BY <1>3, <2>1
  <2> QED
    BY <2>1, <2>2 DEF at
<1>11. \A a, i \in Nat : space + a + i \in 1 .. m => t[B * q + B + a + i] = p[space + a + i]
  <2> SUFFICES ASSUME NEW a \in Nat, NEW i \in Nat, space + a + i \in 1 .. m
               PROVE  t[B * q + B + a + i] = p[space + a + i]
    OBVIOUS
  <2>1. B * q \in Nat
    BY <1>1, <1>2
  <2>2. B * q + B + a + i = n + (space + a + i)
    BY <1>1, <1>2, <2>1 DEF space
  <2> QED
    BY <1>10, <2>2
<1>12. full = BlockOf(t, q + 1)
  <2> SUFFICES ASSUME NEW i \in 1 .. B PROVE full[i] = t[B * q + i]
    <3>1. B * ((q + 1) - 1) = B * q
      BY <1>1, <1>2
    <3> QED
      BY <3>1 DEF Overwritten, BlockOf, B
  <2> DEFINE head == SubSeq(p, 1, space)
  <2>1. Len(head) = space /\ \A j \in 1 .. space : head[j] = p[j]
    <3>1. 0 + 1 = 1 /\ 0 + space = space /\ \A j \in 1 .. space : 0 + j = j
      BY <1>8
    <3>2. /\ Len(SubSeq(p, 0 + 1, 0 + space)) = space
          /\ \A j \in 1 .. space : SubSeq(p, 0 + 1, 0 + space)[j] = p[0 + j]
      BY <1>1, <1>4, <1>8, PieceBlock DEF m
    <3> QED
      BY <3>1, <3>2
  <2>2. full[i] = IF index < i /\ i <= index + Len(head) THEN head[i - index] ELSE c.buffer[i]
    BY DEF Overwritten, B
  <2> HIDE DEF full, head
  <2>3. index + Len(head) = B
    BY <1>1, <1>2, <2>1 DEF space
  <2>4. CASE i <= index
    <3>1. full[i] = c.buffer[i]
      BY <1>1, <1>2, <2>2, <2>4
    <3>2. c.buffer[i] = s[B * q + i]
      BY <1>1, <1>2, <2>4 DEF Absorbed, B, q, index, n
    <3>3. B * q + i \in 1 .. n
      <4>1. B * q \in Nat
        BY <1>1, <1>2
      <4> QED
        BY <1>1, <1>2, <2>4, <4>1
    <3>4. t[B * q + i] = s[B * q + i]
      BY <1>1, <1>3, <3>3
    <3> QED
      BY <3>1, <3>2, <3>4
  <2>5. CASE ~(i <= index)
    <3>1. i - index \in 1 .. space /\ i - index \in 1 .. m
      BY <1>1, <1>2, <1>4, <2>5 DEF space
    <3>2. full[i] = head[i - index]
      BY <1>1, <1>2, <2>2, <2>3, <2>5
    <3>3. head[i - index] = p[i - index]
      BY <2>1, <3>1
    <3>4. B * q + i = n + (i - index)
      <4>1. B * q \in Nat
        BY <1>1, <1>2
      <4> QED
        BY <1>1, <1>2, <4>1
    <3> QED
      BY <1>10, <3>1, <3>2, <3>3, <3>4
  <2> QED
    BY <2>4, <2>5
<1> HIDE DEF full
<1>13. ASSUME NEW k \in 1 .. nb
       PROVE  blocks[k] \in Seq(S) /\ blocks[k] = BlockOf(t, q + 1 + k)
  <2> DEFINE a == B * (k - 1)
             x == space + a
  <2>1. a \in Nat /\ B * k = a + B /\ a + B <= B * nb
    <3>1. a \in Nat /\ B * k = a + B
      BY <1>1, <1>5
    <3>2. B * (nb - k) \in Nat /\ B * nb = B * k + B * (nb - k)
      BY <1>1, <1>5
    <3>3. B * k \in Nat /\ B * nb \in Nat
      BY <1>1, <1>5
    <3> QED
      BY <1>1, <3>1, <3>2, <3>3
  <2>2. B * nb \in Nat /\ blocks[k] = SubSeq(p, space + a + 1, space + B * k)
    <3>1. blocks[k] = SubSeq(p, space + B * (k - 1) + 1, space + B * k)
      BY <1>6
    <3>2. B * nb \in Nat
      BY <1>1, <1>5
    <3> QED
      BY <3>1, <3>2
  <2>3. B * ((q + 1 + k) - 1) = B * q + B + a /\ B * q \in Nat
    <3>1. B * ((q + 1 + k) - 1) = B * q + B * k /\ B * q \in Nat
      BY <1>1, <1>2
    <3>2. B * k = a + B
      BY <2>1
    <3> HIDE DEF a
    <3> QED
      BY <1>1, <2>1, <3>1, <3>2
  <2> HIDE DEF a
  <2>4. x \in Nat /\ x + B <= m /\ space + B * k = x + B
    BY <1>1, <1>5, <1>8, <2>1, <2>2
  <2>5. blocks[k] = SubSeq(p, x + 1, x + B)
    BY <2>2, <2>4
  <2> HIDE DEF x
  <2>6. /\ blocks[k] \in Seq(S) /\ Len(blocks[k]) = B
        /\ \A i \in 1 .. B : blocks[k][i] = p[x + i]
    <3>1. B \in Nat /\ x + B <= Len(p)
      BY <1>1, <2>4 DEF m
    <3>2. /\ SubSeq(p, x + 1, x + B) \in Seq(S)
          /\ Len(SubSeq(p, x + 1, x + B)) = B
          /\ \A i \in 1 .. B : SubSeq(p, x + 1, x + B)[i] = p[x + i]
      BY <2>4, <3>1, PieceBlock
    <3> QED
      BY <2>5, <3>2
  <2>7. \A i \in 1 .. B : p[x + i] = t[B * q + B + a + i]
    BY <1>1, <1>8, <1>11, <2>1, <2>4 DEF x
  <2>8. \A i \in 1 .. B : BlockOf(t, q + 1 + k)[i] = t[B * q + B + a + i]
    BY <2>3 DEF BlockOf, B
  <2>9. blocks[k] \in [1 .. B -> S]
    BY <2>6, LenProperties
  <2>10. BlockOf(t, q + 1 + k) = [i \in 1 .. B |-> BlockOf(t, q + 1 + k)[i]]
    BY DEF BlockOf, B
  <2>11. \A i \in 1 .. B : blocks[k][i] = BlockOf(t, q + 1 + k)[i]
    BY <2>6, <2>7, <2>8
  <2> QED
    BY <2>6, <2>9, <2>10, <2>11
<1>14. u.state = WholeBlocks(t)
  <2> DEFINE one == <<full>>
             more == one \o blocks
             state == WholeBlocks(s)
             all == WholeBlocks(t)
             old == state \o more
  <2>1. /\ state \in Seq(Seq(S)) /\ Len(state) = q
        /\ \A k \in 1 .. q : state[k] = BlockOf(s, k)
    BY BlocksAreSeqs DEF q, n, B
  <2>2. /\ all \in Seq(Seq(S)) /\ Len(all) = q + 1 + nb
        /\ \A k \in 1 .. q + 1 + nb : all[k] = BlockOf(t, k)
    BY <1>3, <1>9, BlocksAreSeqs DEF B
  <2>3. blocks \in Seq(Seq(S))
    <3>1. blocks \in [1 .. nb -> Seq(S)]
      <4>1. blocks = [k \in 1 .. nb |-> blocks[k]]
        BY <1>6
      <4> QED
        BY <1>13, <4>1
    <3> QED
      BY <1>5, <3>1
  <2>4. full \in Seq(S)
    <3>1. q + 1 \in 1 .. q + 1 + nb
      BY <1>2, <1>5
    <3>2. all[q + 1] \in Seq(S)
      BY <2>2, <3>1, ElementOfSeq
    <3> QED
      BY <1>12, <2>2, <3>1, <3>2
  <2>5. one \in Seq(Seq(S)) /\ Len(one) = 1 /\ one[1] = full
    BY <2>4
  <2> HIDE DEF one, state, all
  <2>6. /\ more \in Seq(Seq(S)) /\ Len(more) = 1 + nb
        /\ \A k \in 1 .. 1 + nb : more[k] = IF k <= 1 THEN one[k] ELSE blocks[k - 1]
    <3>1. /\ more \in Seq(Seq(S)) /\ Len(more) = Len(one) + Len(blocks)
          /\ \A k \in 1 .. Len(one) + Len(blocks) :
               more[k] = IF k <= Len(one) THEN one[k] ELSE blocks[k - Len(one)]
      BY <2>3, <2>5, ConcatProperties
    <3> HIDE DEF more
    <3> QED
      BY <1>6, <2>5, <3>1
  <2> HIDE DEF more
  <2>7. /\ old \in Seq(Seq(S)) /\ Len(old) = q + (1 + nb)
        /\ \A k \in 1 .. q + (1 + nb) : old[k] = IF k <= q THEN state[k] ELSE more[k - q]
    <3>1. state \in Seq(Seq(S)) /\ more \in Seq(Seq(S))
      BY <2>1, <2>6
    <3>2. /\ old \in Seq(Seq(S)) /\ Len(old) = Len(state) + Len(more)
          /\ \A k \in 1 .. Len(state) + Len(more) :
               old[k] = IF k <= Len(state) THEN state[k] ELSE more[k - Len(state)]
      BY <3>1, ConcatProperties
    <3> HIDE DEF old
    <3> QED
      BY <2>1, <2>6, <3>2
  <2> HIDE DEF old
  <2>8. ASSUME NEW k \in 1 .. q + 1 + nb PROVE old[k] = all[k]
    <3>1. CASE k <= q
      <4>1. BlockOf(t, k) = BlockOf(s, k)
        <5> SUFFICES ASSUME NEW i \in 1 .. B
                     PROVE  t[B * (k - 1) + i] = s[B * (k - 1) + i]
          BY DEF BlockOf, B
        <5> DEFINE at == B * (k - 1) + i
        <5>1. B * q \in Nat /\ B * q <= n /\ k \in 1 .. q
          BY <1>1, <1>2, <3>1
        <5>2. at \in 1 .. n
          BY <1>1, <1>2, <5>1, PlaceInBlock
        <5> HIDE DEF at
        <5>3. t[at] = s[at]
          BY <1>1, <1>3, <5>2
        <5> QED
          BY <5>3 DEF at
      <4> QED
        BY <1>2, <1>5, <2>1, <2>2, <2>7, <3>1, <4>1
    <3>2. CASE k = q + 1
      <4>1. old[k] = more[1]
        BY <1>2, <1>5, <2>7, <3>2
      <4>2. more[1] = full
        BY <1>5, <2>5, <2>6
      <4> QED
        BY <1>12, <2>2, <3>2, <4>1, <4>2
    <3>3. CASE k > q + 1
      <4> DEFINE j == k - q - 1
      <4>1. j \in 1 .. nb /\ k = q + 1 + j /\ k - q = j + 1 /\ (k - q) - 1 = j
        BY <1>2, <1>5, <3>3
      <4> HIDE DEF j
      <4>2. old[k] = more[k - q]
        BY <1>2, <1>5, <2>7, <3>3
      <4>3. more[k - q] = blocks[j]
        BY <1>5, <2>6, <4>1
      <4>4. blocks[j] = BlockOf(t, k)
        BY <1>13, <4>1
      <4> QED
        BY <2>2, <4>2, <4>3, <4>4
    <3> QED
      BY <1>2, <1>5, <3>1, <3>2, <3>3
  <2>9. Len(old) = Len(all) /\ \A k \in 1 .. Len(old) : old[k] = all[k]
    BY <1>2, <1>5, <2>2, <2>7, <2>8
  <2>10. old = all
    BY <2>2, <2>7, <2>9, SeqEqual
  <2> QED
    BY <1>7, <2>10 DEF old, more, one, state, all
<1>15. ASSUME NEW i \in 1 .. r
       PROVE  u.buffer[i] = t[B * (q + 1 + nb) + i]
  <2> DEFINE x == space + B * nb
  <2>1. x \in Nat /\ m = x + r
    <3>1. B * nb \in Nat
      BY <1>1, <1>5
    <3> QED
      BY <1>1, <1>5, <1>8, <3>1
  <2>2. left = SubSeq(p, x + 1, x + r)
    BY <1>6, <2>1
  <2> HIDE DEF left, x
  <2>3. Len(left) = r /\ left[i] = p[x + i]
    BY <1>1, <1>5, <2>1, <2>2, PieceBlock DEF m
  <2>4. u.buffer[i] = left[i]
    <3>1. u.buffer[i] = IF 0 < i /\ i <= 0 + Len(left) THEN left[i - 0] ELSE full[i]
      BY <1>1, <1>5, <1>7 DEF Overwritten, B
    <3> QED
      BY <1>5, <2>3, <3>1
  <2>5. B * (q + 1 + nb) = B * q + B + B * nb /\ B * nb \in Nat
    BY <1>1, <1>2, <1>5
  <2>6. t[B * q + B + B * nb + i] = p[space + B * nb + i]
    <3>1. space + B * nb + i \in 1 .. m
      BY <1>1, <1>5, <2>1 DEF x
    <3> QED
      BY <1>11, <2>5, <3>1
  <2> QED
    BY <2>3, <2>4, <2>5, <2>6 DEF x
<1> QED
  BY <1>3, <1>7, <1>9, <1>14, <1>15 DEF Absorbed, B, t, u

(* update() absorbs every piece.                                           *)
LEMMA UpdatedAbsorbs ==
  ASSUME NEW S, NEW c, NEW s \in Seq(S), NEW p \in Seq(S), Absorbed(c, s)
  PROVE  Absorbed(Updated(c, p), s \o p)
<1>1. Len(p) \in Nat /\ Len(s) % BlockLen \in Nat /\ BlockLen \in Nat
  <2>1. Len(p) \in Nat /\ Len(s) \in Nat /\ BlockLen \in Nat \ {0}
    BY MD5Assumption, LenProperties
  <2> QED
    BY <2>1, DivMod
<1> QED
  BY <1>1, ShortPiece, LongPiece

-----------------------------------------------------------------------------
(* The input, its padding, and the inductive invariant.                    *)
Byte == {Mark, Zero} \cup {InputByte(i) : i \in Nat}
          \cup {LengthByte(BitCount(n), i) : n \in Nat, i \in Nat}

InputOf(n) == [i \in 1 .. n |-> InputByte(i - 1)]

DigestSound ==
  /\ length \in Nat
  /\ finalized \in BOOLEAN
  /\ ~finalized => Absorbed(context, InputOf(length))
  /\ finalized => digest = PaddedInput(length)

(* The input is a sequence of bytes.                                       *)
LEMMA InputIsSeq ==
  ASSUME NEW n \in Nat
  PROVE  InputOf(n) \in Seq(Byte) /\ Len(InputOf(n)) = n
<1>1. \A i \in 1 .. n : i - 1 \in Nat
  OBVIOUS
<1>2. \A i \in 1 .. n : InputByte(i - 1) \in Byte
  BY <1>1 DEF Byte
<1>3. InputOf(n) \in [1 .. n -> Byte]
  BY <1>2 DEF InputOf
<1> QED
  BY <1>3

(* A new context has absorbed nothing.                                     *)
LEMMA DigestSoundInit == MD5Init => DigestSound
<1> SUFFICES ASSUME MD5Init PROVE Absorbed(context, InputOf(0))
  <2>1. 0 \in Nat
    OBVIOUS
  <2> QED
    BY <2>1, Zenon DEF MD5Init, DigestSound
<1>1. BlockLen \in Nat \ {0} /\ WordMod \in Nat \ {0}
  BY MD5Assumption
<1>2. Len(InputOf(0)) = 0
  BY InputIsSeq
<1>3. /\ 0 = BlockLen * 0 + 0 /\ 0 = WordMod * 0 + 0
      /\ 0 % BlockLen = 0 /\ 0 \div BlockLen = 0 /\ 0 % WordMod = 0 /\ 0 \div WordMod = 0
  BY <1>1, DivModUnique
<1>4. BitCount(0) = [low |-> 0, high |-> 0]
  BY <1>3 DEF BitCount
<1>5. WholeBlocks(InputOf(0)) = <<>>
  BY <1>2, <1>3 DEF WholeBlocks
<1> QED
  BY <1>2, <1>3, <1>4, <1>5 DEF MD5Init, Absorbed

(* update() with the next bytes of the input.                              *)
LEMMA UpdateSound ==
  ASSUME DigestSound, NEW n \in Nat, Update(n)
  PROVE  DigestSound'
<1> DEFINE s == InputOf(length)
           p == [i \in 1 .. n |-> InputByte(length + i - 1)]
<1>1. /\ length \in Nat /\ ~finalized /\ Absorbed(context, s)
      /\ context' = Updated(context, p) /\ length' = length + n /\ finalized' = FALSE
  BY DEF DigestSound, Update
<1>2. s \in Seq(Byte) /\ Len(s) = length
  BY <1>1, InputIsSeq
<1>3. p \in Seq(Byte) /\ Len(p) = n
  <2>1. \A i \in 1 .. n : length + i - 1 \in Nat
    BY <1>1
  <2>2. \A i \in 1 .. n : InputByte(length + i - 1) \in Byte
    BY <2>1 DEF Byte
  <2>3. p \in [1 .. n -> Byte]
    BY <2>2
  <2> HIDE DEF p
  <2> QED
    BY <2>3
<1>4. s \o p = InputOf(length + n)
  <2> DEFINE t == s \o p
             u == InputOf(length + n)
  <2>1. /\ t \in Seq(Byte) /\ Len(t) = Len(s) + Len(p)
        /\ \A i \in 1 .. Len(s) + Len(p) : t[i] = IF i <= Len(s) THEN s[i] ELSE p[i - Len(s)]
    <3> HIDE DEF s, p
    <3> QED
      BY <1>2, <1>3, ConcatProperties
  <2>2. u \in Seq(Byte) /\ Len(u) = length + n
    BY <1>1, InputIsSeq
  <2>3. \A i \in 1 .. length + n : t[i] = u[i]
    <3> HIDE DEF t
    <3> SUFFICES ASSUME NEW i \in 1 .. length + n PROVE t[i] = InputByte(i - 1)
      BY DEF InputOf
    <3>1. CASE i <= length
      BY <1>1, <1>2, <1>3, <2>1, <3>1 DEF InputOf
    <3>2. CASE ~(i <= length)
      <4>1. i - length \in 1 .. n /\ length + (i - length) - 1 = i - 1
        BY <1>1, <3>2
      <4>2. t[i] = p[i - length]
        BY <1>1, <1>2, <1>3, <2>1, <3>2
      <4> QED
        BY <4>1, <4>2
    <3> QED
      BY <3>1, <3>2
  <2> HIDE DEF t, u, s, p
  <2>4. t = u
    BY <1>2, <1>3, <2>1, <2>2, <2>3, SeqEqual
  <2> QED
    BY <2>4 DEF t, u
<1> HIDE DEF s, p
<1>5. Absorbed(context', InputOf(length'))
  BY <1>1, <1>2, <1>3, <1>4, UpdatedAbsorbs
<1>6. length' \in Nat
  BY <1>1
<1>7. finalized' \in BOOLEAN /\ ~finalized'
  BY <1>1, Zenon
<1> QED
  BY <1>5, <1>6, <1>7, Zenon DEF DigestSound

-----------------------------------------------------------------------------
(* The padding reaches exactly to where the length belongs.                *)
LEMMA PadReaches ==
  ASSUME NEW n \in Nat
  PROVE  /\ PadLen(n % BlockLen) \in Nat \ {0}
         /\ PaddedLen(n) = n + PadLen(n % BlockLen) + LengthLen
<1> DEFINE B == BlockLen
           L == LengthLen
           index == n % B
           q == n \div B
           x == n + L
           pad == PadLen(index)
<1>1. B \in Nat \ {0} /\ L \in Nat \ {0} /\ L < B
  BY MD5Assumption
<1>2. PaddedLen(n) = B * ((x \div B) + 1)
  BY DEF PaddedLen
<1>3. pad = IF index < B - L THEN B - L - index ELSE 2 * B - L - index
  <2> HIDE DEF index
  <2> QED
    BY DEF PadLen
<1> HIDE DEF B, L, pad
<1>4. q \in Nat /\ index \in Nat /\ index < B /\ n = B * q + index
  BY <1>1, DivMod, QuotientNatural
<1> HIDE DEF index, q
<1>5. B * q \in Nat /\ x \in Int
  BY <1>1, <1>4
<1> HIDE DEF x
<1>6. CASE index < B - L
  <2>1. x = B * q + (index + L) /\ index + L \in Nat /\ index + L < B
    BY <1>1, <1>4, <1>5, <1>6 DEF x
  <2> DEFINE rest == index + L
  <2>2. rest \in Nat /\ rest < B /\ x = B * q + rest /\ q \in Int
    BY <1>4, <2>1
  <2> HIDE DEF rest
  <2>3. x \div B = q
    BY <1>1, <1>5, <2>2, DivModUnique
  <2>4. B * (q + 1) = B * q + B
    BY <1>1, <1>4
  <2>5. PaddedLen(n) = B * q + B
    BY <1>2, <2>3, <2>4
  <2>6. pad = B - L - index
    BY <1>3, <1>6
  <2>7. pad \in Nat \ {0} /\ PaddedLen(n) = n + pad + L
    BY <1>1, <1>4, <1>5, <1>6, <2>5, <2>6
  <2> QED
    BY <2>7 DEF pad, index, B, L
<1>7. CASE ~(index < B - L)
  <2>1. B * (q + 1) = B * q + B /\ B * (q + 2) = B * q + 2 * B
    BY <1>1, <1>4
  <2> DEFINE rest == index + L - B
             j == q + 1
  <2>2. rest \in Nat /\ rest < B /\ x = B * j + rest /\ j \in Int
    <3>1. rest \in Nat /\ rest < B /\ j \in Int
      BY <1>1, <1>4, <1>7
    <3>2. x = B * q + B + rest
      BY <1>1, <1>4, <1>5, <1>7 DEF x
    <3> QED
      BY <2>1, <3>1, <3>2
  <2> HIDE DEF rest, j
  <2>3. x \div B = j
    BY <1>1, <1>5, <2>2, DivModUnique
  <2>4. j + 1 = q + 2
    BY <1>4 DEF j
  <2>5. PaddedLen(n) = B * q + 2 * B
    BY <1>2, <2>1, <2>3, <2>4
  <2>6. pad = 2 * B - L - index
    BY <1>3, <1>7
  <2>7. pad \in Nat \ {0} /\ PaddedLen(n) = n + pad + L
    BY <1>1, <1>4, <1>5, <1>7, <2>5, <2>6
  <2> QED
    BY <2>7 DEF pad, index, B, L
<1> QED
  BY <1>6, <1>7

(* finalize(): what it has absorbed in the end is the padded input.        *)
LEMMA FinalizeSound ==
  ASSUME DigestSound, Finalize
  PROVE  DigestSound'
<1> DEFINE n == length
           B == BlockLen
           L == LengthLen
           bits == EncodedLength(context.count)
           pad == PadLen(Index(context.count))
           zeros == Padding(pad)
           input == InputOf(n)
           long == input \o zeros
           t == long \o bits
           padded == Updated(context, zeros)
           done == Updated(padded, bits)
<1>1. /\ n \in Nat /\ Absorbed(context, input)
      /\ digest' = done.state /\ length' = n
  BY DEF DigestSound, Finalize
<1>2. finalized' = TRUE
  BY DEF Finalize
<1>3. input \in Seq(Byte) /\ Len(input) = n
  BY <1>1, InputIsSeq
<1>4. context.count = BitCount(n)
  BY <1>3 DEF Absorbed, DigestSound, Finalize
<1>5. /\ B \in Nat \ {0} /\ L \in Nat \ {0}
      /\ pad \in Nat \ {0} /\ PaddedLen(n) = n + pad + L
  <2>1. pad = PadLen(n % BlockLen)
    BY <1>1, <1>4, IndexIsRest
  <2> QED
    BY <1>1, <2>1, PadReaches, MD5Assumption
<1> HIDE DEF n, pad, input
<1>6. zeros \in Seq(Byte) /\ Len(zeros) = pad
  <2>1. zeros \in [1 .. pad -> Byte]
    BY DEF Padding, Byte
  <2> HIDE DEF zeros
  <2> QED
    BY <1>5, <2>1
<1>7. bits \in Seq(Byte) /\ Len(bits) = L
  <2>1. \A i \in 1 .. L : LengthByte(BitCount(n), i) \in Byte
    BY <1>1, <1>5 DEF Byte
  <2>2. bits \in [1 .. L -> Byte]
    BY <1>4, <2>1 DEF EncodedLength
  <2> HIDE DEF bits
  <2> QED
    BY <1>5, <2>2
<1> HIDE DEF B, L, zeros, bits
<1>8. /\ long \in Seq(Byte) /\ Len(long) = n + pad
      /\ \A i \in 1 .. n + pad : long[i] = IF i <= n THEN input[i] ELSE zeros[i - n]
  <2>1. /\ long \in Seq(Byte) /\ Len(long) = Len(input) + Len(zeros)
        /\ \A i \in 1 .. Len(input) + Len(zeros) :
             long[i] = IF i <= Len(input) THEN input[i] ELSE zeros[i - Len(input)]
    BY <1>3, <1>6, ConcatProperties
  <2> HIDE DEF long
  <2> QED
    BY <1>3, <1>6, <2>1
<1>9. Absorbed(padded, long)
  BY <1>1, <1>3, <1>6, UpdatedAbsorbs
<1> HIDE DEF long, padded
<1>10. /\ t \in Seq(Byte) /\ Len(t) = n + pad + L
       /\ \A i \in 1 .. n + pad + L :
            t[i] = IF i <= n + pad THEN long[i] ELSE bits[i - (n + pad)]
  <2>1. long \in Seq(Byte) /\ bits \in Seq(Byte)
    BY <1>7, <1>8
  <2>2. /\ t \in Seq(Byte) /\ Len(t) = Len(long) + Len(bits)
        /\ \A i \in 1 .. Len(long) + Len(bits) :
             t[i] = IF i <= Len(long) THEN long[i] ELSE bits[i - Len(long)]
    BY <2>1, ConcatProperties
  <2> HIDE DEF t
  <2> QED
    BY <1>7, <1>8, <2>2
<1>11. Absorbed(done, t)
  BY <1>7, <1>8, <1>9, UpdatedAbsorbs
<1> HIDE DEF t, done
<1>12. \A i \in 1 .. n + pad + L : t[i] = PaddedByte(n, i - 1)
  <2> SUFFICES ASSUME NEW i \in 1 .. n + pad + L PROVE t[i] = PaddedByte(n, i - 1)
    OBVIOUS
  <2>1. PaddedLen(n) - LengthLen = n + pad
    BY <1>1, <1>5 DEF L
  <2>2. CASE i <= n
    <3>1. t[i] = InputByte(i - 1)
      BY <1>1, <1>5, <1>8, <1>10, <2>2 DEF input, InputOf
    <3>2. PaddedByte(n, i - 1) = InputByte(i - 1)
      BY <1>1, <1>5, <2>1, <2>2 DEF PaddedByte
    <3> QED
      BY <3>1, <3>2
  <2>3. CASE n < i /\ i <= n + pad
    <3>1. i - n \in 1 .. pad
      BY <1>1, <1>5, <2>3
    <3>2. t[i] = zeros[i - n]
      BY <1>1, <1>5, <1>8, <1>10, <2>3
    <3>3. zeros[i - n] = IF i - n = 1 THEN Mark ELSE Zero
      BY <3>1 DEF zeros, Padding
    <3>4. PaddedByte(n, i - 1) = IF i - n = 1 THEN Mark ELSE Zero
      BY <1>1, <1>5, <2>1, <2>3 DEF PaddedByte
    <3> QED
      BY <3>2, <3>3, <3>4
  <2>4. CASE n + pad < i
    <3>1. i - (n + pad) \in 1 .. L /\ (i - 1) - (n + pad) + 1 = i - (n + pad)
      BY <1>1, <1>5, <2>4
    <3>2. t[i] = bits[i - (n + pad)]
      BY <1>1, <1>5, <1>10, <2>4
    <3>3. bits[i - (n + pad)] = LengthByte(BitCount(n), i - (n + pad))
      BY <1>4, <3>1 DEF bits, EncodedLength, L
    <3>4. PaddedByte(n, i - 1) = LengthByte(BitCount(n), (i - 1) - (n + pad) + 1)
      BY <1>1, <1>5, <2>1, <2>4 DEF PaddedByte
    <3> QED
      BY <3>1, <3>2, <3>3, <3>4
  <2> QED
    BY <1>1, <1>5, <2>2, <2>3, <2>4
<1>13. WholeBlocks(t) = PaddedInput(n)
  <2> DEFINE q == PaddedLen(n) \div B
  <2>1. /\ q \in Nat /\ B * q <= n + pad + L
        /\ n + pad + L \in Nat /\ Len(t) \div BlockLen = q
    <3> DEFINE x == n + pad + L
    <3>1. x \in Nat
      BY <1>1, <1>5
    <3>2. Len(t) = x /\ PaddedLen(n) = x
      BY <1>5, <1>10
    <3> HIDE DEF x
    <3>3. x \div B \in Nat /\ x % B \in Nat /\ x = B * (x \div B) + (x % B)
      BY <1>5, <3>1, DivMod, QuotientNatural
    <3>4. B * (x \div B) <= x
      BY <1>5, <3>1, <3>3
    <3> QED
      BY <3>1, <3>2, <3>3, <3>4 DEF x, B
  <2> HIDE DEF q
  <2>2. ASSUME NEW k \in 1 .. q, NEW i \in 1 .. B
        PROVE  t[B * (k - 1) + i] = PaddedByte(n, B * (k - 1) + i - 1)
    <3> DEFINE at == B * (k - 1) + i
    <3>1. at \in 1 .. n + pad + L
      BY <1>5, <2>1, PlaceInBlock
    <3>2. at - 1 = B * (k - 1) + i - 1
      BY <1>5, <2>1
    <3> HIDE DEF at
    <3>3. t[at] = PaddedByte(n, at - 1)
      BY <1>12, <3>1
    <3> QED
      BY <3>2, <3>3 DEF at
  <2>3. \A k \in 1 .. q :
          BlockOf(t, k) = [i \in 1 .. B |-> PaddedByte(n, B * (k - 1) + i - 1)]
    BY <2>2 DEF BlockOf, B
  <2> QED
    BY <2>1, <2>3 DEF WholeBlocks, PaddedInput, q, B
<1>14. digest' = PaddedInput(length')
  BY <1>1, <1>11, <1>13 DEF Absorbed
<1>15. length' \in Nat
  BY <1>1
<1>16. finalized' \in BOOLEAN /\ finalized'
  BY <1>2, Zenon
<1> QED
  BY <1>14, <1>15, <1>16, Zenon DEF DigestSound

(* Every step preserves the invariant.                                     *)
LEMMA DigestSoundStep == DigestSound /\ [MD5Next]_md5_vars => DigestSound'
<1> SUFFICES ASSUME DigestSound, [MD5Next]_md5_vars PROVE DigestSound'
  OBVIOUS
<1>1. ASSUME NEW n \in 0 .. MaxPiece, Update(n) PROVE DigestSound'
  <2>1. n \in Nat
    BY MD5Assumption
  <2> QED
    BY <1>1, <2>1, UpdateSound
<1>2. CASE Finalize
  BY <1>2, FinalizeSound
<1>3. CASE UNCHANGED md5_vars
  BY <1>3, Zenon DEF md5_vars, DigestSound
<1> QED
  BY <1>1, <1>2, <1>3, Zenon DEF MD5Next

(* The invariant holds.                                                    *)
LEMMA DigestInvariant == MD5Spec => []DigestSound
BY DigestSoundInit, DigestSoundStep, PTL DEF MD5Spec

(* md5.cpp 86-89: the two words count the bits of the input, whatever its  *)
(* length and its pieces, although the carry is found from a wrapped sum.  *)
THEOREM MD5CountsBits == MD5Spec => []CountsBits
<1>1. DigestSound => CountsBits
  <2> SUFFICES ASSUME DigestSound, ~finalized
               PROVE  context.count.low + WordMod * context.count.high
                        = (8 * length) % (WordMod * WordMod)
    BY Zenon DEF CountsBits
  <2>1. length \in Nat /\ Absorbed(context, InputOf(length))
    BY Zenon DEF DigestSound
  <2>2. context.count = BitCount(length)
    BY <2>1, InputIsSeq DEF Absorbed
  <2> QED
    BY <2>1, <2>2, CountInWords
<1> QED
  BY <1>1, DigestInvariant, PTL

(* md5.cpp 92-112: however the input is cut, its whole blocks have been    *)
(* transformed, in order and once, and the rest waits in the buffer.       *)
THEOREM MD5KeepsTheRest == MD5Spec => []KeepsTheRest
<1>1. DigestSound => KeepsTheRest
  <2> SUFFICES ASSUME DigestSound, ~finalized
               PROVE  /\ context.state =
                           [k \in 1 .. length \div BlockLen |-> [i \in 1 .. BlockLen |->
                              InputByte(BlockLen * (k - 1) + i - 1)]]
                      /\ \A i \in 1 .. length % BlockLen :
                           context.buffer[i] = InputByte(BlockLen * (length \div BlockLen) + i - 1)
    BY Zenon DEF KeepsTheRest
  <2> DEFINE B == BlockLen
             s == InputOf(length)
             q == length \div B
             r == length % B
  <2>1. length \in Nat /\ Absorbed(context, s)
    BY Zenon DEF DigestSound
  <2>2. B \in Nat \ {0} /\ Len(s) = length
    BY <2>1, InputIsSeq, MD5Assumption
  <2>3. context.state = WholeBlocks(s) /\ \A i \in 1 .. r : context.buffer[i] = s[B * q + i]
    BY <2>1, <2>2 DEF Absorbed
  <2> HIDE DEF B
  <2>4. q \in Nat /\ r \in Nat /\ r < B /\ length = B * q + r
    BY <2>1, <2>2, DivMod, QuotientNatural
  <2> HIDE DEF q, r
  <2>5. B * q \in Nat /\ B * q <= length
    BY <2>2, <2>4
  <2>6. ASSUME NEW k \in 1 .. q, NEW i \in 1 .. B
        PROVE  s[B * (k - 1) + i] = InputByte(B * (k - 1) + i - 1)
    <3> DEFINE at == B * (k - 1) + i
    <3>1. at \in 1 .. length
      BY <2>1, <2>2, <2>4, <2>5, PlaceInBlock
    <3>2. at - 1 = B * (k - 1) + i - 1
      BY <2>2, <2>4
    <3> HIDE DEF at
    <3>3. s[at] = InputByte(at - 1)
      BY <3>1 DEF InputOf
    <3> QED
      BY <3>2, <3>3 DEF at
  <2>7. \A k \in 1 .. q : BlockOf(s, k) = [i \in 1 .. B |-> InputByte(B * (k - 1) + i - 1)]
    BY <2>6 DEF BlockOf, B
  <2>8. \A i \in 1 .. r : s[B * q + i] = InputByte(B * q + i - 1)
    <3> SUFFICES ASSUME NEW i \in 1 .. r PROVE s[B * q + i] = InputByte(B * q + i - 1)
      OBVIOUS
    <3> DEFINE at == B * q + i
    <3>1. at \in 1 .. length
      BY <2>1, <2>4, <2>5
    <3>2. at - 1 = B * q + i - 1
      BY <2>4, <2>5
    <3> HIDE DEF at
    <3>3. s[at] = InputByte(at - 1)
      BY <3>1 DEF InputOf
    <3> QED
      BY <3>2, <3>3 DEF at
  <2>9. WholeBlocks(s) = [k \in 1 .. q |-> [i \in 1 .. B |-> InputByte(B * (k - 1) + i - 1)]]
    BY <2>2, <2>7 DEF WholeBlocks, q, B
  <2> QED
    BY <2>3, <2>8, <2>9 DEF q, r, B
<1> QED
  BY <1>1, DigestInvariant, PTL

(* md5.cpp 199-211: the digest is that of the padded input, for every      *)
(* length and every way to cut it into pieces.                             *)
THEOREM MD5DigestsPadded == MD5Spec => []DigestOfPadded
<1>1. DigestSound => DigestOfPadded
  BY Zenon DEF DigestSound, DigestOfPadded
<1> QED
  BY <1>1, DigestInvariant, PTL
=============================================================================
