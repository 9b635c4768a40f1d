--------------------------- MODULE DivisionProofs ---------------------------
(***************************************************************************)
(* Facts about \div and % that the block counts of FileInfo and the bit    *)
(* counts of MD5 rest on.  The provers do not find them by themselves when *)
(* the divisor is a constant of the model.                                 *)
(***************************************************************************)
EXTENDS Integers, TLAPS

(* A product is not less than a factor.                                    *)
LEMMA ProductGrows ==
  ASSUME NEW d \in Nat \ {0}, NEW m \in Nat
  PROVE  m * d >= m
OBVIOUS

(* A number is its quotient times the divisor, and its remainder.          *)
LEMMA DivMod ==
  ASSUME NEW n \in Int, NEW m \in Nat \ {0}
  PROVE  /\ n \div m \in Int /\ n % m \in Nat /\ n % m < m
         /\ n = m * (n \div m) + (n % m)
OBVIOUS

(* The quotient of natural numbers is one.                                 *)
LEMMA QuotientNatural ==
  ASSUME NEW n \in Nat, NEW m \in Nat \ {0}
  PROVE  n \div m \in Nat
OBVIOUS

(* A quotient and a remainder that fit are those of the division.          *)
LEMMA DivModUnique ==
  ASSUME NEW n \in Int, NEW m \in Nat \ {0}, NEW j \in Int, NEW r \in Nat,
         r < m, n = m * j + r
  PROVE  n % m = r /\ n \div m = j
<1> DEFINE q == n \div m
           s == n % m
<1>1. q \in Int /\ s \in Nat /\ s < m /\ n = m * q + s
  BY DivMod
<1> HIDE DEF q, s
<1>2. m * (q - j) = r - s /\ m * (j - q) = s - r
  BY <1>1
<1>3. ~(q - j >= 1)
  BY <1>1, <1>2, ProductGrows
<1>4. ~(j - q >= 1)
  BY <1>1, <1>2, ProductGrows
<1>5. q = j
  BY <1>1, <1>3, <1>4
<1> QED
  BY <1>1, <1>5 DEF q, s

(* A remainder may be taken before a sum or after it.                      *)
LEMMA ModOfSum ==
  ASSUME NEW a \in Nat, NEW b \in Nat, NEW m \in Nat \ {0}
  PROVE  ((a % m) + b) % m = (a + b) % m
<1> DEFINE n == (a % m) + b
<1>1. /\ a \div m \in Int /\ a % m \in Nat /\ a = m * (a \div m) + (a % m)
      /\ n \in Nat
  BY DivMod
<1>2. n \div m \in Int /\ n % m \in Nat /\ n % m < m /\ n = m * (n \div m) + (n % m)
  BY <1>1, DivMod
<1>3. a + b = m * ((a \div m) + (n \div m)) + (n % m)
  <2> DEFINE qa == a \div m
             qn == n \div m
             ra == a % m
             rn == n % m
  <2>1. qa \in Int /\ qn \in Int /\ ra \in Nat /\ rn \in Nat
        /\ a = m * qa + ra /\ ra + b = m * qn + rn
    BY <1>1, <1>2
  <2> HIDE DEF qa, qn, ra, rn
  <2>2. a + b = m * qa + m * qn + rn
    BY <2>1
  <2>3. m * (qa + qn) = m * qa + m * qn
    BY <2>1
  <2>4. a + b = m * (qa + qn) + rn
    BY <2>1, <2>2, <2>3
  <2> QED
    BY <2>4 DEF qa, qn, rn
<1> HIDE DEF n
<1>4. (a \div m) + (n \div m) \in Int /\ a + b \in Int
  BY <1>1, <1>2
<1>5. (a + b) % m = n % m
  BY <1>2, <1>3, <1>4, DivModUnique
<1> QED
  BY <1>5 DEF n

(* A byte of one of the first q blocks of n bytes.                         *)
LEMMA PlaceInBlock ==
  ASSUME NEW B \in Nat \ {0}, NEW q \in Nat, NEW n \in Nat, B * q <= n,
         NEW k \in 1 .. q, NEW i \in 1 .. B
  PROVE  B * (k - 1) + i \in 1 .. n
<1>1. B * (k - 1) \in Nat /\ B * (q - k) \in Nat
  OBVIOUS
<1>2. B * q = B * (k - 1) + B + B * (q - k)
  OBVIOUS
<1> QED
  BY <1>1, <1>2
=============================================================================
