------------------------ MODULE FragmentFramesProofs ------------------------
(* Theorems about FragmentFrames and Crc16: whatever the messages, a frame  *)
(* that arrives as it was written is read as it was meant, the table        *)
(* computes the CRC it should, and a burst of inverted bits is noticed.     *)
EXTENDS FragmentFrames, WellFoundedInduction, SequenceTheorems, TLAPS

-----------------------------------------------------------------------------
(* Induction and recursion over sets and functions of numbers.  (The        *)
(* library's theorems are about predicates.)                                *)

LEMMA LeastElement ==
    ASSUME NEW T \in SUBSET Nat, T # {}
    PROVE  \E x \in T : \A y \in T : x <= y
<1> DEFINE R == OpToRel(<, Nat)
<1>1. IsWellFoundedOn(R, Nat)
  BY NatLessThanWellFounded
<1>2. \A x, y \in Nat : x < y => <<x, y>> \in R
  BY DEF OpToRel
<1> HIDE DEF R
<1>3. PICK x \in T : \A y \in T : ~ (<<y, x>> \in R)
  BY <1>1, WFMin
<1>4. \A y \in T : ~(y < x)
  BY <1>2, <1>3
<1>5. \A y \in T : y \in Int /\ x \in Int
  OBVIOUS
<1> QED
  BY <1>4, <1>5

LEMMA Induction ==
    ASSUME NEW S, 0 \in S, \A n \in Nat : n \in S => n + 1 \in S
    PROVE  \A n \in Nat : n \in S
<1> SUFFICES ASSUME Nat \ S # {}
             PROVE  FALSE
  OBVIOUS
<1>1. PICK n \in Nat \ S : \A m \in Nat \ S : n <= m
  BY LeastElement
<1>2. n # 0 /\ n - 1 \in Nat
  BY <1>1
<1>3. n - 1 \in S
  BY <1>1, <1>2
<1> QED
  BY <1>1, <1>2, <1>3

\* A loop: v is the value before the first round, g[i, u] the value after
\* round i if it was u before.
IsLoop(f, n, V, v, g) ==
    /\ f \in [0..n -> V]
    /\ f[0] = v
    /\ \A i \in 1..n : f[i] = g[<<i, f[i - 1]>>]

LEMMA LoopExists ==
    ASSUME NEW N \in Nat, NEW V, NEW v \in V, NEW g \in [(1..N) \X V -> V]
    PROVE  \E f : IsLoop(f, N, V, v, g)
<1> DEFINE S == {n \in Nat : n <= N => \E f : IsLoop(f, n, V, v, g)}
<1>1. 0 \in S
  <2>1. IsLoop([i \in 0..0 |-> v], 0, V, v, g)
    BY DEF IsLoop
  <2> QED
    BY <2>1
<1>2. ASSUME NEW n \in Nat, n \in S, n + 1 <= N
      PROVE  \E f : IsLoop(f, n + 1, V, v, g)
  <2>1. PICK f : IsLoop(f, n, V, v, g)
    BY <1>2
  <2> DEFINE h == [i \in 0..(n + 1) |-> IF i = n + 1 THEN g[<<n + 1, f[n]>>] ELSE f[i]]
  <2>2. f[n] \in V /\ n + 1 \in 1..N
    BY <1>2, <2>1 DEF IsLoop
  <2>3. g[<<n + 1, f[n]>>] \in V
    BY <2>2
  <2>4. h \in [0..(n + 1) -> V]
    BY <2>1, <2>3 DEF IsLoop
  <2>5. h[0] = v
    BY <2>1 DEF IsLoop
  <2>6. \A i \in 1..n : h[i] = f[i] /\ h[i - 1] = f[i - 1]
    OBVIOUS
  <2>7. h[n + 1] = g[<<n + 1, h[n]>>]
    <3>1. n # n + 1 /\ n \in 0..(n + 1) /\ n + 1 \in 0..(n + 1)
      OBVIOUS
    <3>2. h[n] = f[n]
      BY <3>1
    <3> QED
      BY <3>1, <3>2
  <2> HIDE DEF h
  <2>8. \A i \in 1..(n + 1) : h[i] = g[<<i, h[i - 1]>>]
    <3> TAKE i \in 1..(n + 1)
    <3>1. CASE i = n + 1
      BY <2>7, <3>1
    <3>2. CASE i \in 1..n
      BY <2>1, <2>6, <3>2 DEF IsLoop
    <3> QED
      BY <3>1, <3>2
  <2> QED
    BY <2>4, <2>5, <2>8 DEF IsLoop
<1>3. \A n \in Nat : n \in S => n + 1 \in S
  BY <1>2
<1> HIDE DEF S
<1>4. N \in S
  BY <1>1, <1>3, Induction
<1> QED
  BY <1>4 DEF S

-----------------------------------------------------------------------------
(* Bits. *)

IsBit(c) == c \in {0, 1}

LEMMA BitIsBit == ASSUME NEW n \in Nat, NEW e \in 0..15 PROVE IsBit(Bit(n, e))
<1>1. Power[e + 1] \in Nat \ {0}
  BY DEF Power
<1>2. ASSUME NEW m \in Nat \ {0}
      PROVE  IsBit((n \div m) % 2)
  BY DEF IsBit
<1> QED
  BY <1>1, <1>2 DEF Bit

\* The bits of a sum of powers.
LEMMA BitsOfByte ==
    ASSUME NEW c0, NEW c1, NEW c2, NEW c3, NEW c4, NEW c5, NEW c6, NEW c7,
           IsBit(c0), IsBit(c1), IsBit(c2), IsBit(c3),
           IsBit(c4), IsBit(c5), IsBit(c6), IsBit(c7),
           NEW n, n = 1 * c0 + 2 * c1 + 4 * c2 + 8 * c3 + 16 * c4 + 32 * c5
                        + 64 * c6 + 128 * c7
    PROVE  /\ n \in Byte
           /\ (n \div 1) % 2 = c0 /\ (n \div 2) % 2 = c1 /\ (n \div 4) % 2 = c2
           /\ (n \div 8) % 2 = c3 /\ (n \div 16) % 2 = c4 /\ (n \div 32) % 2 = c5
           /\ (n \div 64) % 2 = c6 /\ (n \div 128) % 2 = c7
BY DEF IsBit, Byte

LEMMA BitPower ==
    /\ Power[0 + 1] = 1 /\ Power[1 + 1] = 2 /\ Power[2 + 1] = 4 /\ Power[3 + 1] = 8
    /\ Power[4 + 1] = 16 /\ Power[5 + 1] = 32 /\ Power[6 + 1] = 64 /\ Power[7 + 1] = 128
    /\ Power[8 + 1] = 256 /\ Power[9 + 1] = 512 /\ Power[10 + 1] = 1024
    /\ Power[11 + 1] = 2048 /\ Power[12 + 1] = 4096 /\ Power[13 + 1] = 8192
    /\ Power[14 + 1] = 16384 /\ Power[15 + 1] = 32768
BY DEF Power

LEMMA XorByteBits ==
    ASSUME NEW a \in Byte, NEW b \in Byte
    PROVE  /\ XorByte[a][b] \in Byte
           /\ \A e \in 0..7 : Bit(XorByte[a][b], e) = (Bit(a, e) + Bit(b, e)) % 2
<1> DEFINE c(e) == (Bit(a, e) + Bit(b, e)) % 2
           n == XorByte[a][b]
<1>1. a \in Nat /\ b \in Nat
  BY DEF Byte
<1>2. \A e \in 0..7 : IsBit(c(e))
  <2> TAKE e \in 0..7
  <2>1. IsBit(Bit(a, e)) /\ IsBit(Bit(b, e))
    BY <1>1, BitIsBit
  <2> QED
    BY <2>1 DEF IsBit
<1>3. n = 1 * c(0) + 2 * c(1) + 4 * c(2) + 8 * c(3) + 16 * c(4) + 32 * c(5)
            + 64 * c(6) + 128 * c(7)
  <2>1. n = XorBit(a, b, 0) + XorBit(a, b, 1) + XorBit(a, b, 2) + XorBit(a, b, 3)
              + XorBit(a, b, 4) + XorBit(a, b, 5) + XorBit(a, b, 6) + XorBit(a, b, 7)
    BY DEF XorByte
  <2>2. /\ XorBit(a, b, 0) = 1 * c(0) /\ XorBit(a, b, 1) = 2 * c(1)
        /\ XorBit(a, b, 2) = 4 * c(2) /\ XorBit(a, b, 3) = 8 * c(3)
        /\ XorBit(a, b, 4) = 16 * c(4) /\ XorBit(a, b, 5) = 32 * c(5)
        /\ XorBit(a, b, 6) = 64 * c(6) /\ XorBit(a, b, 7) = 128 * c(7)
    BY BitPower DEF XorBit
  <2> QED
    BY <2>1, <2>2
<1> HIDE DEF c, n
<1>4. /\ n \in Byte
      /\ (n \div 1) % 2 = c(0) /\ (n \div 2) % 2 = c(1) /\ (n \div 4) % 2 = c(2)
      /\ (n \div 8) % 2 = c(3) /\ (n \div 16) % 2 = c(4) /\ (n \div 32) % 2 = c(5)
      /\ (n \div 64) % 2 = c(6) /\ (n \div 128) % 2 = c(7)
  BY <1>2, <1>3, BitsOfByte
<1>5. n \in Nat
  BY <1>4 DEF Byte
<1>6. \A e \in 0..7 : Bit(n, e) = c(e)
  <2>1. /\ Bit(n, 0) = c(0) /\ Bit(n, 1) = c(1) /\ Bit(n, 2) = c(2) /\ Bit(n, 3) = c(3)
        /\ Bit(n, 4) = c(4) /\ Bit(n, 5) = c(5) /\ Bit(n, 6) = c(6) /\ Bit(n, 7) = c(7)
    BY <1>4, BitPower DEF Bit
  <2> TAKE e \in 0..7
  <2>2. e \in {0, 1, 2, 3, 4, 5, 6, 7}
    OBVIOUS
  <2> QED
    BY <2>1, <2>2
<1> QED
  BY <1>4, <1>6 DEF n, c

-----------------------------------------------------------------------------
(* Words as polynomials. *)

LEMMA WordParts ==
    ASSUME NEW n \in Word
    PROVE  /\ n \in Nat /\ n \div 256 \in Byte /\ n % 256 \in Byte
           /\ n = 256 * (n \div 256) + (n % 256)
<1>1. n \in Nat /\ n <= 65535
  BY DEF Word
<1>2. n \div 256 \in Byte /\ n % 256 \in Byte
  BY <1>1 DEF Byte
<1>3. n = 256 * (n \div 256) + (n % 256)
  BY <1>1
<1> QED
  BY <1>1, <1>2, <1>3

LEMMA WordOf ==
    ASSUME NEW u \in Byte, NEW v \in Byte
    PROVE  /\ 256 * u + v \in Word
           /\ (256 * u + v) \div 256 = u /\ (256 * u + v) % 256 = v
<1>1. u \in Nat /\ u <= 255 /\ v \in Nat /\ v <= 255
  BY DEF Byte
<1>2. 256 * u + v \in Word
  <2>1. 256 * u + v \in Nat /\ 256 * u + v <= 65535
    BY <1>1
  <2> QED
    BY <2>1 DEF Word
<1>3. (256 * u + v) \div 256 = u /\ (256 * u + v) % 256 = v
  BY <1>1
<1> QED
  BY <1>2, <1>3

LEMMA HighBits ==
    ASSUME NEW u \in Byte, NEW v \in Byte, NEW n, n = 256 * u + v
    PROVE  /\ \A e \in 0..7 : Bit(n, e) = Bit(v, e)
           /\ \A e \in 0..7 : Bit(n, e + 8) = Bit(u, e)
<1>1. n \in Nat /\ u \in Nat /\ v \in Nat
  BY DEF Byte
<1>2. /\ (n \div 1) % 2 = (v \div 1) % 2 /\ (n \div 2) % 2 = (v \div 2) % 2
      /\ (n \div 4) % 2 = (v \div 4) % 2 /\ (n \div 8) % 2 = (v \div 8) % 2
      /\ (n \div 16) % 2 = (v \div 16) % 2 /\ (n \div 32) % 2 = (v \div 32) % 2
      /\ (n \div 64) % 2 = (v \div 64) % 2 /\ (n \div 128) % 2 = (v \div 128) % 2
  BY DEF Byte
<1>3. /\ n \div 256 = u \div 1 /\ n \div 512 = u \div 2
      /\ n \div 1024 = u \div 4 /\ n \div 2048 = u \div 8
      /\ n \div 4096 = u \div 16 /\ n \div 8192 = u \div 32
      /\ n \div 16384 = u \div 64 /\ n \div 32768 = u \div 128
  BY DEF Byte
<1>4. /\ Bit(n, 0) = Bit(v, 0) /\ Bit(n, 1) = Bit(v, 1) /\ Bit(n, 2) = Bit(v, 2)
      /\ Bit(n, 3) = Bit(v, 3) /\ Bit(n, 4) = Bit(v, 4) /\ Bit(n, 5) = Bit(v, 5)
      /\ Bit(n, 6) = Bit(v, 6) /\ Bit(n, 7) = Bit(v, 7)
  BY <1>2, BitPower DEF Bit
<1>5. /\ Bit(n, 8) = Bit(u, 0) /\ Bit(n, 9) = Bit(u, 1) /\ Bit(n, 10) = Bit(u, 2)
      /\ Bit(n, 11) = Bit(u, 3) /\ Bit(n, 12) = Bit(u, 4) /\ Bit(n, 13) = Bit(u, 5)
      /\ Bit(n, 14) = Bit(u, 6) /\ Bit(n, 15) = Bit(u, 7)
  BY <1>3, BitPower DEF Bit
<1>6. \A e \in 0..7 : e \in {0, 1, 2, 3, 4, 5, 6, 7}
  OBVIOUS
<1>7. \A e \in 0..7 : Bit(n, e) = Bit(v, e)
  BY <1>4, <1>6
<1>8. \A e \in 0..7 : Bit(n, e + 8) = Bit(u, e)
  BY <1>5, <1>6
<1> QED
  BY <1>7, <1>8

\* A byte times x^8.
Raised(p) == {e + 8 : e \in p}

Poly == SUBSET (0..15)
LowPoly == SUBSET (0..7)

LEMMA PolynomialOfByte ==
    ASSUME NEW n \in Byte
    PROVE  Polynomial(n) \in LowPoly
<1>1. n \in Nat /\ n < 256
  BY DEF Byte
<1>2. /\ n \div 256 = 0 /\ n \div 512 = 0 /\ n \div 1024 = 0 /\ n \div 2048 = 0
      /\ n \div 4096 = 0 /\ n \div 8192 = 0 /\ n \div 16384 = 0 /\ n \div 32768 = 0
  BY <1>1
<1>3. /\ Bit(n, 8) = 0 /\ Bit(n, 9) = 0 /\ Bit(n, 10) = 0 /\ Bit(n, 11) = 0
      /\ Bit(n, 12) = 0 /\ Bit(n, 13) = 0 /\ Bit(n, 14) = 0 /\ Bit(n, 15) = 0
  BY <1>2, BitPower DEF Bit
<1>4. \A e \in 0..15 : e \in 0..7 \/ e \in {8, 9, 10, 11, 12, 13, 14, 15}
  OBVIOUS
<1>5. \A e \in 0..15 : Bit(n, e) = 1 => e \in 0..7
  BY <1>3, <1>4
<1> QED
  BY <1>5 DEF Polynomial, LowPoly

LEMMA PolynomialOfWord ==
    ASSUME NEW u \in Byte, NEW v \in Byte
    PROVE  Polynomial(256 * u + v) = Polynomial(v) \cup Raised(Polynomial(u))
<1> DEFINE n == 256 * u + v
<1>1. /\ \A e \in 0..7 : Bit(n, e) = Bit(v, e)
      /\ \A e \in 0..7 : Bit(n, e + 8) = Bit(u, e)
  BY HighBits
<1> HIDE DEF n
<1>2. Polynomial(u) \in LowPoly /\ Polynomial(v) \in LowPoly
  BY PolynomialOfByte
<1>3. ASSUME NEW e \in 0..7
      PROVE  /\ e \in Polynomial(n) <=> e \in Polynomial(v)
             /\ e \notin Raised(Polynomial(u))
  <2>1. e \in Polynomial(n) <=> e \in Polynomial(v)
    BY <1>1 DEF Polynomial
  <2>2. \A d \in 0..7 : d + 8 # e
    OBVIOUS
  <2> QED
    BY <1>2, <2>1, <2>2 DEF Raised, LowPoly
<1>4. ASSUME NEW e \in 8..15
      PROVE  /\ e \in Polynomial(n) <=> e \in Raised(Polynomial(u))
             /\ e \notin Polynomial(v)
  <2>1. e - 8 \in 0..7 /\ (e - 8) + 8 = e /\ e \notin 0..7
    OBVIOUS
  <2>2. Bit(n, e) = Bit(u, e - 8)
    BY <1>1, <2>1
  <2>3. e \in Polynomial(n) <=> e - 8 \in Polynomial(u)
    BY <2>1, <2>2 DEF Polynomial
  <2>4. \A d \in 0..7 : d + 8 = e <=> d = e - 8
    BY <2>1
  <2>5. e \in Raised(Polynomial(u)) <=> e - 8 \in Polynomial(u)
    BY <1>2, <2>4, <2>1 DEF Raised, LowPoly
  <2> QED
    BY <1>2, <2>1, <2>3, <2>5 DEF LowPoly
<1>5. /\ Polynomial(n) \subseteq 0..15 /\ Polynomial(v) \subseteq 0..15
      /\ Raised(Polynomial(u)) \subseteq 0..15
  BY <1>2 DEF Polynomial, Raised, LowPoly
<1>6. \A e \in 0..15 : e \in 0..7 \/ e \in 8..15
  OBVIOUS
<1>7. \A e \in 0..15 : e \in Polynomial(n) <=> e \in Polynomial(v) \cup Raised(Polynomial(u))
  BY <1>3, <1>4, <1>6
<1>8. Polynomial(n) = Polynomial(v) \cup Raised(Polynomial(u))
  BY <1>5, <1>7
<1> QED
  BY <1>8 DEF n

LEMMA XorBytePolynomial ==
    ASSUME NEW a \in Byte, NEW b \in Byte
    PROVE  Polynomial(XorByte[a][b]) = Plus(Polynomial(a), Polynomial(b))
<1>1. \A e \in 0..7 : Bit(XorByte[a][b], e) = (Bit(a, e) + Bit(b, e)) % 2
  BY XorByteBits
<1>2. \A e \in 0..7 : IsBit(Bit(a, e)) /\ IsBit(Bit(b, e))
  BY BitIsBit DEF Byte
<1>3. \A e \in 0..7 : Bit(XorByte[a][b], e) = 1 <=> ~(Bit(a, e) = 1 <=> Bit(b, e) = 1)
  BY <1>1, <1>2 DEF IsBit
<1>4. \A e \in 0..7 : e \in 0..15
  OBVIOUS
<1>5. \A e \in 0..7 : e \in Polynomial(XorByte[a][b])
                         <=> e \in Plus(Polynomial(a), Polynomial(b))
  BY <1>3, <1>4 DEF Polynomial, Plus
<1>6. /\ Polynomial(XorByte[a][b]) \in LowPoly
      /\ Polynomial(a) \in LowPoly /\ Polynomial(b) \in LowPoly
  BY XorByteBits, PolynomialOfByte
<1> QED
  BY <1>5, <1>6 DEF LowPoly, Plus

LEMMA RaisedPoly == ASSUME NEW p \in LowPoly PROVE Raised(p) \in Poly
BY DEF Raised, Poly, LowPoly

LEMMA RaisedPlus ==
    ASSUME NEW p \in Poly, NEW q \in Poly
    PROVE  Raised(Plus(p, q)) = Plus(Raised(p), Raised(q))
<1>1. \A d, e \in 0..15 : d + 8 = e + 8 => d = e
  OBVIOUS
<1>2. ASSUME NEW e \in Raised(Plus(p, q))
      PROVE  e \in Plus(Raised(p), Raised(q))
  BY <1>1 DEF Raised, Plus, Poly
<1>3. ASSUME NEW e \in Plus(Raised(p), Raised(q))
      PROVE  e \in Raised(Plus(p, q))
  BY <1>1 DEF Raised, Plus, Poly
<1> QED
  BY <1>2, <1>3

LEMMA Xor16Polynomial ==
    ASSUME NEW a \in Word, NEW b \in Word
    PROVE  /\ Xor16(a, b) \in Word
           /\ Polynomial(Xor16(a, b)) = Plus(Polynomial(a), Polynomial(b))
<1> DEFINE ah == a \div 256
           al == a % 256
           bh == b \div 256
           bl == b % 256
           h  == XorByte[ah][bh]
           l  == XorByte[al][bl]
<1>1. ah \in Byte /\ al \in Byte /\ bh \in Byte /\ bl \in Byte
  BY WordParts
<1>2. a = 256 * ah + al /\ b = 256 * bh + bl
  BY WordParts
<1>3. Xor16(a, b) = 256 * h + l
  BY DEF Xor16
<1> HIDE DEF ah, al, bh, bl
<1>4. h \in Byte /\ l \in Byte
  BY <1>1, XorByteBits
<1>5. /\ Polynomial(h) = Plus(Polynomial(ah), Polynomial(bh))
      /\ Polynomial(l) = Plus(Polynomial(al), Polynomial(bl))
  BY <1>1, XorBytePolynomial
<1> HIDE DEF h, l
<1>6. /\ Polynomial(a) = Polynomial(al) \cup Raised(Polynomial(ah))
      /\ Polynomial(b) = Polynomial(bl) \cup Raised(Polynomial(bh))
      /\ Polynomial(Xor16(a, b)) = Polynomial(l) \cup Raised(Polynomial(h))
  BY <1>1, <1>2, <1>3, <1>4, PolynomialOfWord
<1>7. /\ Polynomial(ah) \in LowPoly /\ Polynomial(al) \in LowPoly
      /\ Polynomial(bh) \in LowPoly /\ Polynomial(bl) \in LowPoly
  BY <1>1, PolynomialOfByte
<1>8. Raised(Polynomial(h)) = Plus(Raised(Polynomial(ah)), Raised(Polynomial(bh)))
  <2>1. Polynomial(ah) \in Poly /\ Polynomial(bh) \in Poly
    BY DEF Polynomial, Poly
  <2> QED
    BY <1>5, <2>1, RaisedPlus
<1>9. \A p \in LowPoly : \A e \in Raised(p) : e \notin 0..7
  BY DEF Raised, LowPoly
<1>10. Polynomial(Xor16(a, b)) = Plus(Polynomial(a), Polynomial(b))
  BY <1>5, <1>6, <1>7, <1>8, <1>9 DEF Plus, LowPoly
<1>11. Xor16(a, b) \in Word
  BY <1>3, <1>4, WordOf
<1> QED
  BY <1>10, <1>11

-----------------------------------------------------------------------------
(* The table. *)

\* n * 2 without the bit that leaves the word, and n with bit e inverted.
Doubled(n) == (2 * n) % 65536

Flip(n, e) == IF Bit(n, e) = 0 THEN n + Power[e + 1] ELSE n - Power[e + 1]

LEMMA TwiceBits ==
    ASSUME NEW n \in Nat
    PROVE  /\ Bit(2 * n, 0) = 0
           /\ \A e \in 0..14 : Bit(2 * n, e + 1) = Bit(n, e)
<1> DEFINE m == 2 * n
<1>1. /\ (m \div 1) % 2 = 0
      /\ m \div 2 = n \div 1 /\ m \div 4 = n \div 2 /\ m \div 8 = n \div 4
      /\ m \div 16 = n \div 8 /\ m \div 32 = n \div 16 /\ m \div 64 = n \div 32
      /\ m \div 128 = n \div 64 /\ m \div 256 = n \div 128
  OBVIOUS
<1>2. /\ m \div 512 = n \div 256 /\ m \div 1024 = n \div 512
      /\ m \div 2048 = n \div 1024 /\ m \div 4096 = n \div 2048
      /\ m \div 8192 = n \div 4096 /\ m \div 16384 = n \div 8192
      /\ m \div 32768 = n \div 16384
  OBVIOUS
<1> HIDE DEF m
<1>3. Bit(m, 0) = 0
  BY <1>1, BitPower DEF Bit
<1>4. /\ Bit(m, 1) = Bit(n, 0) /\ Bit(m, 2) = Bit(n, 1) /\ Bit(m, 3) = Bit(n, 2)
      /\ Bit(m, 4) = Bit(n, 3) /\ Bit(m, 5) = Bit(n, 4) /\ Bit(m, 6) = Bit(n, 5)
      /\ Bit(m, 7) = Bit(n, 6) /\ Bit(m, 8) = Bit(n, 7)
  BY <1>1, BitPower DEF Bit
<1>5. /\ Bit(m, 9) = Bit(n, 8) /\ Bit(m, 10) = Bit(n, 9) /\ Bit(m, 11) = Bit(n, 10)
      /\ Bit(m, 12) = Bit(n, 11) /\ Bit(m, 13) = Bit(n, 12) /\ Bit(m, 14) = Bit(n, 13)
      /\ Bit(m, 15) = Bit(n, 14)
  BY <1>2, BitPower DEF Bit
<1>6. \A e \in 0..14 : e \in {0, 1, 2, 3, 4, 5, 6, 7, 8, 9, 10, 11, 12, 13, 14}
  OBVIOUS
<1>7. \A e \in 0..14 : Bit(m, e + 1) = Bit(n, e)
  BY <1>4, <1>5, <1>6
<1> QED
  BY <1>3, <1>7 DEF m

\* The sixteen lowest bits.
LEMMA LowWordBits ==
    ASSUME NEW n \in Nat
    PROVE  \A e \in 0..15 : Bit(n % 65536, e) = Bit(n, e)
<1> DEFINE m == n % 65536
           q == n \div 65536
<1>1. m \in Nat /\ q \in Nat /\ n = 65536 * q + m
  OBVIOUS
<1> HIDE DEF m, q
<1>2. /\ n \div 1 = (m \div 1) + 2 * (32768 * q)
      /\ n \div 2 = (m \div 2) + 2 * (16384 * q)
      /\ n \div 4 = (m \div 4) + 2 * (8192 * q)
      /\ n \div 8 = (m \div 8) + 2 * (4096 * q)
      /\ n \div 16 = (m \div 16) + 2 * (2048 * q)
      /\ n \div 32 = (m \div 32) + 2 * (1024 * q)
      /\ n \div 64 = (m \div 64) + 2 * (512 * q)
      /\ n \div 128 = (m \div 128) + 2 * (256 * q)
  BY <1>1
<1>3. /\ n \div 256 = (m \div 256) + 2 * (128 * q)
      /\ n \div 512 = (m \div 512) + 2 * (64 * q)
      /\ n \div 1024 = (m \div 1024) + 2 * (32 * q)
      /\ n \div 2048 = (m \div 2048) + 2 * (16 * q)
      /\ n \div 4096 = (m \div 4096) + 2 * (8 * q)
      /\ n \div 8192 = (m \div 8192) + 2 * (4 * q)
      /\ n \div 16384 = (m \div 16384) + 2 * (2 * q)
      /\ n \div 32768 = (m \div 32768) + 2 * (1 * q)
  BY <1>1
<1>4. /\ (n \div 1) % 2 = (m \div 1) % 2 /\ (n \div 2) % 2 = (m \div 2) % 2
      /\ (n \div 4) % 2 = (m \div 4) % 2 /\ (n \div 8) % 2 = (m \div 8) % 2
      /\ (n \div 16) % 2 = (m \div 16) % 2 /\ (n \div 32) % 2 = (m \div 32) % 2
      /\ (n \div 64) % 2 = (m \div 64) % 2 /\ (n \div 128) % 2 = (m \div 128) % 2
      /\ (n \div 256) % 2 = (m \div 256) % 2 /\ (n \div 512) % 2 = (m \div 512) % 2
      /\ (n \div 1024) % 2 = (m \div 1024) % 2 /\ (n \div 2048) % 2 = (m \div 2048) % 2
      /\ (n \div 4096) % 2 = (m \div 4096) % 2 /\ (n \div 8192) % 2 = (m \div 8192) % 2
      /\ (n \div 16384) % 2 = (m \div 16384) % 2 /\ (n \div 32768) % 2 = (m \div 32768) % 2
  BY <1>1, <1>2, <1>3
<1>5. /\ Bit(n, 0) = Bit(m, 0) /\ Bit(n, 1) = Bit(m, 1) /\ Bit(n, 2) = Bit(m, 2)
      /\ Bit(n, 3) = Bit(m, 3) /\ Bit(n, 4) = Bit(m, 4) /\ Bit(n, 5) = Bit(m, 5)
      /\ Bit(n, 6) = Bit(m, 6) /\ Bit(n, 7) = Bit(m, 7) /\ Bit(n, 8) = Bit(m, 8)
      /\ Bit(n, 9) = Bit(m, 9) /\ Bit(n, 10) = Bit(m, 10) /\ Bit(n, 11) = Bit(m, 11)
      /\ Bit(n, 12) = Bit(m, 12) /\ Bit(n, 13) = Bit(m, 13) /\ Bit(n, 14) = Bit(m, 14)
      /\ Bit(n, 15) = Bit(m, 15)
  BY <1>4, BitPower DEF Bit
<1>6. \A e \in 0..15 : e \in {0, 1, 2, 3, 4, 5, 6, 7, 8, 9, 10, 11, 12, 13, 14, 15}
  OBVIOUS
<1>7. \A e \in 0..15 : Bit(m, e) = Bit(n, e)
  BY <1>5, <1>6
<1> QED
  BY <1>7 DEF m

SetsBit(n, m, k) ==
    /\ Bit(m, k) = 1
    /\ \A e \in 0..15 : e # k => Bit(m, e) = Bit(n, e)

LEMMA SetBit0 ==
    ASSUME NEW n \in Nat, Bit(n, 0) = 0
    PROVE  SetsBit(n, n + 1, 0)
<1> DEFINE m == n + 1
<1>1. (n \div 1) % 2 = 0
  BY BitPower DEF Bit
<1>2. (m \div 1) % 2 = 1 /\ m \in Nat
  BY <1>1
<1>3. /\ m \div 2 = n \div 2 /\ m \div 4 = n \div 4
      /\ m \div 8 = n \div 8 /\ m \div 16 = n \div 16
      /\ m \div 32 = n \div 32 /\ m \div 64 = n \div 64
      /\ m \div 128 = n \div 128 /\ m \div 256 = n \div 256
      /\ m \div 512 = n \div 512 /\ m \div 1024 = n \div 1024
      /\ m \div 2048 = n \div 2048 /\ m \div 4096 = n \div 4096
      /\ m \div 8192 = n \div 8192 /\ m \div 16384 = n \div 16384
      /\ m \div 32768 = n \div 32768
  BY <1>1
<1> HIDE DEF m
<1>4. /\ (m \div 2) % 2 = (n \div 2) % 2 /\ (m \div 4) % 2 = (n \div 4) % 2
      /\ (m \div 8) % 2 = (n \div 8) % 2 /\ (m \div 16) % 2 = (n \div 16) % 2
      /\ (m \div 32) % 2 = (n \div 32) % 2 /\ (m \div 64) % 2 = (n \div 64) % 2
      /\ (m \div 128) % 2 = (n \div 128) % 2 /\ (m \div 256) % 2 = (n \div 256) % 2
      /\ (m \div 512) % 2 = (n \div 512) % 2 /\ (m \div 1024) % 2 = (n \div 1024) % 2
      /\ (m \div 2048) % 2 = (n \div 2048) % 2 /\ (m \div 4096) % 2 = (n \div 4096) % 2
      /\ (m \div 8192) % 2 = (n \div 8192) % 2 /\ (m \div 16384) % 2 = (n \div 16384) % 2
      /\ (m \div 32768) % 2 = (n \div 32768) % 2
  BY <1>2, <1>3
<1>5. /\ Bit(m, 1) = Bit(n, 1) /\ Bit(m, 2) = Bit(n, 2) /\ Bit(m, 3) = Bit(n, 3)
      /\ Bit(m, 4) = Bit(n, 4) /\ Bit(m, 5) = Bit(n, 5) /\ Bit(m, 6) = Bit(n, 6)
      /\ Bit(m, 7) = Bit(n, 7) /\ Bit(m, 8) = Bit(n, 8) /\ Bit(m, 9) = Bit(n, 9)
      /\ Bit(m, 10) = Bit(n, 10) /\ Bit(m, 11) = Bit(n, 11) /\ Bit(m, 12) = Bit(n, 12)
      /\ Bit(m, 13) = Bit(n, 13) /\ Bit(m, 14) = Bit(n, 14) /\ Bit(m, 15) = Bit(n, 15)
  BY <1>4, BitPower DEF Bit
<1>6. Bit(m, 0) = 1
  BY <1>2, BitPower DEF Bit
<1>7. \A e \in 0..15 : e \in {0, 1, 2, 3, 4, 5, 6, 7, 8, 9, 10, 11, 12, 13, 14, 15}
  OBVIOUS
<1>8. SetsBit(n, m, 0)
  BY <1>5, <1>6, <1>7 DEF SetsBit
<1> QED
  BY <1>8 DEF m

LEMMA SetBit5 ==
    ASSUME NEW n \in Nat, Bit(n, 5) = 0
    PROVE  SetsBit(n, n + 32, 5)
<1> DEFINE m == n + 32
<1>1. (n \div 32) % 2 = 0
  BY BitPower DEF Bit
<1>2. (m \div 32) % 2 = 1 /\ m \in Nat
  BY <1>1
<1>3. /\ m \div 1 = (n \div 1) + 2 * 16 /\ m \div 2 = (n \div 2) + 2 * 8
      /\ m \div 4 = (n \div 4) + 2 * 4 /\ m \div 8 = (n \div 8) + 2 * 2
      /\ m \div 16 = (n \div 16) + 2 * 1 /\ m \div 64 = n \div 64
      /\ m \div 128 = n \div 128 /\ m \div 256 = n \div 256
      /\ m \div 512 = n \div 512 /\ m \div 1024 = n \div 1024
      /\ m \div 2048 = n \div 2048 /\ m \div 4096 = n \div 4096
      /\ m \div 8192 = n \div 8192 /\ m \div 16384 = n \div 16384
      /\ m \div 32768 = n \div 32768
  BY <1>1
<1> HIDE DEF m
<1>4. /\ (m \div 1) % 2 = (n \div 1) % 2 /\ (m \div 2) % 2 = (n \div 2) % 2
      /\ (m \div 4) % 2 = (n \div 4) % 2 /\ (m \div 8) % 2 = (n \div 8) % 2
      /\ (m \div 16) % 2 = (n \div 16) % 2 /\ (m \div 64) % 2 = (n \div 64) % 2
      /\ (m \div 128) % 2 = (n \div 128) % 2 /\ (m \div 256) % 2 = (n \div 256) % 2
      /\ (m \div 512) % 2 = (n \div 512) % 2 /\ (m \div 1024) % 2 = (n \div 1024) % 2
      /\ (m \div 2048) % 2 = (n \div 2048) % 2 /\ (m \div 4096) % 2 = (n \div 4096) % 2
      /\ (m \div 8192) % 2 = (n \div 8192) % 2 /\ (m \div 16384) % 2 = (n \div 16384) % 2
      /\ (m \div 32768) % 2 = (n \div 32768) % 2
  BY <1>2, <1>3
<1>5. /\ Bit(m, 0) = Bit(n, 0) /\ Bit(m, 1) = Bit(n, 1) /\ Bit(m, 2) = Bit(n, 2)
      /\ Bit(m, 3) = Bit(n, 3) /\ Bit(m, 4) = Bit(n, 4) /\ Bit(m, 6) = Bit(n, 6)
      /\ Bit(m, 7) = Bit(n, 7) /\ Bit(m, 8) = Bit(n, 8) /\ Bit(m, 9) = Bit(n, 9)
      /\ Bit(m, 10) = Bit(n, 10) /\ Bit(m, 11) = Bit(n, 11) /\ Bit(m, 12) = Bit(n, 12)
      /\ Bit(m, 13) = Bit(n, 13) /\ Bit(m, 14) = Bit(n, 14) /\ Bit(m, 15) = Bit(n, 15)
  BY <1>4, BitPower DEF Bit
<1>6. Bit(m, 5) = 1
  BY <1>2, BitPower DEF Bit
<1>7. \A e \in 0..15 : e \in {0, 1, 2, 3, 4, 5, 6, 7, 8, 9, 10, 11, 12, 13, 14, 15}
  OBVIOUS
<1>8. SetsBit(n, m, 5)
  BY <1>5, <1>6, <1>7 DEF SetsBit
<1> QED
  BY <1>8 DEF m

LEMMA SetBit12 ==
    ASSUME NEW n \in Nat, Bit(n, 12) = 0
    PROVE  SetsBit(n, n + 4096, 12)
<1> DEFINE m == n + 4096
<1>1. (n \div 4096) % 2 = 0
  BY BitPower DEF Bit
<1>2. (m \div 4096) % 2 = 1 /\ m \in Nat
  BY <1>1
<1>3. /\ m \div 1 = (n \div 1) + 2 * 2048 /\ m \div 2 = (n \div 2) + 2 * 1024
      /\ m \div 4 = (n \div 4) + 2 * 512 /\ m \div 8 = (n \div 8) + 2 * 256
      /\ m \div 16 = (n \div 16) + 2 * 128 /\ m \div 32 = (n \div 32) + 2 * 64
      /\ m \div 64 = (n \div 64) + 2 * 32 /\ m \div 128 = (n \div 128) + 2 * 16
      /\ m \div 256 = (n \div 256) + 2 * 8 /\ m \div 512 = (n \div 512) + 2 * 4
      /\ m \div 1024 = (n \div 1024) + 2 * 2 /\ m \div 2048 = (n \div 2048) + 2 * 1
      /\ m \div 8192 = n \div 8192 /\ m \div 16384 = n \div 16384
      /\ m \div 32768 = n \div 32768
  BY <1>1
<1> HIDE DEF m
<1>4. /\ (m \div 1) % 2 = (n \div 1) % 2 /\ (m \div 2) % 2 = (n \div 2) % 2
      /\ (m \div 4) % 2 = (n \div 4) % 2 /\ (m \div 8) % 2 = (n \div 8) % 2
      /\ (m \div 16) % 2 = (n \div 16) % 2 /\ (m \div 32) % 2 = (n \div 32) % 2
      /\ (m \div 64) % 2 = (n \div 64) % 2 /\ (m \div 128) % 2 = (n \div 128) % 2
      /\ (m \div 256) % 2 = (n \div 256) % 2 /\ (m \div 512) % 2 = (n \div 512) % 2
      /\ (m \div 1024) % 2 = (n \div 1024) % 2 /\ (m \div 2048) % 2 = (n \div 2048) % 2
      /\ (m \div 8192) % 2 = (n \div 8192) % 2 /\ (m \div 16384) % 2 = (n \div 16384) % 2
      /\ (m \div 32768) % 2 = (n \div 32768) % 2
  BY <1>2, <1>3
<1>5. /\ Bit(m, 0) = Bit(n, 0) /\ Bit(m, 1) = Bit(n, 1) /\ Bit(m, 2) = Bit(n, 2)
      /\ Bit(m, 3) = Bit(n, 3) /\ Bit(m, 4) = Bit(n, 4) /\ Bit(m, 5) = Bit(n, 5)
      /\ Bit(m, 6) = Bit(n, 6) /\ Bit(m, 7) = Bit(n, 7) /\ Bit(m, 8) = Bit(n, 8)
      /\ Bit(m, 9) = Bit(n, 9) /\ Bit(m, 10) = Bit(n, 10) /\ Bit(m, 11) = Bit(n, 11)
      /\ Bit(m, 13) = Bit(n, 13) /\ Bit(m, 14) = Bit(n, 14) /\ Bit(m, 15) = Bit(n, 15)
  BY <1>4, BitPower DEF Bit
<1>6. Bit(m, 12) = 1
  BY <1>2, BitPower DEF Bit
<1>7. \A e \in 0..15 : e \in {0, 1, 2, 3, 4, 5, 6, 7, 8, 9, 10, 11, 12, 13, 14, 15}
  OBVIOUS
<1>8. SetsBit(n, m, 12)
  BY <1>5, <1>6, <1>7 DEF SetsBit
<1> QED
  BY <1>8 DEF m

LEMMA FlipBits ==
    ASSUME NEW n \in Word, NEW k \in {0, 5, 12}
    PROVE  /\ Flip(n, k) \in Word
           /\ \A e \in 0..15 : Bit(Flip(n, k), e) = 1 <=> ~(Bit(n, e) = 1 <=> e = k)
<1> DEFINE w == Power[k + 1]
           m == Flip(n, k)
<1>1. w \in {1, 32, 4096} /\ n \in Nat /\ n < 65536
  BY BitPower DEF Word
<1>2. \A e \in 0..15 : IsBit(Bit(n, e))
  BY <1>1, BitIsBit
<1>3. CASE Bit(n, k) = 0
  <2>1. m = n + w
    BY <1>3 DEF Flip
  <2>2. SetsBit(n, m, k)
    BY <1>1, <1>3, <2>1, BitPower, SetBit0, SetBit5, SetBit12
  <2>3. m \in Nat /\ m < 65536
    BY <1>1, <1>3, <2>1, BitPower DEF Bit
  <2> QED
    BY <1>2, <1>3, <2>2, <2>3 DEF SetsBit, Word, IsBit
<1>4. CASE Bit(n, k) = 1
  <2>1. m = n - w
    BY <1>4 DEF Flip
  <2>2. m \in Nat /\ m < 65536
    BY <1>1, <1>4, <2>1, BitPower DEF Bit
  <2>3. Bit(m, k) = 0
    BY <1>1, <1>4, <2>1, <2>2, BitPower DEF Bit
  <2>4. n = m + w
    BY <1>1, <2>1, <2>2
  <2>5. SetsBit(m, n, k)
    BY <1>1, <2>2, <2>3, <2>4, BitPower, SetBit0, SetBit5, SetBit12
  <2>6. \A e \in 0..15 : IsBit(Bit(m, e))
    BY <2>2, BitIsBit
  <2> QED
    BY <1>4, <2>2, <2>3, <2>5, <2>6 DEF SetsBit, Word, IsBit
<1>5. k \in 0..15
  OBVIOUS
<1> QED
  BY <1>2, <1>3, <1>4, <1>5 DEF IsBit

-----------------------------------------------------------------------------
(* The remainder of polynomials. *)

LEMMA TimesXMember ==
    ASSUME NEW p \in Poly
    PROVE  /\ TimesX(p) \in Poly
           /\ \A e \in 0..15 : e \in TimesX(p)
                 <=> ~(e - 1 \in p <=> (15 \in p /\ e \in {0, 5, 12}))
<1> DEFINE shifted == {e + 1 : e \in p}
<1>1. /\ shifted \subseteq 1..16
      /\ \A e \in 0..16 : e \in shifted <=> e - 1 \in p
  <2>1. \A e \in p : e \in 0..15 /\ e + 1 \in 1..16 /\ (e + 1) - 1 = e
    BY DEF Poly
  <2>2. \A e \in 0..16 : (e - 1) + 1 = e
    OBVIOUS
  <2> QED
    BY <2>1, <2>2
<1>2. TimesX(p) = IF 16 \in shifted THEN Plus(shifted, Generator) ELSE shifted
  BY DEF TimesX
<1>3. 16 \in shifted <=> 15 \in p
  BY <1>1
<1> HIDE DEF shifted
<1>4. CASE 15 \in p
  <2>1. TimesX(p) = (shifted \ Generator) \cup (Generator \ shifted)
    BY <1>2, <1>3, <1>4 DEF Plus
  <2>2. Generator = {16, 12, 5, 0}
    BY DEF Generator
  <2>3. \A e \in 0..15 : e \in Generator <=> e \in {0, 5, 12}
    BY <2>2
  <2>4. \A e \in TimesX(p) : e \in 0..15
    <3> TAKE e \in TimesX(p)
    <3>1. e # 16
      BY <1>3, <1>4, <2>1, <2>2
    <3>2. e \in 1..16 \/ e \in {16, 12, 5, 0}
      BY <1>1, <2>1, <2>2
    <3> QED
      BY <3>1, <3>2
  <2>5. \A e \in 0..15 : e \in TimesX(p) <=> ~(e \in shifted <=> e \in {0, 5, 12})
    BY <2>1, <2>3
  <2>6. \A e \in 0..15 : e \in shifted <=> e - 1 \in p
    BY <1>1
  <2> QED
    BY <1>4, <2>4, <2>5, <2>6 DEF Poly
<1>5. CASE 15 \notin p
  <2>1. TimesX(p) = shifted
    BY <1>2, <1>3, <1>5
  <2>2. \A e \in shifted : e \in 0..15
    BY <1>1, <1>3, <1>5
  <2>3. \A e \in 0..15 : e \in shifted <=> e - 1 \in p
    BY <1>1
  <2> QED
    BY <1>5, <2>1, <2>2, <2>3 DEF Poly
<1> QED
  BY <1>4, <1>5

LEMMA PlusPoly ==
    ASSUME NEW p \in Poly, NEW q \in Poly
    PROVE  Plus(p, q) \in Poly
BY DEF Plus, Poly

LEMMA TimesXPlus ==
    ASSUME NEW p \in Poly, NEW q \in Poly
    PROVE  TimesX(Plus(p, q)) = Plus(TimesX(p), TimesX(q))
<1> DEFINE r == Plus(p, q)
<1>1. r \in Poly
  BY PlusPoly
<1>2. \A e : e \in r <=> ~(e \in p <=> e \in q)
  BY DEF Plus
<1> HIDE DEF r
<1>3. \A e \in 0..15 : e \in TimesX(r) <=> ~(e \in TimesX(p) <=> e \in TimesX(q))
  <2> TAKE e \in 0..15
  <2>1. e \in TimesX(r) <=> ~(e - 1 \in r <=> (15 \in r /\ e \in {0, 5, 12}))
    BY <1>1, TimesXMember
  <2>2. e \in TimesX(p) <=> ~(e - 1 \in p <=> (15 \in p /\ e \in {0, 5, 12}))
    BY TimesXMember
  <2>3. e \in TimesX(q) <=> ~(e - 1 \in q <=> (15 \in q /\ e \in {0, 5, 12}))
    BY TimesXMember
  <2>4. /\ e - 1 \in r <=> ~(e - 1 \in p <=> e - 1 \in q)
        /\ 15 \in r <=> ~(15 \in p <=> 15 \in q)
    BY <1>2
  <2> QED
    BY <2>1, <2>2, <2>3, <2>4
<1>4. TimesX(r) \in Poly /\ TimesX(p) \in Poly /\ TimesX(q) \in Poly
  BY <1>1, TimesXMember
<1>5. TimesX(r) = Plus(TimesX(p), TimesX(q))
  BY <1>3, <1>4 DEF Plus, Poly
<1> QED
  BY <1>5 DEF r

LEMMA TimesX8Poly == ASSUME NEW p \in Poly PROVE TimesX8(p) \in Poly
BY TimesXMember DEF TimesX8

LEMMA TimesX8Plus ==
    ASSUME NEW p \in Poly, NEW q \in Poly
    PROVE  TimesX8(Plus(p, q)) = Plus(TimesX8(p), TimesX8(q))
<1> DEFINE p1 == TimesX(p)
           p2 == TimesX(p1)
           p3 == TimesX(p2)
           p4 == TimesX(p3)
           p5 == TimesX(p4)
           p6 == TimesX(p5)
           p7 == TimesX(p6)
           q1 == TimesX(q)
           q2 == TimesX(q1)
           q3 == TimesX(q2)
           q4 == TimesX(q3)
           q5 == TimesX(q4)
           q6 == TimesX(q5)
           q7 == TimesX(q6)
<1>1. p1 \in Poly /\ q1 \in Poly /\ TimesX(Plus(p, q)) = Plus(p1, q1)
  BY TimesXMember, TimesXPlus
<1>2. p2 \in Poly /\ q2 \in Poly /\ TimesX(Plus(p1, q1)) = Plus(p2, q2)
  BY <1>1, TimesXMember, TimesXPlus
<1>3. p3 \in Poly /\ q3 \in Poly /\ TimesX(Plus(p2, q2)) = Plus(p3, q3)
  BY <1>2, TimesXMember, TimesXPlus
<1>4. p4 \in Poly /\ q4 \in Poly /\ TimesX(Plus(p3, q3)) = Plus(p4, q4)
  BY <1>3, TimesXMember, TimesXPlus
<1>5. p5 \in Poly /\ q5 \in Poly /\ TimesX(Plus(p4, q4)) = Plus(p5, q5)
  BY <1>4, TimesXMember, TimesXPlus
<1>6. p6 \in Poly /\ q6 \in Poly /\ TimesX(Plus(p5, q5)) = Plus(p6, q6)
  BY <1>5, TimesXMember, TimesXPlus
<1>7. p7 \in Poly /\ q7 \in Poly /\ TimesX(Plus(p6, q6)) = Plus(p7, q7)
  BY <1>6, TimesXMember, TimesXPlus
<1>8. TimesX(Plus(p7, q7)) = Plus(TimesX(p7), TimesX(q7))
  BY <1>7, TimesXPlus
<1>9. TimesX8(p) = TimesX(p7) /\ TimesX8(q) = TimesX(q7)
  BY DEF TimesX8
<1> HIDE DEF p1, p2, p3, p4, p5, p6, p7, q1, q2, q3, q4, q5, q6, q7
<1>10. TimesX8(Plus(p, q)) = TimesX(Plus(p7, q7))
  BY <1>1, <1>2, <1>3, <1>4, <1>5, <1>6, <1>7 DEF TimesX8
<1> QED
  BY <1>8, <1>9, <1>10

\* A low byte leaves no remainder.
LEMMA TimesX8Low ==
    ASSUME NEW p \in LowPoly
    PROVE  TimesX8(p) = Raised(p)
<1>1. ASSUME NEW k \in 0..7, NEW q, q = {e + k : e \in p}
      PROVE  TimesX(q) = {e + (k + 1) : e \in p}
  <2>1. \A e \in p : e \in 0..7
    BY DEF LowPoly
  <2>2. 16 \notin {e + 1 : e \in q}
    BY <1>1, <2>1
  <2>3. TimesX(q) = {e + 1 : e \in q}
    BY <2>2 DEF TimesX
  <2>4. \A e \in p : (e + k) + 1 = e + (k + 1)
    BY <2>1
  <2> QED
    BY <1>1, <2>3, <2>4
<1> DEFINE q1 == TimesX(p)
           q2 == TimesX(q1)
           q3 == TimesX(q2)
           q4 == TimesX(q3)
           q5 == TimesX(q4)
           q6 == TimesX(q5)
           q7 == TimesX(q6)
<1>2. p = {e + 0 : e \in p}
  <2>1. \A e \in p : e + 0 = e
    BY DEF LowPoly
  <2> QED
    BY <2>1
<1>3. q1 = {e + (0 + 1) : e \in p}
  BY <1>1, <1>2
<1>4. q2 = {e + (1 + 1) : e \in p}
  BY <1>1, <1>3
<1>5. q3 = {e + (2 + 1) : e \in p}
  BY <1>1, <1>4
<1>6. q4 = {e + (3 + 1) : e \in p}
  BY <1>1, <1>5
<1>7. q5 = {e + (4 + 1) : e \in p}
  BY <1>1, <1>6
<1>8. q6 = {e + (5 + 1) : e \in p}
  BY <1>1, <1>7
<1>9. q7 = {e + (6 + 1) : e \in p}
  BY <1>1, <1>8
<1>10. TimesX(q7) = {e + (7 + 1) : e \in p}
  BY <1>1, <1>9
<1>11. TimesX8(p) = TimesX(q7)
  BY DEF TimesX8
<1> QED
  BY <1>10, <1>11 DEF Raised

\* The three low bits of the generator, inverted, and what n * x is as a word.
Inverted(n) == Flip(Flip(Flip(n, 12), 5), 0)

Shifted(n) == IF n < 32768 THEN 2 * n ELSE Inverted(2 * (n - 32768))

LEMMA FlipLiterally ==
    ASSUME NEW n
    PROVE  /\ Flip(n, 0) = IF (n \div 1) % 2 = 0 THEN n + 1 ELSE n - 1
           /\ Flip(n, 5) = IF (n \div 32) % 2 = 0 THEN n + 32 ELSE n - 32
           /\ Flip(n, 12) = IF (n \div 4096) % 2 = 0 THEN n + 4096 ELSE n - 4096
BY BitPower DEF Flip, Bit

\* Every second entry is its index's half's, shifted, and the next one has the
\* generator added.
LEMMA TableRows ==
    ASSUME NEW T, T = crc16_table
    PROVE  /\ T[1] = 0
           /\ \A i \in 1..128, j \in 1..256, k \in 1..256 :
                 j = 2 * i - 1 /\ k = 2 * i =>
                    T[j] = Shifted(T[i]) /\ T[k] = Inverted(T[j])
<1> DEFINE F1(n) == IF (n \div 4096) % 2 = 0 THEN n + 4096 ELSE n - 4096
           F2(n) == IF (n \div 32) % 2 = 0 THEN n + 32 ELSE n - 32
           F3(n) == IF (n \div 1) % 2 = 0 THEN n + 1 ELSE n - 1
           I(n)  == F3(F2(F1(n)))
           X(n)  == IF n < 32768 THEN 2 * n ELSE I(2 * (n - 32768))
<1>1. \A i \in 1..128, j \in 1..256, k \in 1..256 :
         j = 2 * i - 1 /\ k = 2 * i => T[j] = X(T[i]) /\ T[k] = I(T[j])
  BY SMTT(120) DEF crc16_table
<1>2. ASSUME NEW n PROVE I(n) = Inverted(n) /\ X(n) = Shifted(n)
  <2>1. ASSUME NEW m PROVE F1(m) = Flip(m, 12) /\ F2(m) = Flip(m, 5) /\ F3(m) = Flip(m, 0)
    BY FlipLiterally
  <2> HIDE DEF F1, F2, F3
  <2> QED
    BY <2>1 DEF Inverted, Shifted
<1>3. T[1] = 0
  BY DEF crc16_table
<1> HIDE DEF X, I
<1> QED
  BY <1>1, <1>2, <1>3

LEMMA FlipPolynomial ==
    ASSUME NEW n \in Word, NEW k \in {0, 5, 12}
    PROVE  Flip(n, k) \in Word /\ Polynomial(Flip(n, k)) = Plus(Polynomial(n), {k})
<1>1. k \in 0..15
  OBVIOUS
<1>2. \A e \in 0..15 : Bit(Flip(n, k), e) = 1 <=> ~(Bit(n, e) = 1 <=> e = k)
  BY FlipBits
<1>3. Polynomial(Flip(n, k)) = Plus(Polynomial(n), {k})
  BY <1>1, <1>2 DEF Polynomial, Plus
<1> QED
  BY <1>3, FlipBits

LEMMA InvertedPolynomial ==
    ASSUME NEW n \in Word
    PROVE  Inverted(n) \in Word /\ Polynomial(Inverted(n)) = Plus(Polynomial(n), {0, 5, 12})
<1> DEFINE f == Flip(n, 12)
           g == Flip(f, 5)
           h == Flip(g, 0)
<1>1. f \in Word /\ Polynomial(f) = Plus(Polynomial(n), {12})
  BY FlipPolynomial
<1>2. g \in Word /\ Polynomial(g) = Plus(Polynomial(f), {5})
  BY <1>1, FlipPolynomial
<1>3. h \in Word /\ Polynomial(h) = Plus(Polynomial(g), {0})
  BY <1>2, FlipPolynomial
<1>4. Inverted(n) = h
  BY DEF Inverted
<1> HIDE DEF f, g, h
<1> QED
  BY <1>1, <1>2, <1>3, <1>4 DEF Plus

LEMMA DoubledBits ==
    ASSUME NEW n \in Word
    PROVE  /\ Doubled(n) \in Word
           /\ Bit(Doubled(n), 0) = 0
           /\ \A e \in 0..14 : Bit(Doubled(n), e + 1) = Bit(n, e)
<1> DEFINE m == 2 * n
<1>1. n \in Nat /\ m \in Nat
  BY DEF Word
<1>2. Bit(m, 0) = 0 /\ \A e \in 0..14 : Bit(m, e + 1) = Bit(n, e)
  BY <1>1, TwiceBits
<1>3. \A e \in 0..15 : Bit(m % 65536, e) = Bit(m, e)
  BY <1>1, LowWordBits
<1>4. Doubled(n) = m % 65536
  BY DEF Doubled
<1> HIDE DEF m
<1>5. Doubled(n) \in Word
  BY <1>1, <1>4 DEF Word
<1>6. 0 \in 0..15 /\ \A e \in 0..14 : e + 1 \in 0..15
  OBVIOUS
<1> QED
  BY <1>2, <1>3, <1>4, <1>5, <1>6

LEMMA ShiftedPolynomial ==
    ASSUME NEW n \in Word
    PROVE  Shifted(n) \in Word /\ Polynomial(Shifted(n)) = TimesX(Polynomial(n))
<1> DEFINE p == Polynomial(n)
           d == Doubled(n)
<1>1. n \in Nat /\ n < 65536
  BY DEF Word
<1>2. p \in Poly
  BY DEF Polynomial, Poly
<1>3. 15 \in p <=> n >= 32768
  <2>1. Bit(n, 15) = 1 <=> n >= 32768
    BY <1>1, BitPower DEF Bit
  <2> QED
    BY <2>1 DEF Polynomial
<1>4. d = IF n < 32768 THEN 2 * n ELSE 2 * (n - 32768)
  BY <1>1 DEF Doubled
<1>5. d \in Word
  BY DoubledBits
<1>6. \A e \in 0..15 : e \in Polynomial(d) <=> e - 1 \in p
  <2> TAKE e \in 0..15
  <2>1. CASE e = 0
    BY <2>1, DoubledBits DEF Polynomial
  <2>2. CASE e \in 1..15
    <3>1. e - 1 \in 0..14 /\ e - 1 \in 0..15 /\ (e - 1) + 1 = e
      BY <2>2
    <3>2. Bit(d, (e - 1) + 1) = Bit(n, e - 1)
      BY <3>1, DoubledBits
    <3> QED
      BY <3>1, <3>2 DEF Polynomial
  <2> QED
    BY <2>1, <2>2
<1>7. /\ TimesX(p) \in Poly
      /\ \A e \in 0..15 : e \in TimesX(p) <=> ~(e - 1 \in p <=> (15 \in p /\ e \in {0, 5, 12}))
  BY <1>2, TimesXMember
<1>8. Polynomial(d) \in Poly
  BY DEF Polynomial, Poly
<1>9. CASE n < 32768
  <2>1. Shifted(n) = d
    BY <1>4, <1>9 DEF Shifted
  <2>2. \A e \in 0..15 : e \in TimesX(p) <=> e \in Polynomial(d)
    BY <1>1, <1>3, <1>6, <1>7, <1>9
  <2>3. TimesX(p) = Polynomial(d)
    BY <1>7, <1>8, <2>2 DEF Poly
  <2> QED
    BY <1>5, <2>1, <2>3
<1>10. CASE n >= 32768
  <2>1. Shifted(n) = Inverted(d)
    BY <1>1, <1>4, <1>10 DEF Shifted
  <2>2. Inverted(d) \in Word /\ Polynomial(Inverted(d)) = Plus(Polynomial(d), {0, 5, 12})
    BY <1>5, InvertedPolynomial
  <2>3. \A e \in 0..15 : e \in TimesX(p) <=> e \in Plus(Polynomial(d), {0, 5, 12})
    BY <1>3, <1>6, <1>7, <1>10 DEF Plus
  <2>4. Plus(Polynomial(d), {0, 5, 12}) \in Poly
    BY <1>8, PlusPoly DEF Poly
  <2>5. TimesX(p) = Plus(Polynomial(d), {0, 5, 12})
    BY <1>7, <2>3, <2>4 DEF Poly
  <2> QED
    BY <2>1, <2>2, <2>5
<1> QED
  BY <1>1, <1>9, <1>10

LEMMA GeneratorRest == TimesX8({8}) = {0, 5, 12}
<1>1. ASSUME NEW k \in 8..14 PROVE TimesX({k}) = {k + 1}
  <2>1. {e + 1 : e \in {k}} = {k + 1}
    OBVIOUS
  <2>2. 16 \notin {k + 1}
    OBVIOUS
  <2> QED
    BY <2>1, <2>2 DEF TimesX
<1>2. TimesX({15}) = {0, 5, 12}
  <2>1. {e + 1 : e \in {15}} = {16}
    OBVIOUS
  <2>2. Plus({16}, Generator) = {0, 5, 12}
    BY DEF Plus, Generator
  <2> QED
    BY <2>1, <2>2 DEF TimesX
<1>3. /\ TimesX({8}) = {9} /\ TimesX({9}) = {10} /\ TimesX({10}) = {11}
      /\ TimesX({11}) = {12} /\ TimesX({12}) = {13} /\ TimesX({13}) = {14}
      /\ TimesX({14}) = {15}
  BY <1>1
<1> QED
  BY <1>2, <1>3 DEF TimesX8

\* An entry is the remainder of its index times x^16.
LEMMA TableRight ==
    ASSUME NEW h \in Byte
    PROVE  /\ crc16_table[h + 1] \in Word
           /\ Polynomial(crc16_table[h + 1]) = TimesX8(Raised(Polynomial(h)))
<1> DEFINE T == crc16_table
           Right(n) == /\ T[n + 1] \in Word
                       /\ Polynomial(T[n + 1]) = TimesX8(Raised(Polynomial(n)))
<1>1. /\ T[1] = 0
      /\ \A i \in 1..128, j \in 1..256, k \in 1..256 :
            j = 2 * i - 1 /\ k = 2 * i => T[j] = Shifted(T[i]) /\ T[k] = Inverted(T[j])
  <2> HIDE DEF T
  <2>1. T = crc16_table
    BY DEF T
  <2> QED
    BY <2>1, TableRows
<1> HIDE DEF T
<1>2. Right(0)
  <2>1. Polynomial(0) = {}
    <3>1. \A e \in 0..15 : Bit(0, e) = 0
      <4>1. \A m \in Nat \ {0} : (0 \div m) % 2 = 0
        OBVIOUS
      <4>2. \A e \in 0..15 : Power[e + 1] \in Nat \ {0}
        BY DEF Power
      <4> QED
        BY <4>1, <4>2 DEF Bit
    <3> QED
      BY <3>1 DEF Polynomial
  <2>2. Raised({}) = {} /\ {} \in LowPoly
    BY DEF Raised, LowPoly
  <2>3. TimesX8({}) = {}
    BY <2>2, TimesX8Low
  <2>4. 0 \in Word
    BY DEF Word
  <2>5. T[0 + 1] = 0
    BY <1>1
  <2>6. TimesX8(Raised(Polynomial(0))) = {}
    BY <2>1, <2>2, <2>3
  <2> QED
    BY <2>1, <2>4, <2>5, <2>6
<1>3. ASSUME NEW k \in 0..127, Right(k)
      PROVE  Right(2 * k) /\ Right(2 * k + 1)
  <2> DEFINE a == 2 * k
             b == 2 * k + 1
             p == Polynomial(k)
  <2>1. T[a + 1] = Shifted(T[k + 1]) /\ T[b + 1] = Inverted(T[a + 1])
    <3>1. /\ k + 1 \in 1..128 /\ a + 1 \in 1..256 /\ b + 1 \in 1..256
          /\ a + 1 = 2 * (k + 1) - 1 /\ b + 1 = 2 * (k + 1)
      OBVIOUS
    <3> HIDE DEF a, b
    <3> QED
      BY <1>1, <3>1
  <2>2. a \in Word /\ b \in Word /\ k \in Word /\ a \in Byte /\ b \in Byte /\ k \in Byte
    BY DEF Word, Byte
  <2>3. Polynomial(a) = TimesX(p)
    <3>1. Shifted(k) = a
      BY DEF Shifted
    <3> QED
      BY <2>2, <3>1, ShiftedPolynomial
  <2>4. Polynomial(b) = Plus(Polynomial(a), {0})
    <3>1. Flip(a, 0) = b
      <4>1. (a \div 1) % 2 = 0
        OBVIOUS
      <4> QED
        BY <4>1, FlipLiterally
    <3> QED
      BY <2>2, <3>1, FlipPolynomial
  <2> HIDE DEF a, b, p
  <2>5. p \in LowPoly /\ Polynomial(a) \in LowPoly /\ p \in Poly /\ Polynomial(a) \in Poly
    BY <2>2, PolynomialOfByte DEF p, Polynomial, Poly
  <2>6. Raised(Polynomial(a)) = TimesX(Raised(p))
    <3>1. Raised(Polynomial(a)) = TimesX8(TimesX(p))
      BY <2>3, <2>5, TimesX8Low
    <3>2. TimesX8(TimesX(p)) = TimesX(TimesX8(p))
      BY DEF TimesX8
    <3> QED
      BY <2>5, <3>1, <3>2, TimesX8Low
  <2>7. Right(a)
    <3>1. TimesX8(Raised(Polynomial(a))) = TimesX(TimesX8(Raised(p)))
      BY <2>6 DEF TimesX8
    <3>2. TimesX8(Raised(p)) = Polynomial(T[k + 1]) /\ T[k + 1] \in Word
      BY <1>3 DEF p
    <3>3. /\ Shifted(T[k + 1]) \in Word
          /\ Polynomial(Shifted(T[k + 1])) = TimesX(Polynomial(T[k + 1]))
      BY <3>2, ShiftedPolynomial
    <3> QED
      BY <2>1, <3>1, <3>2, <3>3
  <2>8. Right(b)
    <3>1. Raised(Polynomial(b)) = Plus(Raised(Polynomial(a)), {8})
      <4>1. {0} \in Poly /\ Raised({0}) = {8}
        BY DEF Poly, Raised
      <4> QED
        BY <2>4, <2>5, <4>1, RaisedPlus
    <3>2. TimesX8(Raised(Polynomial(b)))
              = Plus(TimesX8(Raised(Polynomial(a))), {0, 5, 12})
      <4>1. Raised(Polynomial(a)) \in Poly /\ {8} \in Poly
        BY <2>5 DEF Raised, Poly, LowPoly
      <4> QED
        BY <3>1, <4>1, TimesX8Plus, GeneratorRest
    <3>3. /\ Inverted(T[a + 1]) \in Word
          /\ Polynomial(Inverted(T[a + 1])) = Plus(Polynomial(T[a + 1]), {0, 5, 12})
      BY <2>7, InvertedPolynomial
    <3> QED
      BY <2>1, <2>7, <3>2, <3>3
  <2> QED
    BY <2>7, <2>8 DEF a, b
<1> HIDE DEF Right
<1> DEFINE Wrong == {n \in Byte : ~Right(n)}
<1>4. ASSUME Wrong # {} PROVE FALSE
  <2>0. Wrong \in SUBSET Nat
    BY DEF Byte
  <2>1. PICK n \in Wrong : \A m \in Wrong : n <= m
    <3> HIDE DEF Wrong
    <3> QED
      BY <1>4, <2>0, LeastElement
  <2> DEFINE k == n \div 2
  <2>2. n \in Nat /\ n <= 255 /\ n # 0
    BY <1>2, <2>1 DEF Byte
  <2>3. k \in 0..127 /\ k < n /\ (n = 2 * k \/ n = 2 * k + 1)
    BY <2>2
  <2> HIDE DEF k
  <2>4. k \in Byte /\ k \notin Wrong
    BY <2>1, <2>2, <2>3 DEF Byte
  <2> QED
    BY <1>3, <2>1, <2>3, <2>4
<1>5. Right(h)
  BY <1>4
<1> QED
  BY <1>5 DEF Right, T

-----------------------------------------------------------------------------
(* crc16_compute. *)

\* One round of the loop takes the remainder a byte further.
LEMMA StepRight ==
    ASSUME NEW crc \in Word, NEW byte \in Byte
    PROVE  /\ CrcStep(crc, byte) \in Word
           /\ Polynomial(CrcStep(crc, byte))
                 = TimesX8(Plus(Polynomial(crc), Raised(Polynomial(byte))))
<1> DEFINE u == crc \div 256
           v == crc % 256
           x == XorByte[u][byte]
           t == crc16_table[x + 1]
           l == (crc * 256) % 65536
<1>1. u \in Byte /\ v \in Byte /\ crc = 256 * u + v /\ crc \in Nat
  BY WordParts
<1>2. l = 256 * v + 0
  BY <1>1 DEF Byte
<1>3. CrcStep(crc, byte) = Xor16(l, t)
  BY DEF CrcStep
<1> HIDE DEF u, v, l
<1>4. x \in Byte /\ Polynomial(x) = Plus(Polynomial(u), Polynomial(byte))
  BY <1>1, XorByteBits, XorBytePolynomial
<1> HIDE DEF x
<1>5. t \in Word /\ Polynomial(t) = TimesX8(Raised(Polynomial(x)))
  BY <1>4, TableRight
<1> HIDE DEF t
<1>6. 0 \in Byte
  BY DEF Byte
<1>7. l \in Word /\ Polynomial(l) = Polynomial(0) \cup Raised(Polynomial(v))
  BY <1>1, <1>2, <1>6, WordOf, PolynomialOfWord
<1>8. Polynomial(0) = {}
  <2>1. \A m \in Nat \ {0} : (0 \div m) % 2 = 0
    OBVIOUS
  <2>2. \A e \in 0..15 : Power[e + 1] \in Nat \ {0}
    BY DEF Power
  <2>3. \A e \in 0..15 : Bit(0, e) = 0
    BY <2>1, <2>2 DEF Bit
  <2> QED
    BY <2>3 DEF Polynomial
<1>9. /\ Polynomial(u) \in LowPoly /\ Polynomial(v) \in LowPoly
      /\ Polynomial(byte) \in LowPoly
      /\ Polynomial(u) \in Poly /\ Polynomial(v) \in Poly /\ Polynomial(byte) \in Poly
  BY <1>1, PolynomialOfByte DEF Polynomial, Poly
<1>10. Polynomial(l) = TimesX8(Polynomial(v))
  BY <1>7, <1>8, <1>9, TimesX8Low
<1> DEFINE ru == Raised(Polynomial(u))
           rb == Raised(Polynomial(byte))
<1>11. Raised(Polynomial(x)) = Plus(ru, rb)
  BY <1>4, <1>9, RaisedPlus
<1>12. Polynomial(crc) = Polynomial(v) \cup ru
  BY <1>1, PolynomialOfWord
<1>13. ru \in Poly /\ rb \in Poly /\ \A e \in Polynomial(v) : e \notin ru
  BY <1>9 DEF Raised, Poly, LowPoly
<1> HIDE DEF ru, rb
<1>14. Plus(Polynomial(crc), rb) = Plus(Polynomial(v), Plus(ru, rb))
  BY <1>12, <1>13 DEF Plus
<1>15. TimesX8(Plus(Polynomial(crc), rb)) = Plus(Polynomial(l), Polynomial(t))
  BY <1>5, <1>9, <1>10, <1>11, <1>13, <1>14, PlusPoly, TimesX8Plus
<1> QED
  BY <1>3, <1>5, <1>7, <1>15, Xor16Polynomial DEF rb

LEMMA InitialWord == Initial \in Word /\ Polynomial(Initial) = 0..15
<1>1. ASSUME NEW n, n = Initial PROVE n \in Nat /\ n < 65536 /\ n >= 32768 + 32767
  BY <1>1 DEF Initial
<1>2. ASSUME NEW n \in Nat, n < 65536, n >= 32768 + 32767
      PROVE  /\ Bit(n, 0) = 1 /\ Bit(n, 1) = 1 /\ Bit(n, 2) = 1 /\ Bit(n, 3) = 1
             /\ Bit(n, 4) = 1 /\ Bit(n, 5) = 1 /\ Bit(n, 6) = 1 /\ Bit(n, 7) = 1
             /\ Bit(n, 8) = 1 /\ Bit(n, 9) = 1 /\ Bit(n, 10) = 1 /\ Bit(n, 11) = 1
             /\ Bit(n, 12) = 1 /\ Bit(n, 13) = 1 /\ Bit(n, 14) = 1 /\ Bit(n, 15) = 1
  BY <1>2, BitPower DEF Bit
<1>3. \A e \in 0..15 : e \in {0, 1, 2, 3, 4, 5, 6, 7, 8, 9, 10, 11, 12, 13, 14, 15}
  OBVIOUS
<1>4. \A e \in 0..15 : Bit(Initial, e) = 1
  BY <1>1, <1>2, <1>3
<1> QED
  BY <1>1, <1>4 DEF Polynomial, Word

LEMMA CrcLoop ==
    ASSUME NEW data \in Seq(Byte)
    PROVE  \E f \in [0..Len(data) -> Word] :
              f[0] = Initial /\ \A i \in 1..Len(data) : f[i] = CrcStep(f[i - 1], data[i])
<1> DEFINE n == Len(data)
           g == [a \in (1..n) \X Word |-> CrcStep(a[2], data[a[1]])]
<1>1. n \in Nat /\ \A i \in 1..n : data[i] \in Byte
  OBVIOUS
<1>2. Initial \in Word
  BY InitialWord
<1> HIDE DEF n
<1>3. \A a \in (1..n) \X Word : CrcStep(a[2], data[a[1]]) \in Word
  BY <1>1, StepRight
<1>4. /\ g \in [(1..n) \X Word -> Word]
      /\ \A i \in 1..n, c \in Word : g[<<i, c>>] = CrcStep(c, data[i])
  BY <1>3
<1> HIDE DEF g
<1>5. PICK f : IsLoop(f, n, Word, Initial, g)
  BY <1>1, <1>2, <1>4, LoopExists
<1>6. /\ f \in [0..n -> Word] /\ f[0] = Initial
      /\ \A i \in 1..n : f[i] = g[<<i, f[i - 1]>>]
  BY <1>5 DEF IsLoop
<1>7. \A i \in 1..n : i - 1 \in 0..n
  BY <1>1
<1>8. \A i \in 1..n : f[i] = CrcStep(f[i - 1], data[i])
  BY <1>4, <1>6, <1>7
<1> QED
  BY <1>6, <1>8 DEF n

LEMMA ComputeUnfolds ==
    ASSUME NEW data \in Seq(Byte)
    PROVE  \E f \in [0..Len(data) -> Word] :
              /\ f[0] = Initial
              /\ \A i \in 1..Len(data) : f[i] = CrcStep(f[i - 1], data[i])
              /\ crc16_compute(data) = f[Len(data)]
<1> DEFINE n == Len(data)
           Is(h) == h = [i \in 0..n |-> IF i = 0 THEN Initial ELSE CrcStep(h[i - 1], data[i])]
           f == CHOOSE h : Is(h)
<1>1. n \in Nat /\ \A i \in 1..n : data[i] \in Byte
  OBVIOUS
<1>2. crc16_compute(data) = f[n]
  BY DEF crc16_compute
<1>3. \E h : Is(h)
  <2>1. PICK h \in [0..n -> Word] :
           h[0] = Initial /\ \A i \in 1..n : h[i] = CrcStep(h[i - 1], data[i])
    BY CrcLoop
  <2> HIDE DEF n
  <2>2. \A i \in 0..n : i = 0 \/ (i # 0 /\ i \in 1..n)
    BY <1>1
  <2>3. \A i \in 0..n : h[i] = IF i = 0 THEN Initial ELSE CrcStep(h[i - 1], data[i])
    BY <2>1, <2>2
  <2>4. Is(h)
    BY <2>3
  <2> QED
    BY <2>4
<1> HIDE DEF Is
<1>4. Is(f)
  BY <1>3
<1> HIDE DEF f, n
<1>5. /\ f = [i \in 0..n |-> f[i]] /\ f[0] = Initial
      /\ \A i \in 1..n : f[i] = CrcStep(f[i - 1], data[i])
  <2>1. f = [i \in 0..n |-> IF i = 0 THEN Initial ELSE CrcStep(f[i - 1], data[i])]
    BY <1>4 DEF Is
  <2>2. 0 \in 0..n /\ \A i \in 1..n : i # 0 /\ i \in 0..n
    BY <1>1
  <2>3. \A i \in 0..n : f[i] = IF i = 0 THEN Initial ELSE CrcStep(f[i - 1], data[i])
    BY <2>1
  <2> QED
    BY <2>1, <2>2, <2>3
<1> DEFINE S == {k \in Nat : k <= n => f[k] \in Word}
<1>6. 0 \in S
  BY <1>5, InitialWord
<1>7. ASSUME NEW k \in Nat, k \in S PROVE k + 1 \in S
  <2>1. ASSUME k + 1 <= n PROVE f[k + 1] \in Word
    <3>1. k + 1 \in 1..n /\ (k + 1) - 1 = k /\ k <= n
      BY <1>1, <2>1
    <3>2. f[k + 1] = CrcStep(f[(k + 1) - 1], data[k + 1])
      BY <1>5, <3>1
    <3>3. f[k] \in Word /\ data[k + 1] \in Byte
      BY <1>1, <1>7, <3>1
    <3>4. CrcStep(f[k], data[k + 1]) \in Word
      BY <3>3, StepRight
    <3> QED
      BY <3>1, <3>2, <3>4
  <2> QED
    BY <2>1
<1>8. \A k \in Nat : k \in S
  <2> HIDE DEF S
  <2> QED
    BY <1>6, <1>7, Induction
<1>9. f \in [0..n -> Word]
  <2>1. \A i \in 0..n : f[i] \in Word
    BY <1>1, <1>8
  <2> QED
    BY <1>5, <2>1
<1> QED
  BY <1>2, <1>5, <1>9 DEF n

\* A round of the reference.
NextRest(r, byte) == TimesX8(Plus(r, Raised(Polynomial(byte))))

LEMMA NextRestPoly ==
    ASSUME NEW r \in Poly, NEW byte \in Byte
    PROVE  NextRest(r, byte) \in Poly
<1>1. Polynomial(byte) \in LowPoly
  BY PolynomialOfByte
<1>2. Raised(Polynomial(byte)) \in Poly
  BY <1>1 DEF Raised, LowPoly, Poly
<1> QED
  BY <1>2, PlusPoly, TimesX8Poly DEF NextRest

LEMMA RemainderLoop ==
    ASSUME NEW data \in Seq(Byte)
    PROVE  \E f \in [0..Len(data) -> Poly] :
              f[0] = 0..15 /\ \A i \in 1..Len(data) : f[i] = NextRest(f[i - 1], data[i])
<1> DEFINE n == Len(data)
           g == [a \in (1..n) \X Poly |-> NextRest(a[2], data[a[1]])]
<1>1. n \in Nat /\ \A i \in 1..n : data[i] \in Byte
  OBVIOUS
<1>2. 0..15 \in Poly
  BY DEF Poly
<1> HIDE DEF n
<1>3. \A a \in (1..n) \X Poly : NextRest(a[2], data[a[1]]) \in Poly
  BY <1>1, NextRestPoly
<1>4. /\ g \in [(1..n) \X Poly -> Poly]
      /\ \A i \in 1..n, r \in Poly : g[<<i, r>>] = NextRest(r, data[i])
  BY <1>3
<1> HIDE DEF g
<1>5. PICK f : IsLoop(f, n, Poly, 0..15, g)
  BY <1>1, <1>2, <1>4, LoopExists
<1>6. /\ f \in [0..n -> Poly] /\ f[0] = 0..15
      /\ \A i \in 1..n : f[i] = g[<<i, f[i - 1]>>]
  BY <1>5 DEF IsLoop
<1>7. \A i \in 1..n : i - 1 \in 0..n
  BY <1>1
<1>8. \A i \in 1..n : f[i] = NextRest(f[i - 1], data[i])
  BY <1>4, <1>6, <1>7
<1> QED
  BY <1>6, <1>8 DEF n

LEMMA RemainderUnfolds ==
    ASSUME NEW data \in Seq(Byte)
    PROVE  \E f \in [0..Len(data) -> Poly] :
              /\ f[0] = 0..15
              /\ \A i \in 1..Len(data) : f[i] = NextRest(f[i - 1], data[i])
              /\ Remainder(data) = f[Len(data)]
<1> DEFINE n == Len(data)
           body(i, r) == UNION {TimesX8(Plus(s, {e + 8 : e \in Polynomial(data[i])})) :
                                   s \in {r}}
           Is(h) == h = [i \in 0..n |-> IF i = 0 THEN 0..15 ELSE body(i, h[i - 1])]
           f == CHOOSE h : Is(h)
<1>1. n \in Nat /\ \A i \in 1..n : data[i] \in Byte
  OBVIOUS
<1>2. Remainder(data) = f[n]
  BY DEF Remainder
<1>3. ASSUME NEW i, NEW r PROVE body(i, r) = NextRest(r, data[i])
  <2>1. \A s : TimesX8(Plus(s, {e + 8 : e \in Polynomial(data[i])})) = NextRest(s, data[i])
    BY DEF Raised, NextRest
  <2>2. {TimesX8(Plus(s, {e + 8 : e \in Polynomial(data[i])})) : s \in {r}}
           = {NextRest(r, data[i])}
    BY <2>1
  <2>3. body(i, r) = UNION {NextRest(r, data[i])}
    BY <2>2
  <2> QED
    BY <2>3
<1> HIDE DEF body
<1>4. \E h : Is(h)
  <2>1. PICK h \in [0..n -> Poly] :
           h[0] = 0..15 /\ \A i \in 1..n : h[i] = NextRest(h[i - 1], data[i])
    BY RemainderLoop
  <2> HIDE DEF n
  <2>2. \A i \in 0..n : i = 0 \/ (i # 0 /\ i \in 1..n)
    BY <1>1
  <2>3. \A i \in 0..n : h[i] = IF i = 0 THEN 0..15 ELSE body(i, h[i - 1])
    BY <1>3, <2>1, <2>2
  <2>4. Is(h)
    BY <2>3
  <2> QED
    BY <2>4
<1> HIDE DEF Is
<1>5. Is(f)
  BY <1>4
<1> HIDE DEF f, n
<1>6. /\ f = [i \in 0..n |-> f[i]] /\ f[0] = 0..15
      /\ \A i \in 1..n : f[i] = NextRest(f[i - 1], data[i])
  <2>1. f = [i \in 0..n |-> IF i = 0 THEN 0..15 ELSE body(i, f[i - 1])]
    BY <1>5 DEF Is
  <2>2. 0 \in 0..n /\ \A i \in 1..n : i # 0 /\ i \in 0..n
    BY <1>1
  <2>3. \A i \in 0..n : f[i] = IF i = 0 THEN 0..15 ELSE body(i, f[i - 1])
    BY <2>1
  <2>4. \A i \in 1..n : f[i] = NextRest(f[i - 1], data[i])
    BY <1>3, <2>2, <2>3
  <2> QED
    BY <2>1, <2>2, <2>3, <2>4
<1> DEFINE S == {k \in Nat : k <= n => f[k] \in Poly}
<1>7. 0 \in S
  <2>1. 0..15 \in Poly
    BY DEF Poly
  <2> QED
    BY <1>6, <2>1
<1>8. ASSUME NEW k \in Nat, k \in S PROVE k + 1 \in S
  <2>1. ASSUME k + 1 <= n PROVE f[k + 1] \in Poly
    <3>1. k + 1 \in 1..n /\ (k + 1) - 1 = k /\ k <= n
      BY <1>1, <2>1
    <3>2. f[k + 1] = NextRest(f[(k + 1) - 1], data[k + 1])
      BY <1>6, <3>1
    <3>3. f[k] \in Poly /\ data[k + 1] \in Byte
      BY <1>1, <1>8, <3>1
    <3>4. NextRest(f[k], data[k + 1]) \in Poly
      BY <3>3, NextRestPoly
    <3> QED
      BY <3>1, <3>2, <3>4
  <2> QED
    BY <2>1
<1>9. \A k \in Nat : k \in S
  <2> HIDE DEF S
  <2> QED
    BY <1>7, <1>8, Induction
<1>10. f \in [0..n -> Poly]
  <2>1. \A i \in 0..n : f[i] \in Poly
    BY <1>1, <1>9
  <2> QED
    BY <1>6, <2>1
<1> QED
  BY <1>2, <1>6, <1>10 DEF n

\* The table computes the remainder of every sequence of bytes.
LEMMA CrcMatches ==
    ASSUME NEW data \in Seq(Byte)
    PROVE  /\ crc16_compute(data) \in Word
           /\ Polynomial(crc16_compute(data)) = Remainder(data)
<1>1. PICK f \in [0..Len(data) -> Word] :
         /\ f[0] = Initial
         /\ \A i \in 1..Len(data) : f[i] = CrcStep(f[i - 1], data[i])
         /\ crc16_compute(data) = f[Len(data)]
  BY ComputeUnfolds
<1>2. PICK h \in [0..Len(data) -> Poly] :
         /\ h[0] = 0..15
         /\ \A i \in 1..Len(data) : h[i] = NextRest(h[i - 1], data[i])
         /\ Remainder(data) = h[Len(data)]
  BY RemainderUnfolds
<1> DEFINE n == Len(data)
           S == {k \in Nat : k <= n => Polynomial(f[k]) = h[k]}
<1>3. n \in Nat /\ \A i \in 1..n : data[i] \in Byte
  OBVIOUS
<1>4. 0 \in S
  <2>3. Polynomial(f[0]) = h[0]
    BY <1>1, <1>2, InitialWord
  <2> QED
    BY <2>3
<1> HIDE DEF n
<1>5. ASSUME NEW k \in Nat, k \in S PROVE k + 1 \in S
  <2>1. ASSUME k + 1 <= n PROVE Polynomial(f[k + 1]) = h[k + 1]
    <3>1. k + 1 \in 1..n /\ (k + 1) - 1 = k /\ k <= n /\ k \in 0..n
      BY <1>3, <2>1
    <3>2. /\ f[k + 1] = CrcStep(f[(k + 1) - 1], data[k + 1])
          /\ h[k + 1] = NextRest(h[(k + 1) - 1], data[k + 1])
      BY <1>1, <1>2, <3>1 DEF n
    <3>3. f[k] \in Word /\ data[k + 1] \in Byte /\ Polynomial(f[k]) = h[k]
      BY <1>1, <1>3, <1>5, <3>1 DEF n
    <3>4. Polynomial(CrcStep(f[k], data[k + 1])) = NextRest(Polynomial(f[k]), data[k + 1])
      BY <3>3, StepRight DEF NextRest
    <3> QED
      BY <3>1, <3>2, <3>3, <3>4
  <2> QED
    BY <2>1
<1>6. n \in S
  <2> HIDE DEF S
  <2> QED
    BY <1>3, <1>4, <1>5, Induction
<1>7. f[n] \in Word /\ Polynomial(f[n]) = h[n]
  BY <1>1, <1>3, <1>6 DEF n
<1> QED
  BY <1>1, <1>2, <1>7 DEF n

-----------------------------------------------------------------------------
(* The bitmap. *)

LEMMA ByteBits ==
    ASSUME NEW n \in Byte
    PROVE  n = 1 * Bit(n, 0) + 2 * Bit(n, 1) + 4 * Bit(n, 2) + 8 * Bit(n, 3)
                 + 16 * Bit(n, 4) + 32 * Bit(n, 5) + 64 * Bit(n, 6) + 128 * Bit(n, 7)
<1>1. n \in Nat /\ n < 256
  BY DEF Byte
<1>2. n = 1 * ((n \div 1) % 2) + 2 * ((n \div 2) % 2) + 4 * ((n \div 4) % 2)
            + 8 * ((n \div 8) % 2) + 16 * ((n \div 16) % 2) + 32 * ((n \div 32) % 2)
            + 64 * ((n \div 64) % 2) + 128 * ((n \div 128) % 2)
  BY <1>1
<1> QED
  BY <1>2, BitPower DEF Bit

\* Adding the power of a bit that is clear sets it and leaves the others.
LEMMA SetBitOfByte ==
    ASSUME NEW n \in Byte, NEW e \in 0..7, Bit(n, e) = 0
    PROVE  /\ n + Power[e + 1] \in Byte
           /\ \A d \in 0..7 : Bit(n + Power[e + 1], d) = IF d = e THEN 1 ELSE Bit(n, d)
<1> DEFINE c(d) == IF d = e THEN 1 ELSE Bit(n, d)
           m == n + Power[e + 1]
<1>1. \A d \in 0..7 : IsBit(Bit(n, d)) /\ IsBit(c(d))
  <2>1. \A d \in 0..7 : IsBit(Bit(n, d))
    BY BitIsBit DEF Byte
  <2> QED
    BY <2>1 DEF IsBit
<1>2. m = 1 * c(0) + 2 * c(1) + 4 * c(2) + 8 * c(3)
            + 16 * c(4) + 32 * c(5) + 64 * c(6) + 128 * c(7)
  <2>1. e \in {0, 1, 2, 3, 4, 5, 6, 7}
    OBVIOUS
  <2>2. n = 1 * Bit(n, 0) + 2 * Bit(n, 1) + 4 * Bit(n, 2) + 8 * Bit(n, 3)
              + 16 * Bit(n, 4) + 32 * Bit(n, 5) + 64 * Bit(n, 6) + 128 * Bit(n, 7)
    BY ByteBits
  <2>3. /\ Bit(n, 0) \in Int /\ Bit(n, 1) \in Int /\ Bit(n, 2) \in Int
        /\ Bit(n, 3) \in Int /\ Bit(n, 4) \in Int /\ Bit(n, 5) \in Int
        /\ Bit(n, 6) \in Int /\ Bit(n, 7) \in Int
    BY <1>1 DEF IsBit
  <2> QED
    BY <2>1, <2>2, <2>3, BitPower
<1> HIDE DEF c, m
<1>3. /\ m \in Byte
      /\ (m \div 1) % 2 = c(0) /\ (m \div 2) % 2 = c(1) /\ (m \div 4) % 2 = c(2)
      /\ (m \div 8) % 2 = c(3) /\ (m \div 16) % 2 = c(4) /\ (m \div 32) % 2 = c(5)
      /\ (m \div 64) % 2 = c(6) /\ (m \div 128) % 2 = c(7)
  BY <1>1, <1>2, BitsOfByte
<1>4. /\ Bit(m, 0) = c(0) /\ Bit(m, 1) = c(1) /\ Bit(m, 2) = c(2) /\ Bit(m, 3) = c(3)
      /\ Bit(m, 4) = c(4) /\ Bit(m, 5) = c(5) /\ Bit(m, 6) = c(6) /\ Bit(m, 7) = c(7)
  BY <1>3, BitPower DEF Bit
<1>5. \A d \in 0..7 : d \in {0, 1, 2, 3, 4, 5, 6, 7}
  OBVIOUS
<1>6. \A d \in 0..7 : Bit(m, d) = c(d)
  BY <1>4, <1>5
<1> QED
  BY <1>3, <1>6 DEF c, m

Bitmaps == [1..BitmapSize -> Byte]

\* The byte and the bit of an index.
LEMMA Place ==
    ASSUME NEW idx \in 0..(8 * BitmapSize - 1)
    PROVE  /\ idx \div 8 + 1 \in 1..BitmapSize /\ idx % 8 \in 0..7
           /\ idx \in Nat /\ idx = 8 * (idx \div 8) + (idx % 8)
<1>1. BitmapSize \in Nat
  BY FramesAssumption DEF FramesAssumption
<1> QED
  BY <1>1

LEMMA MarkMarks ==
    ASSUME NEW bitmap \in Bitmaps, NEW idx \in 0..(8 * BitmapSize - 1)
    PROVE  /\ Mark(bitmap, idx) \in Bitmaps
           /\ \A j \in 0..(8 * BitmapSize - 1) :
                 Marked(Mark(bitmap, idx), j) <=> j = idx \/ Marked(bitmap, j)
<1> DEFINE i == idx \div 8 + 1
           e == idx % 8
<1>1. i \in 1..BitmapSize /\ e \in 0..7 /\ bitmap[i] \in Byte
  BY Place DEF Bitmaps
<1>2. CASE Bit(bitmap[i], e) = 1
  <2>1. Mark(bitmap, idx) = bitmap
    BY <1>2 DEF Mark
  <2>2. Marked(bitmap, idx)
    BY <1>2 DEF Marked
  <2> QED
    BY <2>1, <2>2
<1>3. CASE Bit(bitmap[i], e) # 1
  <2> DEFINE n == bitmap[i] + Power[e + 1]
             new == [bitmap EXCEPT ![i] = n]
  <2>1. Mark(bitmap, idx) = new
    BY <1>3 DEF Mark
  <2>2. Bit(bitmap[i], e) = 0
    <3>1. IsBit(Bit(bitmap[i], e))
      BY <1>1, BitIsBit DEF Byte
    <3> QED
      BY <1>3, <3>1 DEF IsBit
  <2>3. n \in Byte /\ \A d \in 0..7 : Bit(n, d) = IF d = e THEN 1 ELSE Bit(bitmap[i], d)
    <3>1. /\ bitmap[i] + Power[e + 1] \in Byte
          /\ \A d \in 0..7 : Bit(bitmap[i] + Power[e + 1], d)
                                = IF d = e THEN 1 ELSE Bit(bitmap[i], d)
      <4> HIDE DEF i, e
      <4> QED
        BY <1>1, <2>2, SetBitOfByte
    <3> QED
      BY <3>1
  <2> HIDE DEF n
  <2>4. new \in Bitmaps
    BY <1>1, <2>3 DEF Bitmaps
  <2>5. ASSUME NEW j \in 0..(8 * BitmapSize - 1)
        PROVE  Marked(new, j) <=> j = idx \/ Marked(bitmap, j)
    <3> DEFINE k == j \div 8 + 1
               d == j % 8
    <3>1. k \in 1..BitmapSize /\ d \in 0..7 /\ (j = idx <=> k = i /\ d = e)
      BY Place
    <3>2. new[k] = IF k = i THEN n ELSE bitmap[k]
      <4> HIDE DEF k, i
      <4> QED
        BY <3>1 DEF Bitmaps
    <3>3. Marked(new, j) <=> Bit(new[k], d) = 1
      BY DEF Marked
    <3>4. Marked(bitmap, j) <=> Bit(bitmap[k], d) = 1
      BY DEF Marked
    <3> HIDE DEF k, d, i, e, new
    <3> QED
      BY <2>3, <3>1, <3>2, <3>3, <3>4
  <2> QED
    BY <2>1, <2>4, <2>5
<1> QED
  BY <1>2, <1>3

LEMMA ClearedIsClear ==
    /\ Cleared \in Bitmaps
    /\ \A j \in 0..(8 * BitmapSize - 1) : ~Marked(Cleared, j)
<1>1. 0 \in Byte
  BY DEF Byte
<1>2. ASSUME NEW e \in 0..7 PROVE Bit(0, e) # 1
  <2>1. \A m \in Nat \ {0} : (0 \div m) % 2 = 0
    OBVIOUS
  <2>2. Power[e + 1] \in Nat \ {0}
    BY DEF Power
  <2> QED
    BY <2>1, <2>2 DEF Bit
<1>3. ASSUME NEW j \in 0..(8 * BitmapSize - 1) PROVE ~Marked(Cleared, j)
  <2>1. j \div 8 + 1 \in 1..BitmapSize /\ j % 8 \in 0..7
    BY Place
  <2>2. Cleared[j \div 8 + 1] = 0
    BY <2>1 DEF Cleared
  <2> QED
    BY <1>2, <2>1, <2>2 DEF Marked
<1> QED
  BY <1>1, <1>3 DEF Cleared, Bitmaps

-----------------------------------------------------------------------------
(* get_missing_fragments. *)

\* A round of the loop, when U are the fragments that are missing.
Found(found) == {found[k] : k \in DOMAIN found}

Longer(U, found) ==
    IF U \ Found(found) = {} THEN found ELSE Append(found, Min(U \ Found(found)))

LEMMA MinIsLeast ==
    ASSUME NEW T \in SUBSET Nat, T # {}
    PROVE  Min(T) \in T /\ \A y \in T : Min(T) <= y
<1>1. \E x \in T : \A y \in T : x <= y
  BY LeastElement
<1> QED
  BY <1>1 DEF Min

LEMMA LongerSeq ==
    ASSUME NEW U \in SUBSET Nat, NEW found \in Seq(U)
    PROVE  Longer(U, found) \in Seq(U)
<1> DEFINE rest == U \ Found(found)
<1>1. CASE rest = {}
  BY <1>1 DEF Longer
<1>2. CASE rest # {}
  <2>1. Min(rest) \in U
    <3>1. rest \in SUBSET Nat
      OBVIOUS
    <3>2. Min(rest) \in rest
      <4> HIDE DEF rest
      <4> QED
        BY <1>2, <3>1, MinIsLeast
    <3> QED
      BY <3>2
  <2> HIDE DEF rest
  <2>2. Append(found, Min(rest)) \in Seq(U)
    BY <2>1
  <2> QED
    BY <1>2, <2>2 DEF Longer, rest
<1> QED
  BY <1>1, <1>2

\* The invariant of the loop: after c rounds found begins U in order, and
\* misses something of it only if it has c members.
Begins(found, U, c) ==
    /\ found \in Seq(U) /\ Len(found) <= c
    /\ \A j, k \in 1..Len(found) : j < k => found[j] < found[k]
    /\ \A idx \in U : \/ \E k \in 1..Len(found) : found[k] = idx
                      \/ Len(found) = c /\ \A k \in 1..Len(found) : found[k] < idx

LEMMA LongerBegins ==
    ASSUME NEW U \in SUBSET Nat, NEW c \in Nat, NEW found, Begins(found, U, c)
    PROVE  Begins(Longer(U, found), U, c + 1)
<1> DEFINE rest == U \ Found(found)
           n == Len(found)
<1>1. /\ found \in Seq(U) /\ n \in Nat /\ n <= c /\ DOMAIN found = 1..n
      /\ \A k \in 1..n : found[k] \in U
  BY DEF Begins
<1>2. \A idx : idx \in rest <=> idx \in U /\ \A k \in 1..n : found[k] # idx
  BY <1>1 DEF Found
<1>3. CASE rest = {}
  <2>1. Longer(U, found) = found
    BY <1>3 DEF Longer
  <2>2. \A idx \in U : \E k \in 1..n : found[k] = idx
    BY <1>2, <1>3
  <2>3. n <= c + 1
    BY <1>1
  <2> QED
    BY <1>1, <2>1, <2>2, <2>3 DEF Begins
<1>4. CASE rest # {}
  <2> DEFINE least == Min(rest)
             new == Append(found, least)
  <2>1. least \in rest /\ \A y \in rest : least <= y
    <3>1. rest \in SUBSET Nat
      OBVIOUS
    <3> HIDE DEF rest
    <3> QED
      BY <1>4, <3>1, MinIsLeast
  <2>2. Longer(U, found) = new
    BY <1>4 DEF Longer
  <2> HIDE DEF rest, least
  <2>3. least \in U /\ n = c /\ \A idx \in rest, k \in 1..n : found[k] < idx
    BY <1>2, <2>1 DEF Begins
  <2>4. /\ new \in Seq(U) /\ Len(new) = c + 1 /\ new[c + 1] = least
        /\ \A k \in 1..n : new[k] = found[k]
    BY <1>1, <2>3
  <2> HIDE DEF new
  <2>5. ASSUME NEW j \in 1..(c + 1), NEW k \in 1..(c + 1), j < k
        PROVE  new[j] < new[k]
    <3>1. CASE k = c + 1
      <4>1. j \in 1..n
        BY <2>3, <2>5, <3>1
      <4> QED
        BY <2>1, <2>3, <2>4, <3>1, <4>1
    <3>2. CASE k # c + 1
      <4>1. j \in 1..n /\ k \in 1..n
        BY <2>3, <2>5, <3>2
      <4> QED
        BY <2>4, <2>5, <4>1 DEF Begins
    <3> QED
      BY <3>1, <3>2
  <2>6. ASSUME NEW idx \in U
        PROVE  \/ \E k \in 1..(c + 1) : new[k] = idx
               \/ \A k \in 1..(c + 1) : new[k] < idx
    <3>1. \A k \in 1..(c + 1) : k = c + 1 \/ k \in 1..n
      BY <2>3
    <3>2. 1..n \subseteq 1..(c + 1) /\ c + 1 \in 1..(c + 1)
      BY <2>3
    <3>3. CASE idx \notin rest
      <4>1. PICK k \in 1..n : found[k] = idx
        BY <1>2, <3>3
      <4> QED
        BY <2>4, <3>2, <4>1
    <3>4. CASE idx = least
      BY <2>4, <3>2, <3>4
    <3>5. CASE idx \in rest /\ idx # least
      <4>1. least < idx
        BY <2>1, <2>3, <3>5
      <4> QED
        BY <2>3, <2>4, <3>1, <3>5, <4>1
    <3> QED
      BY <3>3, <3>4, <3>5
  <2>7. Begins(new, U, c + 1)
    BY <2>4, <2>5, <2>6 DEF Begins
  <2> QED
    BY <2>2, <2>7
<1> QED
  BY <1>3, <1>4

LEMMA LongerLoop ==
    ASSUME NEW U \in SUBSET Nat
    PROVE  \E f \in [0..MaxNackIndices -> Seq(U)] :
              f[0] = <<>> /\ \A c \in 1..MaxNackIndices : f[c] = Longer(U, f[c - 1])
<1> DEFINE n == MaxNackIndices
           g == [a \in (1..n) \X Seq(U) |-> Longer(U, a[2])]
<1>1. n \in Nat
  BY FramesAssumption DEF FramesAssumption
<1>2. << >> \in Seq(U)
  OBVIOUS
<1> HIDE DEF n
<1>3. \A a \in (1..n) \X Seq(U) : Longer(U, a[2]) \in Seq(U)
  BY LongerSeq
<1>4. /\ g \in [(1..n) \X Seq(U) -> Seq(U)]
      /\ \A c \in 1..n, q \in Seq(U) : g[<<c, q>>] = Longer(U, q)
  BY <1>3
<1> HIDE DEF g
<1>5. PICK f : IsLoop(f, n, Seq(U), <<>>, g)
  BY <1>1, <1>2, <1>4, LoopExists
<1>6. /\ f \in [0..n -> Seq(U)] /\ f[0] = <<>>
      /\ \A c \in 1..n : f[c] = g[<<c, f[c - 1]>>]
  BY <1>5 DEF IsLoop
<1>7. \A c \in 1..n : c - 1 \in 0..n
  BY <1>1
<1>8. \A c \in 1..n : f[c] = Longer(U, f[c - 1])
  BY <1>4, <1>6, <1>7
<1> QED
  BY <1>6, <1>8 DEF n

LEMMA MissingFragmentsBegin ==
    ASSUME NEW s, Unmarked(s) \in SUBSET Nat
    PROVE  Begins(MissingFragments(s), Unmarked(s), MaxNackIndices)
<1> DEFINE n == MaxNackIndices
           U == Unmarked(s)
           body(found) == IF U \ {found[k] : k \in DOMAIN found} = {} THEN found
                          ELSE Append(found, Min(U \ {found[k] : k \in DOMAIN found}))
           Is(h) == h = [c \in 0..n |-> IF c = 0 THEN <<>> ELSE body(h[c - 1])]
           f == CHOOSE h : Is(h)
<1>1. n \in Nat
  BY FramesAssumption DEF FramesAssumption
<1>2. MissingFragments(s) = f[n]
  BY DEF MissingFragments
<1> HIDE DEF U
<1>3. ASSUME NEW found PROVE body(found) = Longer(U, found)
  BY DEF Longer, Found
<1> HIDE DEF body
<1>4. \E h : Is(h)
  <2>1. PICK h \in [0..n -> Seq(U)] :
           h[0] = <<>> /\ \A c \in 1..n : h[c] = Longer(U, h[c - 1])
    BY LongerLoop DEF U
  <2> HIDE DEF n
  <2>2. \A c \in 0..n : c = 0 \/ (c # 0 /\ c \in 1..n)
    BY <1>1
  <2>3. \A c \in 0..n : h[c] = IF c = 0 THEN <<>> ELSE body(h[c - 1])
    BY <1>3, <2>1, <2>2
  <2>4. Is(h)
    BY <2>3
  <2> QED
    BY <2>4
<1> HIDE DEF Is
<1>5. Is(f)
  BY <1>4
<1> HIDE DEF f, n
<1>6. f[0] = <<>> /\ \A c \in 1..n : f[c] = Longer(U, f[c - 1])
  <2>1. f = [c \in 0..n |-> IF c = 0 THEN <<>> ELSE body(f[c - 1])]
    BY <1>5 DEF Is
  <2>2. 0 \in 0..n /\ \A c \in 1..n : c # 0 /\ c \in 0..n
    BY <1>1
  <2>3. \A c \in 0..n : f[c] = IF c = 0 THEN <<>> ELSE body(f[c - 1])
    BY <2>1
  <2>4. \A c \in 1..n : f[c] = Longer(U, f[c - 1])
    BY <1>3, <2>2, <2>3
  <2> QED
    BY <2>2, <2>3, <2>4
<1>7. U \in SUBSET Nat
  BY DEF U
<1> DEFINE S == {c \in Nat : c <= n => Begins(f[c], U, c)}
<1>8. 0 \in S
  <2>1. << >> \in Seq(U) /\ Len(<< >>) = 0
    OBVIOUS
  <2>2. Begins(<< >>, U, 0)
    BY <2>1 DEF Begins
  <2> QED
    BY <1>6, <2>2
<1>9. ASSUME NEW c \in Nat, c \in S PROVE c + 1 \in S
  <2>1. ASSUME c + 1 <= n PROVE Begins(f[c + 1], U, c + 1)
    <3>1. c + 1 \in 1..n /\ (c + 1) - 1 = c /\ c <= n
      BY <1>1, <2>1
    <3>2. f[c + 1] = Longer(U, f[(c + 1) - 1])
      BY <1>6, <3>1
    <3>3. Begins(f[c], U, c)
      BY <1>9, <3>1
    <3>4. Begins(Longer(U, f[c]), U, c + 1)
      BY <1>7, <3>3, LongerBegins
    <3> QED
      BY <3>1, <3>2, <3>4
  <2> QED
    BY <2>1
<1>10. n \in S
  <2> HIDE DEF S
  <2> QED
    BY <1>1, <1>8, <1>9, Induction
<1>11. Begins(f[n], U, n)
  BY <1>1, <1>10
<1> QED
  BY <1>2, <1>11 DEF U, n

LEMMA BeginsAnnounces ==
    ASSUME NEW U \in SUBSET Nat, NEW missing, Begins(missing, U, MaxNackIndices)
    PROVE  Announces(missing, U)
<1>1. MaxNackIndices \in Nat \ {0}
  BY FramesAssumption DEF FramesAssumption
<1>2. DOMAIN missing = 1..Len(missing) /\ \A k \in 1..Len(missing) : missing[k] \in U
  BY DEF Begins
<1>3. MaxNackIndices \in 1..MaxNackIndices
  BY <1>1
<1> QED
  BY <1>2, <1>3 DEF Begins, Announces

-----------------------------------------------------------------------------
(* Frames as bytes. *)

LEMMA BigEndian16Bytes ==
    ASSUME NEW n \in Word
    PROVE  /\ BigEndian16(n) \in Seq(Byte) /\ Len(BigEndian16(n)) = 2
           /\ BigEndian16(n)[1] \in Byte /\ BigEndian16(n)[2] \in Byte
           /\ 256 * BigEndian16(n)[1] + BigEndian16(n)[2] = n
<1>1. n \div 256 \in Byte /\ n % 256 \in Byte /\ n = 256 * (n \div 256) + (n % 256)
  BY WordParts
<1> QED
  BY <1>1 DEF BigEndian16

\* A sequence that another follows.
Concatenates(c, s, t) ==
    /\ c \in Seq(Byte) /\ Len(c) = Len(s) + Len(t)
    /\ \A i \in 1..Len(s) : c[i] = s[i]
    /\ \A i \in 1..Len(t) : c[Len(s) + i] = t[i]

LEMMA Concatenated ==
    ASSUME NEW s \in Seq(Byte), NEW t \in Seq(Byte)
    PROVE  Concatenates(s \o t, s, t)
BY DEF Concatenates

LEMMA FirstPart ==
    ASSUME NEW s \in Seq(Byte), NEW t \in Seq(Byte)
    PROVE  SubSeq(s \o t, 1, Len(s)) = s
<1> DEFINE d == s \o t
<1>1. /\ d \in Seq(Byte) /\ Len(d) = Len(s) + Len(t)
      /\ \A i \in 1..Len(s) : d[i] = s[i]
  OBVIOUS
<1> HIDE DEF d
<1>2. Len(s) \in Nat /\ Len(t) \in Nat
  OBVIOUS
<1>3. SubSeq(d, 1, Len(s)) = [i \in 1..Len(s) |-> d[i]]
  BY <1>1, <1>2
<1>4. [i \in 1..Len(s) |-> d[i]] = [i \in 1..Len(s) |-> s[i]]
  BY <1>1
<1>5. [i \in 1..Len(s) |-> s[i]] = s
  OBVIOUS
<1> QED
  BY <1>3, <1>4, <1>5 DEF d

\* What has its CRC appended is verified, and is what it was before.
IsVerified(data, core) ==
    /\ data \in Seq(Byte) /\ Len(data) = Len(core) + 2
    /\ \A i \in 1..Len(core) : data[i] = core[i]
    /\ crc16_verify(data)

LEMMA AppendedIsVerified ==
    ASSUME NEW core \in Seq(Byte)
    PROVE  IsVerified(crc16_append(core), core)
<1> DEFINE n == crc16_compute(core)
           tail == BigEndian16(n)
           data == core \o tail
<1>1. n \in Word
  BY CrcMatches
<1> HIDE DEF n
<1>2. tail \in Seq(Byte) /\ Len(tail) = 2 /\ 256 * tail[1] + tail[2] = n
  BY <1>1, BigEndian16Bytes
<1> HIDE DEF tail
<1>3. /\ data \in Seq(Byte) /\ Len(data) = Len(core) + 2 /\ Len(core) \in Nat
      /\ \A i \in 1..Len(core) : data[i] = core[i]
      /\ data[Len(core) + 1] = tail[1] /\ data[Len(core) + 2] = tail[2]
  <2>1. 1 \in 1..Len(tail) /\ 2 \in 1..Len(tail) /\ Len(core) \in Nat
    BY <1>2
  <2>2. /\ data \in Seq(Byte) /\ Len(data) = Len(core) + Len(tail)
        /\ \A i \in 1..Len(core) : data[i] = core[i]
        /\ \A i \in 1..Len(tail) : data[Len(core) + i] = tail[i]
    BY <1>2, Concatenated DEF Concatenates
  <2> HIDE DEF data
  <2> QED
    BY <1>2, <2>1, <2>2
<1>4. SubSeq(data, 1, Len(core)) = core
  BY <1>2, FirstPart
<1>5. crc16_append(core) = data
  BY DEF crc16_append, tail, n
<1> HIDE DEF data
<1>6. crc16_verify(data)
  <2>1. Len(data) - 2 = Len(core) /\ Len(data) - 1 = Len(core) + 1 /\ Len(data) >= 2
    BY <1>3
  <2>2. Read16(data, Len(data) - 1) = n
    <3>1. Read16(data, Len(core) + 1) = 256 * data[Len(core) + 1] + data[(Len(core) + 1) + 1]
      BY DEF Read16
    <3>2. (Len(core) + 1) + 1 = Len(core) + 2
      BY <1>3
    <3> QED
      BY <1>2, <1>3, <2>1, <3>1, <3>2
  <2>3. crc16_compute(SubSeq(data, 1, Len(data) - 2)) = n
    BY <1>4, <2>1 DEF n
  <2> QED
    BY <2>1, <2>2, <2>3 DEF crc16_verify
<1> QED
  BY <1>3, <1>5, <1>6 DEF IsVerified

\* The first n bytes of t are those of s.
Starts(t, s, n) == \A j \in 1..n : t[j] = s[j]

LEMMA ReadInFirst ==
    ASSUME NEW n \in Nat, NEW s, NEW t, Starts(t, s, n), NEW i \in Nat \ {0}, i + 1 <= n
    PROVE  Read16(t, i) = Read16(s, i)
<1>1. i \in 1..n /\ i + 1 \in 1..n
  OBVIOUS
<1> QED
  BY <1>1 DEF Read16, Starts

WithWord(s, n) == s \o BigEndian16(n)

WordAppends(t, s, n) ==
    /\ t \in Seq(Byte) /\ Len(t) = Len(s) + 2
    /\ \A i \in 1..Len(s) : t[i] = s[i]
    /\ Read16(t, Len(s) + 1) = n

LEMMA WordAppended ==
    ASSUME NEW s \in Seq(Byte), NEW n \in Word
    PROVE  WordAppends(WithWord(s, n), s, n)
<1> DEFINE b == BigEndian16(n)
           t == s \o b
<1>1. b \in Seq(Byte) /\ Len(b) = 2 /\ 256 * b[1] + b[2] = n
  BY BigEndian16Bytes
<1>2. t = WithWord(s, n)
  BY DEF WithWord
<1> HIDE DEF b
<1>3. /\ t \in Seq(Byte) /\ Len(t) = Len(s) + Len(b)
      /\ \A i \in 1..Len(s) : t[i] = s[i]
      /\ \A i \in 1..Len(b) : t[Len(s) + i] = b[i]
  BY <1>1, Concatenated DEF Concatenates
<1> HIDE DEF t
<1>4. Len(s) \in Nat /\ 1 \in 1..Len(b) /\ 2 \in 1..Len(b)
  BY <1>1
<1>5. t[Len(s) + 1] = b[1] /\ t[(Len(s) + 1) + 1] = b[2]
  <2>1. (Len(s) + 1) + 1 = Len(s) + 2
    BY <1>4
  <2> QED
    BY <1>3, <1>4, <2>1
<1> QED
  BY <1>1, <1>2, <1>3, <1>5 DEF Read16, WordAppends

ByteAppends(t, s, c) ==
    /\ t \in Seq(Byte) /\ Len(t) = Len(s) + 1
    /\ \A i \in 1..Len(s) : t[i] = s[i]
    /\ t[Len(s) + 1] = c

LEMMA ByteAppended ==
    ASSUME NEW s \in Seq(Byte), NEW c \in Byte, NEW t, t = s \o <<c>>
    PROVE  ByteAppends(t, s, c)
<1>1. << c >> \in Seq(Byte) /\ Len(<< c >>) = 1 /\ << c >>[1] = c
  OBVIOUS
<1>2. /\ t \in Seq(Byte) /\ Len(t) = Len(s) + Len(<< c >>)
      /\ \A i \in 1..Len(s) : t[i] = s[i]
      /\ \A i \in 1..Len(<< c >>) : t[Len(s) + i] = << c >>[i]
  BY <1>1, Concatenated DEF Concatenates
<1>3. 1 \in 1..Len(<< c >>)
  BY <1>1
<1> QED
  BY <1>1, <1>2, <1>3 DEF ByteAppends

LEMMA TwoBytes ==
    ASSUME NEW c \in Byte, NEW d \in Byte
    PROVE  << c, d >> \in Seq(Byte) /\ Len(<< c, d >>) = 2
           /\ << c, d >>[1] = c /\ << c, d >>[2] = d
OBVIOUS

\* A fragment as send_fragment makes it.
IsData(f) ==
    /\ f = [type |-> "DATA", msg_id |-> f.msg_id, total_len |-> f.total_len,
            frag_idx |-> f.frag_idx, frag_cnt |-> f.frag_cnt, payload |-> f.payload]
    /\ f.msg_id \in Word /\ f.frag_idx \in Word /\ f.frag_cnt \in Word
    /\ f.total_len \in Nat /\ f.total_len \div 65536 \in Word
    /\ f.payload \in Seq(Byte) /\ Len(f.payload) <= MaxPayload

LEMMA HeaderReads ==
    ASSUME NEW f, IsData(f), NEW h, h = HeaderBytes(f)
    PROVE  /\ h \in Seq(Byte) /\ Len(h) = 13
           /\ h[1] = Version /\ h[2] = Types.DATA
           /\ Read16(h, 3) = f.msg_id
           /\ 65536 * Read16(h, 5) + Read16(h, 7) = f.total_len
           /\ Read16(h, 9) = f.frag_idx /\ Read16(h, 11) = f.frag_cnt
           /\ h[13] = Len(f.payload)
<1> DEFINE n1 == f.total_len \div 65536
           n2 == f.total_len % 65536
           l  == Len(f.payload)
           s0 == <<Version, Types.DATA>>
           s1 == WithWord(s0, f.msg_id)
           s2 == WithWord(s1, n1)
           s3 == WithWord(s2, n2)
           s4 == WithWord(s3, f.frag_idx)
           s5 == WithWord(s4, f.frag_cnt)
           s6 == s5 \o <<l>>
<1>0. f.msg_id \in Word /\ f.frag_idx \in Word /\ f.frag_cnt \in Word
  BY DEF IsData
<1>1. n1 \in Word /\ n2 \in Word /\ f.total_len = 65536 * n1 + n2
  <2>1. n2 \in Nat /\ n2 < 65536 /\ f.total_len = 65536 * n1 + n2
    BY DEF IsData
  <2> QED
    BY <2>1 DEF IsData, Word
<1>2. l \in Byte
  <2>1. MaxPayload \in Nat /\ MaxPayload <= 255
    BY FramesAssumption DEF FramesAssumption
  <2>2. l \in Nat /\ l <= MaxPayload
    BY DEF IsData
  <2> HIDE DEF l
  <2> QED
    BY <2>1, <2>2 DEF Byte
<1>3. BigEndian32(f.total_len) = BigEndian16(n1) \o BigEndian16(n2)
  BY DEF BigEndian32
<1> HIDE DEF n1, n2, l
<1>4. /\ s0 \in Seq(Byte) /\ Len(s0) = 2 /\ s0[1] = Version /\ s0[2] = Types.DATA
  <2>1. Version \in Byte /\ Types.DATA \in Byte
    BY DEF Version, Types, Byte
  <2> QED
    BY <2>1, TwoBytes
<1> HIDE DEF s0
<1>5. /\ s1 \in Seq(Byte) /\ Len(s1) = 4 /\ \A i \in 1..2 : s1[i] = s0[i]
      /\ Read16(s1, 3) = f.msg_id
  <2>1. WordAppends(s1, s0, f.msg_id)
    BY <1>0, <1>4, WordAppended
  <2> HIDE DEF s1
  <2> QED
    BY <1>4, <2>1 DEF WordAppends
<1> HIDE DEF s1
<1>6. /\ s2 \in Seq(Byte) /\ Len(s2) = 6 /\ \A i \in 1..4 : s2[i] = s1[i]
      /\ Read16(s2, 5) = n1
  <2>1. WordAppends(s2, s1, n1)
    BY <1>1, <1>5, WordAppended
  <2> HIDE DEF s2
  <2> QED
    BY <1>5, <2>1 DEF WordAppends
<1>7. s1 \o (BigEndian16(n1) \o BigEndian16(n2)) = s3
  <2>1. BigEndian16(n1) \in Seq(Byte) /\ BigEndian16(n2) \in Seq(Byte)
    BY <1>1, BigEndian16Bytes
  <2>2. s3 = (s1 \o BigEndian16(n1)) \o BigEndian16(n2)
    BY DEF WithWord
  <2>3. ASSUME NEW b \in Seq(Byte), NEW c \in Seq(Byte)
        PROVE  (s1 \o b) \o c = s1 \o (b \o c)
    BY <1>5, ConcatAssociative
  <2>4. (s1 \o BigEndian16(n1)) \o BigEndian16(n2) = s1 \o (BigEndian16(n1) \o BigEndian16(n2))
    BY <2>1, <2>3
  <2> QED
    BY <2>2, <2>4
<1> HIDE DEF s2
<1>8. /\ s3 \in Seq(Byte) /\ Len(s3) = 8 /\ \A i \in 1..6 : s3[i] = s2[i]
      /\ Read16(s3, 7) = n2
  <2>1. WordAppends(s3, s2, n2)
    BY <1>1, <1>6, WordAppended
  <2> HIDE DEF s3
  <2> QED
    BY <1>6, <2>1 DEF WordAppends
<1> HIDE DEF s3
<1>9. /\ s4 \in Seq(Byte) /\ Len(s4) = 10 /\ \A i \in 1..8 : s4[i] = s3[i]
      /\ Read16(s4, 9) = f.frag_idx
  <2>1. WordAppends(s4, s3, f.frag_idx)
    BY <1>0, <1>8, WordAppended
  <2> HIDE DEF s4
  <2> QED
    BY <1>8, <2>1 DEF WordAppends
<1> HIDE DEF s4
<1>10. /\ s5 \in Seq(Byte) /\ Len(s5) = 12 /\ \A i \in 1..10 : s5[i] = s4[i]
       /\ Read16(s5, 11) = f.frag_cnt
  <2>1. WordAppends(s5, s4, f.frag_cnt)
    BY <1>0, <1>9, WordAppended
  <2> HIDE DEF s5
  <2> QED
    BY <1>9, <2>1 DEF WordAppends
<1> HIDE DEF s5
<1>11. /\ s6 \in Seq(Byte) /\ Len(s6) = 13 /\ \A i \in 1..12 : s6[i] = s5[i]
       /\ s6[13] = l
  <2>1. ByteAppends(s6, s5, l)
    BY <1>2, <1>10, ByteAppended
  <2> HIDE DEF s6
  <2> QED
    BY <1>10, <2>1 DEF ByteAppends
<1>12. h = s6
  BY <1>3, <1>7 DEF HeaderBytes, WithWord, l, s5, s4, s1, s0
<1> HIDE DEF s6
<1>13. /\ Starts(h, s5, 12) /\ Starts(h, s4, 10) /\ Starts(h, s3, 8)
       /\ Starts(h, s2, 6) /\ Starts(h, s1, 4) /\ Starts(h, s0, 2)
  <2>1. Starts(h, s5, 12) /\ Starts(s5, s4, 10) /\ Starts(s4, s3, 8)
        /\ Starts(s3, s2, 6) /\ Starts(s2, s1, 4) /\ Starts(s1, s0, 2)
    BY <1>5, <1>6, <1>8, <1>9, <1>10, <1>11, <1>12 DEF Starts
  <2>2. ASSUME NEW m \in Nat, NEW n \in Nat, m <= n, NEW s, NEW t, NEW u,
               Starts(u, t, n), Starts(t, s, m)
        PROVE  Starts(u, s, m)
    <3>1. \A j \in 1..m : j \in 1..n
      BY <2>2
    <3> QED
      BY <2>2, <3>1 DEF Starts
  <2>3. Starts(h, s4, 10)
    BY <2>1, <2>2
  <2>4. Starts(h, s3, 8)
    BY <2>1, <2>2, <2>3
  <2>5. Starts(h, s2, 6)
    BY <2>1, <2>2, <2>4
  <2>6. Starts(h, s1, 4)
    BY <2>1, <2>2, <2>5
  <2>7. Starts(h, s0, 2)
    BY <2>1, <2>2, <2>6
  <2> QED
    BY <2>1, <2>3, <2>4, <2>5, <2>6, <2>7
<1>14. /\ Read16(h, 3) = f.msg_id /\ Read16(h, 5) = n1 /\ Read16(h, 7) = n2
       /\ Read16(h, 9) = f.frag_idx /\ Read16(h, 11) = f.frag_cnt
  <2>1. Read16(h, 3) = Read16(s1, 3)
    BY <1>13, ReadInFirst
  <2>2. Read16(h, 5) = Read16(s2, 5)
    BY <1>13, ReadInFirst
  <2>3. Read16(h, 7) = Read16(s3, 7)
    BY <1>13, ReadInFirst
  <2>4. Read16(h, 9) = Read16(s4, 9)
    BY <1>13, ReadInFirst
  <2>5. Read16(h, 11) = Read16(s5, 11)
    BY <1>13, ReadInFirst
  <2> QED
    BY <1>5, <1>6, <1>8, <1>9, <1>10, <2>1, <2>2, <2>3, <2>4, <2>5
<1>15. h[1] = Version /\ h[2] = Types.DATA
  BY <1>4, <1>13 DEF Starts
<1>16. h \in Seq(Byte) /\ Len(h) = 13 /\ h[13] = Len(f.payload)
  BY <1>11, <1>12 DEF l
<1> QED
  BY <1>1, <1>14, <1>15, <1>16

LEMMA MinOfTwo ==
    ASSUME NEW x \in Nat, NEW y \in Nat
    PROVE  Min({x, y}) \in Nat /\ Min({x, y}) = IF x <= y THEN x ELSE y
<1>1. {x, y} \in SUBSET Nat /\ {x, y} # {}
  OBVIOUS
<1>2. Min({x, y}) \in {x, y} /\ \A z \in {x, y} : Min({x, y}) <= z
  BY <1>1, MinIsLeast
<1> QED
  BY <1>2

Carries(d, s, t) ==
    /\ Starts(d, s, Len(s))
    /\ \A i \in 1..Len(t) : d[Len(s) + i] = t[i]
    /\ SubSeq(d, Len(s) + 1, Len(s) + Len(t)) = t

LEMMA PayloadAppended ==
    ASSUME NEW s \in Seq(Byte), NEW t \in Seq(Byte), NEW c, Concatenates(c, s, t),
           NEW d, IsVerified(d, c)
    PROVE  Carries(d, s, t)
<1> DEFINE m == Len(s)
           n == Len(t)
<1>1. m \in Nat /\ n \in Nat /\ Len(d) = m + n + 2 /\ d \in Seq(Byte)
      /\ \A i \in 1..(m + n) : d[i] = c[i]
  BY DEF Concatenates, IsVerified
<1>2. /\ \A i \in 1..m : c[i] = s[i]
      /\ \A i \in 1..n : c[m + i] = t[i]
  BY DEF Concatenates
<1>3. \A i \in 1..m : d[i] = s[i]
  <2>1. \A i \in 1..m : i \in 1..(m + n)
    BY <1>1
  <2> QED
    BY <1>1, <1>2, <2>1
<1>4. \A i \in 1..n : d[m + i] = t[i]
  <2>1. \A i \in 1..n : m + i \in 1..(m + n)
    BY <1>1
  <2> QED
    BY <1>1, <1>2, <2>1
<1> DEFINE u == SubSeq(d, m + 1, m + n)
<1>5. u = t
  <2>1. \A i \in (m + 1)..(m + n) : d[i] \in Byte
    <3>1. \A i \in (m + 1)..(m + n) : i \in 1..Len(d)
      BY <1>1
    <3> QED
      BY <1>1, <3>1
  <2>2. /\ u \in Seq(Byte)
        /\ Len(u) = IF m + 1 <= m + n THEN (m + n) - (m + 1) + 1 ELSE 0
        /\ \A i \in 1..((m + n) - (m + 1) + 1) : u[i] = d[(m + 1) + i - 1]
    <3>1. m + 1 \in Int /\ m + n \in Int
      BY <1>1
    <3> HIDE DEF m, n
    <3> QED
      BY <2>1, <3>1, SubSeqProperties
  <2> HIDE DEF u, m, n
  <2>3. Len(u) = n
    BY <1>1, <2>2
  <2>4. \A i \in 1..n : u[i] = t[i]
    <3> TAKE i \in 1..n
    <3>1. i \in 1..((m + n) - (m + 1) + 1) /\ (m + 1) + i - 1 = m + i
      BY <1>1
    <3> QED
      BY <1>4, <2>2, <3>1
  <2>5. u = [i \in 1..Len(u) |-> u[i]] /\ t = [i \in 1..n |-> t[i]]
    BY <2>2 DEF n
  <2>6. [i \in 1..n |-> u[i]] = [i \in 1..n |-> t[i]]
    BY <2>4
  <2> QED
    BY <2>3, <2>5, <2>6
<1> QED
  BY <1>3, <1>4, <1>5 DEF Starts, Carries

LEMMA DataReads ==
    ASSUME NEW f, IsData(f)
    PROVE  /\ Bytes(f) \in Seq(Byte) /\ crc16_verify(Bytes(f))
           /\ Len(Bytes(f)) >= 2 /\ Read(Bytes(f)) = f
<1> DEFINE h == HeaderBytes(f)
           l == Len(f.payload)
           core == h \o f.payload
           d == Bytes(f)
<1>1. /\ h \in Seq(Byte) /\ Len(h) = 13 /\ h[1] = Version /\ h[2] = Types.DATA
      /\ Read16(h, 3) = f.msg_id
      /\ 65536 * Read16(h, 5) + Read16(h, 7) = f.total_len
      /\ Read16(h, 9) = f.frag_idx /\ Read16(h, 11) = f.frag_cnt
      /\ h[13] = l
  BY HeaderReads
<1> HIDE DEF h
<1>2. f.payload \in Seq(Byte) /\ l \in Nat /\ l <= MaxPayload
  BY DEF IsData
<1>3. Concatenates(core, h, f.payload)
  BY <1>1, <1>2, Concatenated
<1>4. d = crc16_append(core)
  <2>1. f.type = "DATA"
    BY DEF IsData
  <2> QED
    BY <2>1 DEF Bytes, h
<1> HIDE DEF core
<1>5. IsVerified(d, core)
  <2>1. core \in Seq(Byte)
    BY <1>3 DEF Concatenates
  <2> HIDE DEF d
  <2> QED
    BY <1>4, <2>1, AppendedIsVerified
<1> HIDE DEF d
<1>6. /\ d \in Seq(Byte) /\ Len(d) = 15 + l /\ crc16_verify(d)
      /\ Starts(d, h, 13) /\ SubSeq(d, 13 + 1, 13 + l) = f.payload
  <2>0. Carries(d, h, f.payload)
    BY <1>1, <1>2, <1>3, <1>5, PayloadAppended
  <2>1. Starts(d, h, Len(h)) /\ SubSeq(d, Len(h) + 1, Len(h) + l) = f.payload
    BY <2>0 DEF Carries
  <2>2. d \in Seq(Byte) /\ Len(d) = (13 + l) + 2 /\ crc16_verify(d)
    BY <1>1, <1>3, <1>5 DEF IsVerified, Concatenates
  <2> QED
    BY <1>1, <1>2, <2>1, <2>2
<1>7. /\ Read16(d, 3) = Read16(h, 3) /\ Read16(d, 5) = Read16(h, 5)
      /\ Read16(d, 7) = Read16(h, 7) /\ Read16(d, 9) = Read16(h, 9)
      /\ Read16(d, 11) = Read16(h, 11)
  BY <1>6, ReadInFirst
<1>8. d[1] = Version /\ d[2] = Types.DATA /\ d[13] = l
  BY <1>1, <1>6 DEF Starts
<1>9. Read(d) = ReadData(d)
  <2>1. Len(d) >= 2
    BY <1>2, <1>6
  <2> QED
    BY <1>8, <2>1 DEF Read, Types
<1>10. ReadData(d) = f
  <2>1. Len(d) >= 13 + 2 /\ l <= Len(d) - 13 - 2
    BY <1>2, <1>6
  <2>2. ReadData(d) = [type |-> "DATA", msg_id |-> Read16(d, 3),
                       total_len |-> 65536 * Read16(d, 5) + Read16(d, 7),
                       frag_idx |-> Read16(d, 9), frag_cnt |-> Read16(d, 11),
                       payload |-> SubSeq(d, 13 + 1, 13 + l)]
    <3> HIDE DEF l
    <3> QED
      BY <1>2, <1>6, <1>8, <2>1 DEF ReadData, HeaderSize, CrcSize
  <2>3. f = [type |-> "DATA", msg_id |-> f.msg_id, total_len |-> f.total_len,
             frag_idx |-> f.frag_idx, frag_cnt |-> f.frag_cnt, payload |-> f.payload]
    BY DEF IsData
  <2> QED
    BY <1>1, <1>6, <1>7, <2>2, <2>3
<1>11. Len(d) >= 2
  BY <1>2, <1>6
<1> QED
  BY <1>6, <1>9, <1>10, <1>11 DEF d

LEMMA DoneReads ==
    ASSUME NEW id \in Word, NEW f, f = [type |-> "DONE", msg_id |-> id]
    PROVE  /\ Bytes(f) \in Seq(Byte) /\ crc16_verify(Bytes(f))
           /\ Len(Bytes(f)) >= 2 /\ Read(Bytes(f)) = f
<1> DEFINE s0 == <<Version, Types.DONE>>
           s1 == WithWord(s0, id)
           d  == Bytes(f)
<1>1. s0 \in Seq(Byte) /\ Len(s0) = 2 /\ s0[1] = Version /\ s0[2] = Types.DONE
  <2>1. Version \in Byte /\ Types.DONE \in Byte
    BY DEF Version, Types, Byte
  <2> QED
    BY <2>1, TwoBytes
<1>2. d = crc16_append(s1)
  BY DEF Bytes, WithWord
<1> HIDE DEF s0
<1>3. /\ s1 \in Seq(Byte) /\ Len(s1) = 4 /\ \A i \in 1..2 : s1[i] = s0[i]
      /\ Read16(s1, 3) = id
  <2>1. WordAppends(s1, s0, id)
    BY <1>1, WordAppended
  <2> HIDE DEF s1
  <2> QED
    BY <1>1, <2>1 DEF WordAppends
<1> HIDE DEF s1, d
<1>4. d \in Seq(Byte) /\ Len(d) = 6 /\ crc16_verify(d) /\ Starts(d, s1, 4)
  <2>1. IsVerified(d, s1)
    BY <1>2, <1>3, AppendedIsVerified
  <2> QED
    BY <1>3, <2>1 DEF IsVerified, Starts
<1>5. Read16(d, 3) = id /\ d[1] = Version /\ d[2] = Types.DONE
  <2>1. Read16(d, 3) = Read16(s1, 3)
    BY <1>4, ReadInFirst
  <2> QED
    BY <1>1, <1>3, <1>4, <2>1 DEF Starts
<1>6. Read(d) = ReadDone(d)
  BY <1>4, <1>5 DEF Read, Types
<1>7. ReadDone(d) = [type |-> "DONE", msg_id |-> id]
  BY <1>4, <1>5 DEF ReadDone
<1>8. /\ d \in Seq(Byte) /\ crc16_verify(d) /\ Len(d) >= 2
      /\ Read(d) = [type |-> "DONE", msg_id |-> id]
  BY <1>4, <1>6, <1>7
<1> QED
  BY <1>8 DEF d

LEMMA IndexBytesAre ==
    ASSUME NEW missing \in Seq(Word)
    PROVE  /\ IndexBytes(missing) \in Seq(Byte)
           /\ Len(IndexBytes(missing)) = 2 * Len(missing)
           /\ \A i \in 1..Len(missing) :
                 256 * IndexBytes(missing)[2 * i - 1] + IndexBytes(missing)[2 * i] = missing[i]
<1> DEFINE n == Len(missing)
           t == IndexBytes(missing)
<1>1. n \in Nat
  OBVIOUS
<1>2. t = [k \in 1..(2 * n) |-> BigEndian16(missing[(k + 1) \div 2])[2 - (k % 2)]]
  BY DEF IndexBytes
<1>3. ASSUME NEW k \in 1..(2 * n) PROVE t[k] \in Byte
  <2>1. (k + 1) \div 2 \in 1..n
    BY <1>1
  <2>2. missing[(k + 1) \div 2] \in Word
    BY <2>1
  <2>3. 2 - (k % 2) = 1 \/ 2 - (k % 2) = 2
    OBVIOUS
  <2> HIDE DEF t, n
  <2>4. /\ BigEndian16(missing[(k + 1) \div 2])[1] \in Byte
        /\ BigEndian16(missing[(k + 1) \div 2])[2] \in Byte
    BY <2>2, BigEndian16Bytes
  <2> QED
    BY <1>2, <2>3, <2>4
<1> HIDE DEF t
<1>4. t \in Seq(Byte) /\ Len(t) = 2 * n
  <2>1. t \in [1..(2 * n) -> Byte] /\ 2 * n \in Nat
    BY <1>1, <1>2, <1>3
  <2> HIDE DEF n
  <2> QED
    BY <2>1
<1>5. ASSUME NEW i \in 1..n PROVE 256 * t[2 * i - 1] + t[2 * i] = missing[i]
  <2>1. 2 * i - 1 \in 1..(2 * n) /\ 2 * i \in 1..(2 * n)
    BY <1>1
  <2>2. /\ ((2 * i - 1) + 1) \div 2 = i /\ (2 * i + 1) \div 2 = i
        /\ 2 - ((2 * i - 1) % 2) = 1 /\ 2 - ((2 * i) % 2) = 2
    BY <1>1
  <2>3. missing[i] \in Word
    OBVIOUS
  <2>4. t[2 * i - 1] = BigEndian16(missing[i])[1] /\ t[2 * i] = BigEndian16(missing[i])[2]
    <3> HIDE DEF n
    <3> QED
      BY <1>2, <2>1, <2>2
  <2> QED
    BY <2>3, <2>4, BigEndian16Bytes
<1> QED
  BY <1>4, <1>5 DEF t

LEMMA NackReads ==
    ASSUME NEW id \in Word, NEW missing \in Seq(Word), Len(missing) <= MaxNackIndices,
           NEW f, f = [type |-> "NACK", msg_id |-> id, missing |-> missing]
    PROVE  /\ Bytes(f) \in Seq(Byte) /\ crc16_verify(Bytes(f))
           /\ Len(Bytes(f)) >= 2 /\ Read(Bytes(f)) = f
<1> DEFINE n  == Len(missing)
           s0 == <<Version, Types.NACK>>
           s1 == WithWord(s0, id)
           s2 == s1 \o <<n>>
           t  == IndexBytes(missing)
           core == s2 \o t
           d  == Bytes(f)
<1>1. s0 \in Seq(Byte) /\ Len(s0) = 2 /\ s0[1] = Version /\ s0[2] = Types.NACK
  <2>1. Version \in Byte /\ Types.NACK \in Byte
    BY DEF Version, Types, Byte
  <2> QED
    BY <2>1, TwoBytes
<1>2. n \in Nat /\ n <= MaxNackIndices /\ n \in Byte /\ MaxNackIndices \in Nat
  <2>1. MaxNackIndices \in Nat /\ MaxNackIndices <= 255
    BY FramesAssumption DEF FramesAssumption
  <2>2. n \in Nat /\ n <= MaxNackIndices
    OBVIOUS
  <2> HIDE DEF n
  <2> QED
    BY <2>1, <2>2 DEF Byte
<1>3. d = crc16_append(core)
  <2>1. f.type = "NACK" /\ f.msg_id = id /\ f.missing = missing
    OBVIOUS
  <2> QED
    BY <2>1 DEF Bytes, WithWord
<1> HIDE DEF s0
<1>4. /\ s1 \in Seq(Byte) /\ Len(s1) = 4 /\ \A i \in 1..2 : s1[i] = s0[i]
      /\ Read16(s1, 3) = id
  <2>1. WordAppends(s1, s0, id)
    BY <1>1, WordAppended
  <2> HIDE DEF s1
  <2> QED
    BY <1>1, <2>1 DEF WordAppends
<1> HIDE DEF s1
<1>5. s2 \in Seq(Byte) /\ Len(s2) = 5 /\ \A i \in 1..4 : s2[i] = s1[i] /\ s2[5] = n
  <2>1. ByteAppends(s2, s1, n)
    BY <1>2, <1>4, ByteAppended
  <2> HIDE DEF s2, n
  <2> QED
    BY <1>4, <2>1 DEF ByteAppends
<1> HIDE DEF s2
<1>6. /\ t \in Seq(Byte) /\ Len(t) = 2 * n
      /\ \A i \in 1..n : 256 * t[2 * i - 1] + t[2 * i] = missing[i]
  BY IndexBytesAre
<1> HIDE DEF t, d
<1>7. Concatenates(core, s2, t)
  BY <1>5, <1>6, Concatenated
<1> HIDE DEF core, n
<1>8. IsVerified(d, core)
  <2>1. core \in Seq(Byte)
    BY <1>7 DEF Concatenates
  <2> QED
    BY <1>3, <2>1, AppendedIsVerified
<1>9. /\ d \in Seq(Byte) /\ Len(d) = 7 + 2 * n /\ crc16_verify(d)
      /\ Starts(d, s2, 5) /\ \A i \in 1..(2 * n) : d[5 + i] = t[i]
  <2>0. Carries(d, s2, t)
    BY <1>5, <1>6, <1>7, <1>8, PayloadAppended
  <2>1. Starts(d, s2, Len(s2)) /\ \A i \in 1..Len(t) : d[Len(s2) + i] = t[i]
    BY <2>0 DEF Carries
  <2>2. d \in Seq(Byte) /\ Len(d) = (5 + 2 * n) + 2 /\ crc16_verify(d)
    BY <1>5, <1>6, <1>7, <1>8 DEF IsVerified, Concatenates
  <2> QED
    BY <1>2, <1>5, <1>6, <2>1, <2>2
<1>10. Starts(d, s1, 4)
  <2>1. \A i \in 1..4 : i \in 1..5
    OBVIOUS
  <2> QED
    BY <1>5, <1>9, <2>1 DEF Starts
<1>11. Read16(d, 3) = id
  <2>1. Read16(d, 3) = Read16(s1, 3)
    BY <1>10, ReadInFirst
  <2> QED
    BY <1>4, <2>1
<1>12. d[1] = Version /\ d[2] = Types.NACK /\ d[5] = n
  BY <1>1, <1>4, <1>5, <1>9, <1>10 DEF Starts
<1>13. \A i \in 1..n : Read16(d, 4 + 2 * i) = missing[i]
  <2> TAKE i \in 1..n
  <2>1. /\ 2 * i - 1 \in 1..(2 * n) /\ 2 * i \in 1..(2 * n)
        /\ 4 + 2 * i = 5 + (2 * i - 1) /\ (4 + 2 * i) + 1 = 5 + 2 * i
    BY <1>2
  <2>2. d[4 + 2 * i] = t[2 * i - 1] /\ d[(4 + 2 * i) + 1] = t[2 * i]
    <3>1. d[5 + (2 * i - 1)] = t[2 * i - 1]
      BY <1>9, <2>1
    <3>2. d[5 + 2 * i] = t[2 * i]
      BY <1>9, <2>1
    <3> QED
      BY <2>1, <3>1, <3>2
  <2>3. Read16(d, 4 + 2 * i) = 256 * d[4 + 2 * i] + d[(4 + 2 * i) + 1]
    BY DEF Read16
  <2>4. 256 * t[2 * i - 1] + t[2 * i] = missing[i]
    BY <1>6
  <2> QED
    BY <2>2, <2>3, <2>4
<1>14. Read(d) = ReadNack(d)
  <2>1. Len(d) >= 2
    BY <1>2, <1>9
  <2> QED
    BY <1>12, <2>1 DEF Read, Types
<1>15. ReadNack(d) = f
  <2>1. Min({n, MaxNackIndices}) = n
    BY <1>2, MinOfTwo
  <2>2. Len(d) >= 7 /\ Len(d) >= 5 + 2 * n + 2
    BY <1>2, <1>9
  <2> HIDE DEF n
  <2>3. ReadNack(d) = [type |-> "NACK", msg_id |-> Read16(d, 3),
                       missing |-> [i \in 1..n |-> Read16(d, 4 + 2 * i)]]
    BY <1>9, <1>12, <2>1, <2>2 DEF ReadNack, CrcSize
  <2>4. [i \in 1..n |-> Read16(d, 4 + 2 * i)] = missing
    <3>1. missing = [i \in 1..n |-> missing[i]]
      BY DEF n
    <3> QED
      BY <1>13, <3>1
  <2> QED
    BY <1>11, <2>3, <2>4
<1>16. Len(d) >= 2
  BY <1>2, <1>9
<1> QED
  BY <1>9, <1>14, <1>15, <1>16 DEF d

-----------------------------------------------------------------------------
(* Damage. *)

LEMMA PolynomialInjective ==
    ASSUME NEW a \in Word, NEW b \in Word, Polynomial(a) = Polynomial(b)
    PROVE  a = b
<1> DEFINE ah == a \div 256
           al == a % 256
           bh == b \div 256
           bl == b % 256
<1>1. /\ ah \in Byte /\ al \in Byte /\ bh \in Byte /\ bl \in Byte
      /\ a = 256 * ah + al /\ b = 256 * bh + bl /\ a \in Nat /\ b \in Nat
  BY WordParts
<1> HIDE DEF ah, al, bh, bl
<1>2. \A e \in 0..15 : Bit(a, e) = Bit(b, e)
  <2> TAKE e \in 0..15
  <2>1. IsBit(Bit(a, e)) /\ IsBit(Bit(b, e))
    BY <1>1, BitIsBit
  <2>2. Bit(a, e) = 1 <=> Bit(b, e) = 1
    <3>1. Bit(a, e) = 1 <=> e \in Polynomial(a)
      BY DEF Polynomial
    <3>2. Bit(b, e) = 1 <=> e \in Polynomial(b)
      BY DEF Polynomial
    <3> QED
      BY <3>1, <3>2
  <2> QED
    BY <2>1, <2>2 DEF IsBit
<1>3. /\ \A e \in 0..7 : Bit(al, e) = Bit(a, e) /\ Bit(ah, e) = Bit(a, e + 8)
      /\ \A e \in 0..7 : Bit(bl, e) = Bit(b, e) /\ Bit(bh, e) = Bit(b, e + 8)
  BY <1>1, HighBits
<1>4. \A e \in 0..7 : Bit(al, e) = Bit(bl, e) /\ Bit(ah, e) = Bit(bh, e)
  <2> TAKE e \in 0..7
  <2>1. e \in 0..15 /\ e + 8 \in 0..15
    OBVIOUS
  <2> QED
    BY <1>2, <1>3, <2>1
<1>5. ASSUME NEW x \in Byte, NEW y \in Byte, \A e \in 0..7 : Bit(x, e) = Bit(y, e)
      PROVE  x = y
  <2>1. /\ Bit(x, 0) = Bit(y, 0) /\ Bit(x, 1) = Bit(y, 1) /\ Bit(x, 2) = Bit(y, 2)
        /\ Bit(x, 3) = Bit(y, 3) /\ Bit(x, 4) = Bit(y, 4) /\ Bit(x, 5) = Bit(y, 5)
        /\ Bit(x, 6) = Bit(y, 6) /\ Bit(x, 7) = Bit(y, 7)
    BY <1>5
  <2>2. x = 1 * Bit(x, 0) + 2 * Bit(x, 1) + 4 * Bit(x, 2) + 8 * Bit(x, 3)
              + 16 * Bit(x, 4) + 32 * Bit(x, 5) + 64 * Bit(x, 6) + 128 * Bit(x, 7)
    BY ByteBits
  <2>3. y = 1 * Bit(y, 0) + 2 * Bit(y, 1) + 4 * Bit(y, 2) + 8 * Bit(y, 3)
              + 16 * Bit(y, 4) + 32 * Bit(y, 5) + 64 * Bit(y, 6) + 128 * Bit(y, 7)
    BY ByteBits
  <2> QED
    BY <2>1, <2>2, <2>3
<1>6. al = bl /\ ah = bh
  BY <1>1, <1>4, <1>5
<1> QED
  BY <1>1, <1>6

LEMMA ZeroPolynomial == 0 \in Byte /\ 0 \in Word /\ Polynomial(0) = {}
<1>1. \A m \in Nat \ {0} : (0 \div m) % 2 = 0
  OBVIOUS
<1>2. \A e \in 0..15 : Power[e + 1] \in Nat \ {0}
  BY DEF Power
<1>3. \A e \in 0..15 : Bit(0, e) = 0
  BY <1>1, <1>2 DEF Bit
<1> QED
  BY <1>3 DEF Polynomial, Byte, Word

LEMMA ByteIsWord == ASSUME NEW n \in Byte PROVE n \in Word
BY DEF Byte, Word

\* Nothing but zero is taken to zero.
LEMMA TimesXZero ==
    ASSUME NEW p \in Poly, TimesX(p) = {}
    PROVE  p = {}
<1>1. \A e \in 0..15 : e - 1 \in p <=> (15 \in p /\ e \in {0, 5, 12})
  BY TimesXMember
<1>2. 15 \notin p
  <2>1. 0 - 1 \notin p
    BY DEF Poly
  <2>2. 0 \in 0..15
    OBVIOUS
  <2> QED
    BY <1>1, <2>1, <2>2
<1>3. ASSUME NEW d \in 0..14 PROVE d \notin p
  <2>1. d + 1 \in 0..15 /\ (d + 1) - 1 = d
    OBVIOUS
  <2> QED
    BY <1>1, <1>2, <2>1
<1>4. \A d \in 0..15 : d = 15 \/ d \in 0..14
  OBVIOUS
<1> QED
  BY <1>2, <1>3, <1>4 DEF Poly

LEMMA TimesX8Zero ==
    ASSUME NEW p \in Poly, TimesX8(p) = {}
    PROVE  p = {}
<1> DEFINE p1 == TimesX(p)
           p2 == TimesX(p1)
           p3 == TimesX(p2)
           p4 == TimesX(p3)
           p5 == TimesX(p4)
           p6 == TimesX(p5)
           p7 == TimesX(p6)
<1>1. p1 \in Poly /\ p2 \in Poly /\ p3 \in Poly /\ p4 \in Poly
      /\ p5 \in Poly /\ p6 \in Poly /\ p7 \in Poly
  BY TimesXMember
<1>2. TimesX(p7) = {}
  BY DEF TimesX8
<1>3. p7 = {}
  <2> HIDE DEF p7
  <2> QED
    BY <1>1, <1>2, TimesXZero
<1>4. p6 = {}
  BY <1>1, <1>3, TimesXZero
<1>5. p5 = {}
  BY <1>1, <1>4, TimesXZero
<1>6. p4 = {}
  BY <1>1, <1>5, TimesXZero
<1>7. p3 = {}
  BY <1>1, <1>6, TimesXZero
<1>8. p2 = {}
  BY <1>1, <1>7, TimesXZero
<1>9. p1 = {}
  BY <1>1, <1>8, TimesXZero
<1> QED
  BY <1>9, TimesXZero

\* Two bytes take the remainder as far as a word of them does.
LEMMA TwoMore ==
    ASSUME NEW r \in Poly, NEW c \in Byte, NEW d \in Byte
    PROVE  NextRest(NextRest(r, c), d) = TimesX8(TimesX8(Plus(r, Polynomial(256 * c + d))))
<1> DEFINE rc == Raised(Polynomial(c))
           pd == Polynomial(d)
           q  == Plus(r, rc)
<1>1. Polynomial(c) \in LowPoly /\ pd \in LowPoly
  BY PolynomialOfByte
<1>2. rc \in Poly /\ pd \in Poly /\ \A e \in pd : e \notin rc
  BY <1>1 DEF Raised, Poly, LowPoly
<1>3. Polynomial(256 * c + d) = pd \cup rc
  BY PolynomialOfWord
<1>4. Raised(pd) = TimesX8(pd)
  BY <1>1, TimesX8Low
<1>5. NextRest(NextRest(r, c), d) = TimesX8(Plus(TimesX8(q), TimesX8(pd)))
  BY <1>4 DEF NextRest
<1> HIDE DEF rc, pd
<1>6. q \in Poly
  BY <1>2, PlusPoly
<1>7. Plus(q, pd) = Plus(r, Polynomial(256 * c + d))
  BY <1>2, <1>3 DEF Plus
<1> HIDE DEF q
<1>8. TimesX8(Plus(q, pd)) = Plus(TimesX8(q), TimesX8(pd))
  BY <1>2, <1>6, TimesX8Plus
<1> QED
  BY <1>5, <1>7, <1>8

\* What is verified leaves no remainder.
LEMMA VerifiedIsZero ==
    ASSUME NEW data \in Seq(Byte), crc16_verify(data)
    PROVE  Remainder(data) = {}
<1> DEFINE n == Len(data)
           core == SubSeq(data, 1, n - 2)
           c == data[n - 1]
           d == data[n]
<1>1. n \in Nat /\ n >= 2 /\ \A i \in 1..n : data[i] \in Byte
  BY DEF crc16_verify
<1>2. crc16_compute(core) = 256 * c + d
  <2>1. (n - 1) + 1 = n
    BY <1>1
  <2> QED
    BY <2>1 DEF crc16_verify, Read16
<1>3. core \in Seq(Byte) /\ Len(core) = n - 2 /\ \A i \in 1..(n - 2) : core[i] = data[i]
  <2>1. \A i \in 1..(n - 2) : data[i] \in Byte
    BY <1>1
  <2>2. /\ core \in Seq(Byte)
        /\ Len(core) = IF 1 <= n - 2 THEN (n - 2) - 1 + 1 ELSE 0
        /\ \A i \in 1..((n - 2) - 1 + 1) : core[i] = data[1 + i - 1]
    <3>1. 1 \in Int /\ n - 2 \in Int
      BY <1>1
    <3> HIDE DEF n
    <3> QED
      BY <2>1, <3>1, SubSeqProperties
  <2> HIDE DEF core, n
  <2>3. Len(core) = n - 2
    BY <1>1, <2>2
  <2>4. \A i \in 1..(n - 2) : i \in 1..((n - 2) - 1 + 1) /\ 1 + i - 1 = i
    BY <1>1
  <2> QED
    BY <2>2, <2>3, <2>4
<1> HIDE DEF core
<1>4. c \in Byte /\ d \in Byte
  BY <1>1
<1> HIDE DEF c, d
<1>5. PICK f \in [0..n -> Poly] :
         /\ f[0] = 0..15
         /\ \A i \in 1..n : f[i] = NextRest(f[i - 1], data[i])
         /\ Remainder(data) = f[n]
  BY RemainderUnfolds
<1>6. PICK h \in [0..Len(core) -> Poly] :
         /\ h[0] = 0..15
         /\ \A i \in 1..Len(core) : h[i] = NextRest(h[i - 1], core[i])
         /\ Remainder(core) = h[Len(core)]
  BY <1>3, RemainderUnfolds
<1> HIDE DEF n
<1> DEFINE S == {k \in Nat : k <= n - 2 => f[k] = h[k]}
<1>7. 0 \in S
  BY <1>5, <1>6
<1>8. ASSUME NEW k \in Nat, k \in S PROVE k + 1 \in S
  <2>1. ASSUME k + 1 <= n - 2 PROVE f[k + 1] = h[k + 1]
    <3>1. k + 1 \in 1..n /\ k + 1 \in 1..(n - 2) /\ (k + 1) - 1 = k /\ k <= n - 2
      BY <1>1, <2>1
    <3>2. f[k + 1] = NextRest(f[(k + 1) - 1], data[k + 1])
      BY <1>5, <3>1
    <3>3. h[k + 1] = NextRest(h[(k + 1) - 1], core[k + 1])
      BY <1>3, <1>6, <3>1
    <3>4. f[k] = h[k] /\ core[k + 1] = data[k + 1]
      BY <1>3, <1>8, <3>1
    <3> QED
      BY <3>1, <3>2, <3>3, <3>4
  <2> QED
    BY <2>1
<1>9. \A k \in Nat : k \in S
  <2> HIDE DEF S
  <2> QED
    BY <1>7, <1>8, Induction
<1> DEFINE r == f[n - 2]
<1>10. r \in Poly /\ r = Polynomial(256 * c + d)
  <2>1. n - 2 \in Nat /\ n - 2 \in 0..n
    BY <1>1
  <2>2. f[n - 2] = h[n - 2]
    BY <1>9, <2>1
  <2>3. Polynomial(crc16_compute(core)) = Remainder(core)
    BY <1>3, CrcMatches
  <2> QED
    BY <1>2, <1>3, <1>5, <1>6, <2>1, <2>2, <2>3
<1>11. f[n] = NextRest(NextRest(r, c), d)
  <2>1. n \in 1..n /\ n - 1 \in 1..n /\ (n - 1) - 1 = n - 2
    BY <1>1
  <2>2. f[n] = NextRest(f[n - 1], data[n])
    BY <1>5, <2>1
  <2>3. f[n - 1] = NextRest(f[(n - 1) - 1], data[n - 1])
    BY <1>5, <2>1
  <2> QED
    BY <2>1, <2>2, <2>3 DEF c, d
<1> HIDE DEF r
<1>12. Plus(r, Polynomial(256 * c + d)) = {}
  BY <1>10 DEF Plus
<1>13. TimesX8({}) = {}
  <2>1. {} \in LowPoly /\ Raised({}) = {}
    BY DEF LowPoly, Raised
  <2> QED
    BY <2>1, TimesX8Low
<1>14. NextRest(NextRest(r, c), d) = {}
  BY <1>4, <1>10, <1>12, <1>13, TwoMore
<1> QED
  BY <1>5, <1>11, <1>14

\* The n bytes of other are those of data with the bits of c inverted.
Differs(other, data, c, n) ==
    \A k \in 1..n : Polynomial(other[k]) = Plus(Polynomial(data[k]), Polynomial(c[k]))

\* A loop of the reference over the n bytes of c that begins and ends with
\* nothing.
IsClosed(D, c, n) ==
    /\ D \in [0..n -> Poly] /\ D[0] = {} /\ D[n] = {}
    /\ \A k \in 1..n : D[k] = NextRest(D[k - 1], c[k])

\* The remainders of two sequences of the same length differ by the remainder
\* of c, how they differ.
LEMMA DifferenceLoop ==
    ASSUME NEW data \in Seq(Byte), NEW other \in Seq(Byte), NEW n, n = Len(data),
           Len(other) = n, NEW c \in [1..n -> Byte], Differs(other, data, c, n),
           Remainder(data) = {}, Remainder(other) = {}
    PROVE  \E D : IsClosed(D, c, n)
<1>1. /\ n \in Nat /\ \A k \in 1..n : data[k] \in Byte /\ other[k] \in Byte
      /\ \A k \in 1..n : Polynomial(other[k]) = Plus(Polynomial(data[k]), Polynomial(c[k]))
  BY DEF Differs
<1>2. PICK f \in [0..n -> Poly] :
         /\ f[0] = 0..15
         /\ \A k \in 1..n : f[k] = NextRest(f[k - 1], data[k])
         /\ Remainder(data) = f[n]
  BY RemainderUnfolds
<1>3. PICK h \in [0..n -> Poly] :
         /\ h[0] = 0..15
         /\ \A k \in 1..n : h[k] = NextRest(h[k - 1], other[k])
         /\ Remainder(other) = h[n]
  BY RemainderUnfolds
<1> DEFINE D == [k \in 0..n |-> Plus(f[k], h[k])]
<1>4. D \in [0..n -> Poly]
  <2>1. \A k \in 0..n : Plus(f[k], h[k]) \in Poly
    BY <1>2, <1>3, PlusPoly
  <2> QED
    BY <2>1
<1>5. D[0] = {} /\ D[n] = {}
  BY <1>1, <1>2, <1>3 DEF Plus
<1>6. \A k \in 1..n : D[k] = NextRest(D[k - 1], c[k])
  <2> TAKE k \in 1..n
  <2> DEFINE p == f[k - 1]
             q == h[k - 1]
             a == Raised(Polynomial(data[k]))
             b == Raised(Polynomial(other[k]))
             e == Raised(Polynomial(c[k]))
  <2>1. k \in 0..n /\ k - 1 \in 0..n
    BY <1>1
  <2>2. p \in Poly /\ q \in Poly /\ D[k - 1] = Plus(p, q) /\ D[k] = Plus(f[k], h[k])
    BY <1>2, <1>3, <2>1
  <2>3. /\ Polynomial(data[k]) \in LowPoly /\ Polynomial(other[k]) \in LowPoly
        /\ Polynomial(c[k]) \in LowPoly
    BY <1>1, PolynomialOfByte
  <2>4. a \in Poly /\ b \in Poly /\ e \in Poly
    BY <2>3, RaisedPoly
  <2>5. b = Plus(a, e)
    <3>1. Polynomial(data[k]) \in Poly /\ Polynomial(c[k]) \in Poly
      BY DEF Polynomial, Poly
    <3> QED
      BY <1>1, <3>1, RaisedPlus
  <2>6. f[k] = TimesX8(Plus(p, a)) /\ h[k] = TimesX8(Plus(q, b))
    BY <1>2, <1>3 DEF NextRest
  <2>7. NextRest(D[k - 1], c[k]) = TimesX8(Plus(Plus(p, q), e))
    BY <2>2 DEF NextRest
  <2> HIDE DEF p, q, a, b, e, D
  <2>8. Plus(p, a) \in Poly /\ Plus(q, b) \in Poly
    BY <2>2, <2>4, PlusPoly
  <2>9. TimesX8(Plus(Plus(p, a), Plus(q, b))) = Plus(f[k], h[k])
    BY <2>6, <2>8, TimesX8Plus
  <2>10. Plus(Plus(p, a), Plus(q, b)) = Plus(Plus(p, q), e)
    BY <2>5 DEF Plus
  <2> QED
    BY <2>2, <2>7, <2>9, <2>10
<1> QED
  BY <1>4, <1>5, <1>6 DEF IsClosed

\* A byte that does not differ.
LEMMA NextRestOfZero ==
    ASSUME NEW r \in Poly
    PROVE  NextRest(r, 0) = {} <=> r = {}
<1>1. NextRest(r, 0) = TimesX8(r)
  <2>1. Raised(Polynomial(0)) = {}
    BY ZeroPolynomial DEF Raised
  <2>2. Plus(r, {}) = r
    BY DEF Plus
  <2> QED
    BY <2>1, <2>2 DEF NextRest
<1>2. {} \in LowPoly /\ Raised({}) = {}
  BY DEF LowPoly, Raised
<1>3. TimesX8({}) = {}
  BY <1>2, TimesX8Low
<1> QED
  BY <1>1, <1>3, TimesX8Zero

-----------------------------------------------------------------------------
(* A burst. *)

\* What three bytes leave, the number m they make.
Rest(m) == Plus(TimesX8(Raised(Polynomial(m \div 65536))), Polynomial(m % 65536))

LEMMA RestDoubles ==
    ASSUME NEW m \in Nat, m < 8388608
    PROVE  Rest(2 * m) = TimesX(Rest(m))
<1> DEFINE u == m \div 65536
           n == m % 65536
           R(k) == TimesX8(Raised(Polynomial(k)))
           G == {0, 5, 12}
<1>1. u \in Nat /\ u <= 127 /\ n \in Nat /\ n < 65536 /\ m = 65536 * u + n
  OBVIOUS
<1> HIDE DEF u, n
<1>2. n \in Word /\ u \in Byte /\ 2 * u \in Byte /\ 2 * u + 1 \in Byte
  BY <1>1 DEF Word, Byte
<1>3. /\ Polynomial(n) \in Poly /\ R(u) \in Poly /\ R(2 * u) \in Poly
  <2>1. Polynomial(u) \in LowPoly /\ Polynomial(2 * u) \in LowPoly
    BY <1>2, PolynomialOfByte
  <2>2. Polynomial(n) \in Poly
    BY DEF Polynomial, Poly
  <2> QED
    BY <2>1, <2>2, RaisedPoly, TimesX8Poly
<1>4. R(2 * u) = TimesX(R(u)) /\ R(2 * u + 1) = Plus(R(2 * u), G)
  <2> DEFINE T == crc16_table
  <2>1. \A k \in Byte : T[k + 1] \in Word /\ Polynomial(T[k + 1]) = R(k)
    BY TableRight
  <2>2. T[2 * u + 1] = Shifted(T[u + 1]) /\ T[(2 * u + 1) + 1] = Inverted(T[2 * u + 1])
    <3> HIDE DEF T
    <3>1. T = crc16_table
      BY DEF T
    <3>2. \A i \in 1..128, j \in 1..256, k \in 1..256 :
             j = 2 * i - 1 /\ k = 2 * i => T[j] = Shifted(T[i]) /\ T[k] = Inverted(T[j])
      BY <3>1, TableRows
    <3>3. /\ u + 1 \in 1..128 /\ 2 * u + 1 \in 1..256 /\ (2 * u + 1) + 1 \in 1..256
          /\ 2 * u + 1 = 2 * (u + 1) - 1 /\ (2 * u + 1) + 1 = 2 * (u + 1)
      BY <1>1
    <3> QED
      BY <3>2, <3>3
  <2> HIDE DEF T, R
  <2>3. Polynomial(Shifted(T[u + 1])) = TimesX(R(u))
    BY <1>2, <2>1, ShiftedPolynomial
  <2>4. Polynomial(Inverted(T[2 * u + 1])) = Plus(R(2 * u), G)
    BY <1>2, <2>1, InvertedPolynomial
  <2> QED
    BY <1>2, <2>1, <2>2, <2>3, <2>4
<1>5. TimesX(Rest(m)) = Plus(R(2 * u), TimesX(Polynomial(n)))
  <2>1. Rest(m) = Plus(R(u), Polynomial(n))
    BY DEF Rest, u, n
  <2> HIDE DEF R
  <2> QED
    BY <1>3, <1>4, <2>1, TimesXPlus
<1>6. TimesX(Polynomial(n)) = Polynomial(Shifted(n))
  BY <1>2, ShiftedPolynomial
<1>7. CASE n < 32768
  <2>1. (2 * m) \div 65536 = 2 * u /\ (2 * m) % 65536 = 2 * n
    BY <1>1, <1>7
  <2>2. Shifted(n) = 2 * n
    BY <1>7 DEF Shifted
  <2>3. Rest(2 * m) = Plus(R(2 * u), Polynomial(2 * n))
    BY <2>1 DEF Rest
  <2> QED
    BY <1>5, <1>6, <2>2, <2>3
<1>8. CASE n >= 32768
  <2> DEFINE d == 2 * (n - 32768)
  <2>1. (2 * m) \div 65536 = 2 * u + 1 /\ (2 * m) % 65536 = d
    BY <1>1, <1>8
  <2>2. d \in Word
    BY <1>1, <1>8 DEF Word
  <2>3. Shifted(n) = Inverted(d)
    BY <1>1, <1>8 DEF Shifted
  <2>4. Rest(2 * m) = Plus(R(2 * u + 1), Polynomial(d))
    BY <2>1 DEF Rest
  <2> HIDE DEF d, R, G
  <2>5. Polynomial(Inverted(d)) = Plus(Polynomial(d), G)
    BY <2>2, InvertedPolynomial DEF G
  <2>6. Plus(Plus(R(2 * u), G), Polynomial(d)) = Plus(R(2 * u), Plus(Polynomial(d), G))
    BY DEF Plus
  <2> QED
    BY <1>4, <1>5, <1>6, <2>3, <2>4, <2>5, <2>6
<1> QED
  BY <1>1, <1>7, <1>8

LEMMA RestPoly == ASSUME NEW m \in Nat, m < 16777216 PROVE Rest(m) \in Poly
<1> DEFINE u == m \div 65536
<1>1. u \in Byte
  BY DEF Byte
<1>2. Polynomial(m % 65536) \in Poly /\ Polynomial(u) \in LowPoly
  BY <1>1, PolynomialOfByte DEF Polynomial, Poly
<1> HIDE DEF u
<1>3. TimesX8(Raised(Polynomial(u))) \in Poly
  BY <1>2, RaisedPoly, TimesX8Poly
<1> QED
  BY <1>2, <1>3, PlusPoly DEF Rest, u

\* Sixteen bits that begin at any bit of a byte leave something.
LEMMA BurstRest ==
    ASSUME NEW burst \in Word \ {0}, NEW at \in Nat
    PROVE  /\ burst * Power[9 - (at % 8)] \in Nat
           /\ burst * Power[9 - (at % 8)] < 16777216
           /\ Rest(burst * Power[9 - (at % 8)]) # {}
<1>1. burst \in Nat /\ burst > 0 /\ burst < 65536
  BY DEF Word
<1>2. Rest(burst) # {}
  <2>1. burst \div 65536 = 0 /\ burst % 65536 = burst
    BY <1>1
  <2>2. Rest(burst) = Polynomial(burst)
    <3>1. {} \in LowPoly /\ Raised({}) = {}
      BY DEF LowPoly, Raised
    <3>2. TimesX8(Raised(Polynomial(0))) = {}
      BY <3>1, ZeroPolynomial, TimesX8Low
    <3> QED
      BY <2>1, <3>2 DEF Rest, Plus
  <2>3. Polynomial(burst) # {}
    BY ZeroPolynomial, PolynomialInjective
  <2> QED
    BY <2>2, <2>3
<1>3. ASSUME NEW m \in Nat, m < 8388608, Rest(m) # {}
      PROVE  2 * m \in Nat /\ Rest(2 * m) # {}
  <2>1. Rest(2 * m) = TimesX(Rest(m)) /\ Rest(m) \in Poly
    BY <1>3, RestDoubles, RestPoly
  <2> QED
    BY <1>3, <2>1, TimesXZero
<1> DEFINE b1 == 2 * burst
           b2 == 2 * b1
           b3 == 2 * b2
           b4 == 2 * b3
           b5 == 2 * b4
           b6 == 2 * b5
           b7 == 2 * b6
           b8 == 2 * b7
<1>4. /\ b1 = burst * 2 /\ b2 = burst * 4 /\ b3 = burst * 8 /\ b4 = burst * 16
      /\ b5 = burst * 32 /\ b6 = burst * 64 /\ b7 = burst * 128 /\ b8 = burst * 256
      /\ b1 \in Nat /\ b2 \in Nat /\ b3 \in Nat /\ b4 \in Nat
      /\ b5 \in Nat /\ b6 \in Nat /\ b7 \in Nat /\ b8 \in Nat
      /\ b1 < 8388608 /\ b2 < 8388608 /\ b3 < 8388608 /\ b4 < 8388608
      /\ b5 < 8388608 /\ b6 < 8388608 /\ b7 < 8388608 /\ b8 < 16777216
  BY <1>1
<1>5. Rest(b1) # {}
  BY <1>1, <1>2, <1>3
<1> HIDE DEF b1
<1>6. Rest(b2) # {}
  BY <1>3, <1>4, <1>5
<1> HIDE DEF b2
<1>7. Rest(b3) # {}
  BY <1>3, <1>4, <1>6
<1> HIDE DEF b3
<1>8. Rest(b4) # {}
  BY <1>3, <1>4, <1>7
<1> HIDE DEF b4
<1>9. Rest(b5) # {}
  BY <1>3, <1>4, <1>8
<1> HIDE DEF b5
<1>10. Rest(b6) # {}
  BY <1>3, <1>4, <1>9
<1> HIDE DEF b6
<1>11. Rest(b7) # {}
  BY <1>3, <1>4, <1>10
<1> HIDE DEF b7
<1>12. Rest(b8) # {}
  BY <1>3, <1>4, <1>11
<1> HIDE DEF b8
<1> DEFINE w == Power[9 - (at % 8)]
<1>13. \/ w = 2 \/ w = 4 \/ w = 8 \/ w = 16 \/ w = 32 \/ w = 64 \/ w = 128 \/ w = 256
  <2>1. 9 - (at % 8) \in 2..9
    OBVIOUS
  <2>2. \A k \in 2..9 : Power[k] \in {2, 4, 8, 16, 32, 64, 128, 256}
    BY DEF Power
  <2>3. w \in {2, 4, 8, 16, 32, 64, 128, 256}
    BY <2>1, <2>2
  <2> QED
    BY <2>3
<1> HIDE DEF w
<1>14. \E b \in {b1, b2, b3, b4, b5, b6, b7, b8} : burst * w = b
  BY <1>4, <1>13
<1>15. \A b \in {b1, b2, b3, b4, b5, b6, b7, b8} :
          b \in Nat /\ b < 16777216 /\ Rest(b) # {}
  BY <1>4, <1>5, <1>6, <1>7, <1>8, <1>9, <1>10, <1>11, <1>12
<1>16. burst * w \in Nat /\ burst * w < 16777216 /\ Rest(burst * w) # {}
  BY <1>14, <1>15
<1> QED
  BY <1>16 DEF w

\* The n bytes of c are zero, all of them or but the three from j on.
IsZero(c, n) == \A k \in 1..n : c[k] = 0
ZeroBut(c, n, j) == \A k \in 1..n : ~(k - j \in 0..2) => c[k] = 0

\* All three are there and leave nothing.
LeavesNothing(c, n, j) ==
    j + 2 <= n /\ Rest(65536 * c[j] + (256 * c[j + 1] + c[j + 2])) = {}

\* Where a loop over c, all of it zero outside j..j+2, comes back to nothing:
\* c is nothing there, or all three are there and leave nothing.
LEMMA ThreeBytes ==
    ASSUME NEW n \in Nat, NEW c \in [1..n -> Byte], NEW j \in 1..n,
           ZeroBut(c, n, j), NEW D, IsClosed(D, c, n)
    PROVE  IsZero(c, n) \/ LeavesNothing(c, n, j)
<1> USE DEF ZeroBut, IsZero, IsClosed
<1>1. {} \in Poly
  BY DEF Poly
<1>2. \A k \in Nat : k < j => D[k] = {}
  <2> DEFINE S == {k \in Nat : k < j => D[k] = {}}
  <2>1. 0 \in S
    OBVIOUS
  <2>2. ASSUME NEW k \in Nat, k \in S PROVE k + 1 \in S
    <3>1. ASSUME k + 1 < j PROVE D[k + 1] = {}
      <4>1. k + 1 \in 1..n /\ (k + 1) - 1 = k /\ k < j /\ ~((k + 1) - j \in 0..2)
        BY <3>1
      <4>2. D[k + 1] = NextRest(D[(k + 1) - 1], c[k + 1]) /\ c[k + 1] = 0
        BY <4>1
      <4> QED
        BY <1>1, <2>2, <4>1, <4>2, NextRestOfZero
    <3> QED
      BY <3>1
  <2> HIDE DEF S
  <2>3. \A k \in Nat : k \in S
    BY <2>1, <2>2, Induction
  <2> QED
    BY <2>3 DEF S
<1>3. \A m \in Nat : n - m >= j + 2 => D[n - m] = {}
  <2> DEFINE S == {m \in Nat : n - m >= j + 2 => D[n - m] = {}}
  <2>1. 0 \in S
    OBVIOUS
  <2>2. ASSUME NEW m \in Nat, m \in S PROVE m + 1 \in S
    <3>1. ASSUME n - (m + 1) >= j + 2 PROVE D[n - (m + 1)] = {}
      <4>1. /\ n - m \in 1..n /\ (n - m) - 1 = n - (m + 1) /\ n - m >= j + 2
            /\ n - (m + 1) \in 0..n /\ ~((n - m) - j \in 0..2)
        BY <3>1
      <4>2. D[n - m] = NextRest(D[(n - m) - 1], c[n - m]) /\ c[n - m] = 0
        BY <4>1
      <4>3. D[n - (m + 1)] \in Poly /\ D[n - m] = {}
        BY <2>2, <4>1
      <4> QED
        BY <4>1, <4>2, <4>3, NextRestOfZero
    <3> QED
      BY <3>1
  <2> HIDE DEF S
  <2>3. \A m \in Nat : m \in S
    BY <2>1, <2>2, Induction
  <2> QED
    BY <2>3 DEF S
<1> DEFINE E1 == c[j]
           r1 == TimesX8(Raised(Polynomial(E1)))
<1>4. E1 \in Byte /\ j \in Nat /\ j >= 1 /\ j <= n
  OBVIOUS
<1>5. NextRest({}, E1) = r1
  <2>1. Plus({}, Raised(Polynomial(E1))) = Raised(Polynomial(E1))
    BY DEF Plus
  <2> QED
    BY <2>1 DEF NextRest
<1>6. D[j] = r1
  <2>1. j - 1 \in Nat /\ j - 1 < j
    BY <1>4
  <2>2. D[j - 1] = {}
    BY <1>2, <2>1
  <2>3. D[j] = NextRest(D[j - 1], E1)
    OBVIOUS
  <2> QED
    BY <1>5, <2>2, <2>3
<1>7. Polynomial(E1) \in LowPoly /\ Raised(Polynomial(E1)) \in Poly /\ r1 \in Poly
  BY <1>4, PolynomialOfByte, RaisedPoly, TimesX8Poly
<1>8. CASE j = n
  <2>1. r1 = {}
    BY <1>6, <1>8
  <2>2. Polynomial(E1) = {}
    <3>1. Raised(Polynomial(E1)) = {}
      BY <1>7, <2>1, TimesX8Zero
    <3> QED
      BY <3>1 DEF Raised
  <2>3. E1 = 0
    BY <1>4, <2>2, ZeroPolynomial, ByteIsWord, PolynomialInjective
  <2>4. ASSUME NEW k \in 1..n PROVE c[k] = 0
    <3>1. CASE k = j
      BY <2>3, <3>1
    <3>2. CASE k # j
      <4>1. ~(k - j \in 0..2)
        BY <1>4, <1>8, <3>2
      <4> QED
        BY <4>1
    <3> QED
      BY <3>1, <3>2
  <2> QED
    BY <2>4
<1>9. CASE j + 1 = n
  <2> DEFINE E2 == c[j + 1]
             w  == 256 * E1 + E2
  <2>1. j + 1 \in 1..n /\ E2 \in Byte /\ (j + 1) - 1 = j
    BY <1>4, <1>9
  <2>2. D[j + 1] = NextRest(D[(j + 1) - 1], E2) /\ D[j + 1] = {}
    BY <1>9, <2>1
  <2>3. NextRest(NextRest({}, E1), E2) = {}
    BY <1>5, <1>6, <2>1, <2>2
  <2>4. w \in Word /\ w \div 256 = E1 /\ w % 256 = E2
    BY <1>4, <2>1, WordOf
  <2> HIDE DEF E1, E2
  <2>5. NextRest(NextRest({}, E1), E2) = TimesX8(TimesX8(Plus({}, Polynomial(w))))
    BY <1>1, <1>4, <2>1, TwoMore
  <2> HIDE DEF w
  <2>6. Plus({}, Polynomial(w)) = Polynomial(w) /\ Polynomial(w) \in Poly
    BY DEF Plus, Polynomial, Poly
  <2>7. Polynomial(w) = {}
    BY <2>3, <2>5, <2>6, TimesX8Poly, TimesX8Zero
  <2>8. w = 0
    BY <2>4, <2>7, ZeroPolynomial, PolynomialInjective
  <2>9. E1 = 0 /\ E2 = 0
    BY <2>4, <2>8
  <2>10. \A k \in 1..n : k = j \/ k = j + 1 \/ ~(k - j \in 0..2)
    BY <1>9
  <2> QED
    BY <2>9, <2>10 DEF E1, E2
<1>10. CASE j + 2 <= n
  <2> DEFINE E2 == c[j + 1]
             E3 == c[j + 2]
             w  == 256 * E2 + E3
             m  == 65536 * E1 + w
  <2>1. /\ j + 1 \in 1..n /\ j + 2 \in 1..n /\ E2 \in Byte /\ E3 \in Byte
        /\ (j + 1) - 1 = j /\ (j + 2) - 1 = j + 1
    BY <1>4, <1>10
  <2>2. D[j + 2] = NextRest(NextRest(r1, E2), E3)
    <3>1. D[j + 1] = NextRest(D[(j + 1) - 1], E2)
      BY <2>1
    <3>2. D[j + 2] = NextRest(D[(j + 2) - 1], E3)
      BY <2>1
    <3> QED
      BY <1>6, <2>1, <3>1, <3>2
  <2>3. D[j + 2] = {}
    <3> DEFINE q == n - (j + 2)
    <3>1. q \in Nat /\ n - q = j + 2 /\ n - q >= j + 2
      BY <1>4, <1>10
    <3> HIDE DEF q
    <3>2. D[n - q] = {}
      BY <1>3, <3>1
    <3> QED
      BY <3>1, <3>2
  <2>4. w \in Word
    BY <2>1, WordOf
  <2> HIDE DEF E1, E2, E3
  <2>5. NextRest(NextRest(r1, E2), E3) = TimesX8(TimesX8(Plus(r1, Polynomial(w))))
    BY <1>7, <2>1, TwoMore
  <2> HIDE DEF w
  <2>6. Polynomial(w) \in Poly
    BY DEF Polynomial, Poly
  <2>7. Plus(r1, Polynomial(w)) = {}
    <3> HIDE DEF r1
    <3> DEFINE p == Plus(r1, Polynomial(w))
    <3>1. p \in Poly
      BY <1>7, <2>6, PlusPoly
    <3>2. TimesX8(TimesX8(p)) = {}
      BY <2>2, <2>3, <2>5
    <3> HIDE DEF p
    <3>3. TimesX8(p) \in Poly
      BY <3>1, TimesX8Poly
    <3>4. TimesX8(p) = {}
      BY <3>2, <3>3, TimesX8Zero
    <3>5. p = {}
      BY <3>1, <3>4, TimesX8Zero
    <3> QED
      BY <3>5 DEF p
  <2>8. m \div 65536 = E1 /\ m % 65536 = w
    <3>1. E1 \in Nat
      BY <1>4 DEF Byte
    <3>2. w \in Nat /\ w < 65536
      BY <2>4 DEF Word
    <3>3. ASSUME NEW x \in Nat, NEW y \in Nat, y < 65536
          PROVE  (65536 * x + y) \div 65536 = x /\ (65536 * x + y) % 65536 = y
      BY <3>3
    <3> QED
      BY <3>1, <3>2, <3>3
  <2> HIDE DEF m
  <2>9. Rest(m) = {}
    BY <2>7, <2>8 DEF Rest
  <2> QED
    BY <1>10, <2>9 DEF m, w, E1, E2, E3, LeavesNothing
<1> QED
  BY <1>4, <1>8, <1>9, <1>10

\* An inverted burst is noticed, wherever it is.
LEMMA BurstNoticed ==
    ASSUME NEW burst \in Word \ {0}, wire \in Seq(Byte), crc16_verify(wire),
           NEW at \in Nat, at < 8 * Len(wire),
           NEW new, new = Invert(burst, at)
    PROVE  /\ new \in Seq(Byte) /\ Len(new) = Len(wire)
           /\ new # wire => ~crc16_verify(new)
<1> DEFINE n    == Len(wire)
           j    == at \div 8 + 1
           bits == burst * Power[9 - (at % 8)]
           of   == <<bits \div 65536, (bits \div 256) % 256, bits % 256>>
           c    == [k \in 1..n |-> IF k - j \in 0..2 THEN of[k - j + 1] ELSE 0]
<1>1. n \in Nat /\ j \in 1..n /\ \A k \in 1..n : wire[k] \in Byte
  <2>1. n \in Nat /\ \A k \in 1..n : wire[k] \in Byte
    OBVIOUS
  <2>2. at < 8 * n
    OBVIOUS
  <2> HIDE DEF n
  <2>3. j \in 1..n
    BY <2>1, <2>2
  <2> QED
    BY <2>1, <2>3
<1>2. bits \in Nat /\ bits < 16777216 /\ Rest(bits) # {}
  BY BurstRest
<1> HIDE DEF bits
<1>3. /\ of[1] \in Byte /\ of[2] \in Byte /\ of[3] \in Byte
      /\ bits = 65536 * of[1] + (256 * of[2] + of[3])
  <2>1. /\ bits \div 65536 \in Byte /\ (bits \div 256) % 256 \in Byte /\ bits % 256 \in Byte
    BY <1>2 DEF Byte
  <2>2. bits = 65536 * (bits \div 65536) + (256 * ((bits \div 256) % 256) + (bits % 256))
    BY <1>2
  <2> QED
    BY <2>1, <2>2
<1>4. new = [k \in 1..n |-> IF k - j \in 0..2 THEN XorByte[wire[k]][of[k - j + 1]]
                            ELSE wire[k]]
  <2>1. DOMAIN wire = 1..n
    OBVIOUS
  <2> QED
    BY <2>1 DEF Invert, bits
<1> HIDE DEF n, j, of
<1>5. \A i \in 0..2 : of[i + 1] \in Byte
  <2>1. \A i \in 0..2 : i = 0 \/ i = 1 \/ i = 2
    OBVIOUS
  <2>2. of[0 + 1] \in Byte /\ of[1 + 1] \in Byte /\ of[2 + 1] \in Byte
    BY <1>3
  <2> QED
    BY <2>1, <2>2
<1>6. ASSUME NEW k \in 1..n
      PROVE  /\ c[k] \in Byte /\ new[k] \in Byte
             /\ Polynomial(new[k]) = Plus(Polynomial(wire[k]), Polynomial(c[k]))
             /\ ~(k - j \in 0..2) => c[k] = 0
  <2>1. CASE k - j \in 0..2
    <3> DEFINE b == of[k - j + 1]
    <3>1. b \in Byte
      BY <1>5, <2>1
    <3>2. c[k] = b /\ new[k] = XorByte[wire[k]][b]
      BY <1>4, <2>1
    <3>3. wire[k] \in Byte
      BY <1>1
    <3> HIDE DEF b, c
    <3> QED
      BY <2>1, <3>1, <3>2, <3>3, XorByteBits, XorBytePolynomial
  <2>2. CASE ~(k - j \in 0..2)
    <3>1. c[k] = 0 /\ new[k] = wire[k]
      BY <1>4, <2>2
    <3>2. Plus(Polynomial(wire[k]), {}) = Polynomial(wire[k])
      BY DEF Plus
    <3> HIDE DEF c
    <3> QED
      BY <1>1, <2>2, <3>1, <3>2, ZeroPolynomial
  <2> QED
    BY <2>1, <2>2
<1>7. new \in Seq(Byte) /\ Len(new) = n
  <2>1. new \in [1..n -> Byte]
    BY <1>4, <1>6
  <2> QED
    BY <1>1, <2>1
<1>8. c \in [1..n -> Byte]
  BY <1>6
<1>9. ASSUME new # wire, crc16_verify(new)
      PROVE  FALSE
  <2> HIDE DEF c
  <2>1. Remainder(wire) = {} /\ Remainder(new) = {}
    BY <1>7, <1>9, VerifiedIsZero
  <2>2. PICK D : IsClosed(D, c, n)
    <3>1. Differs(new, wire, c, n)
      BY <1>6 DEF Differs
    <3>2. n = Len(wire)
      BY DEF n
    <3> QED
      BY <1>7, <1>8, <2>1, <3>1, <3>2, DifferenceLoop
  <2>3. ZeroBut(c, n, j)
    BY <1>6 DEF ZeroBut
  <2>4. IsZero(c, n) \/ LeavesNothing(c, n, j)
    BY <1>1, <1>8, <2>2, <2>3, ThreeBytes
  <2>5. CASE IsZero(c, n)
    <3>1. ASSUME NEW k \in 1..n PROVE new[k] = wire[k]
      <4>1. Plus(Polynomial(wire[k]), {}) = Polynomial(wire[k])
        BY DEF Plus
      <4>2. Polynomial(new[k]) = Polynomial(wire[k])
        BY <1>6, <2>5, <4>1, ZeroPolynomial DEF IsZero
      <4> QED
        BY <1>1, <1>6, <4>2, ByteIsWord, PolynomialInjective
    <3>2. new = [k \in 1..n |-> new[k]] /\ wire = [k \in 1..n |-> wire[k]]
      BY <1>4 DEF n
    <3>3. [k \in 1..n |-> new[k]] = [k \in 1..n |-> wire[k]]
      BY <3>1
    <3> QED
      BY <1>9, <3>2, <3>3
  <2>6. CASE LeavesNothing(c, n, j)
    <3>1. /\ j \in 1..n /\ j + 1 \in 1..n /\ j + 2 \in 1..n
          /\ j - j = 0 /\ (j + 1) - j = 1 /\ (j + 2) - j = 2
      BY <1>1, <2>6 DEF LeavesNothing
    <3>2. c[j] = of[1] /\ c[j + 1] = of[2] /\ c[j + 2] = of[3]
      <4>1. \A k \in 1..n : k - j \in 0..2 => c[k] = of[(k - j) + 1]
        BY DEF c
      <4>2. c[j] = of[0 + 1] /\ c[j + 1] = of[1 + 1] /\ c[j + 2] = of[2 + 1]
        BY <3>1, <4>1
      <4> QED
        BY <4>2
    <3> QED
      BY <1>2, <1>3, <2>6, <3>2 DEF LeavesNothing
  <2> QED
    BY <2>4, <2>5, <2>6
<1> QED
  BY <1>7, <1>9 DEF n

-----------------------------------------------------------------------------
(* The invariant. *)

\* The bitmap says which fragments have been stored.
SessionInv ==
    session # Nothing =>
        /\ session = [type |-> "session", msg_id |-> session.msg_id,
                      total_len |-> session.total_len, frag_cnt |-> session.frag_cnt,
                      bitmap |-> session.bitmap]
        /\ session.msg_id \in Word
        /\ session.frag_cnt \in Nat /\ session.frag_cnt <= 8 * BitmapSize
        /\ session.bitmap \in Bitmaps
        /\ \A idx \in 0..(session.frag_cnt - 1) :
              Marked(session.bitmap, idx) <=> idx \in received

\* A frame reads as it was meant.
Meant(r, s) ==
    IF s.type = "NACK"
    THEN r.type = "NACK" /\ r.msg_id = s.msg_id /\ Announces(r.missing, s.unstored)
    ELSE r = s

\* The bytes under way are those of what was meant, or are not verified.
WireInv ==
    /\ wire \in Seq(Byte) /\ damaged \in BOOLEAN
    /\ wire # <<>> =>
          IF damaged THEN ~crc16_verify(wire)
          ELSE crc16_verify(wire) /\ Meant(Read(wire), sent)

FramesInv == SessionInv /\ WireInv /\ ReadBack /\ DamageNoticed

LEMMA Sizes ==
    ASSUME NEW total_len \in TotalLens
    PROVE  /\ total_len \in Nat /\ total_len <= MaxMessageSize
           /\ FragCnt(total_len) \in Word /\ FragCnt(total_len) <= 8 * BitmapSize
           /\ total_len \div 65536 \in Word
<1>1. /\ MaxPayload \in Nat /\ 1 <= MaxPayload /\ MaxPayload <= 255
      /\ BitmapSize \in Nat /\ BitmapSize <= 8191
      /\ MaxMessageSize \in Nat /\ FragCnt(MaxMessageSize) <= 8 * BitmapSize
  BY FramesAssumption DEF FramesAssumption
<1>2. total_len \in Nat /\ total_len <= MaxMessageSize
  BY <1>1, FramesAssumption DEF FramesAssumption
<1>3. FragCnt(total_len) \in Nat /\ FragCnt(total_len) <= FragCnt(MaxMessageSize)
  BY <1>1, <1>2 DEF FragCnt
<1>4. FragCnt(MaxMessageSize) \in Nat
  BY <1>1 DEF FragCnt
<1>5. MaxMessageSize <= MaxPayload * FragCnt(MaxMessageSize)
  <2> DEFINE x == MaxMessageSize + MaxPayload - 1
             q == x \div MaxPayload
  <2>1. x \in Nat /\ x = MaxPayload * q + (x % MaxPayload) /\ x % MaxPayload < MaxPayload
        /\ x % MaxPayload \in Nat
    BY <1>1
  <2>2. FragCnt(MaxMessageSize) = q
    BY DEF FragCnt
  <2>3. q \in Nat
    BY <1>4, <2>2
  <2> DEFINE y == MaxPayload * q
             z == x % MaxPayload
  <2>4. y \in Nat
    BY <1>1, <2>3
  <2> HIDE DEF y, z, q
  <2>5. y >= MaxMessageSize
    BY <1>1, <2>1, <2>4 DEF y, z
  <2> QED
    BY <2>2, <2>5 DEF y
<1>6. MaxMessageSize <= 255 * FragCnt(MaxMessageSize)
  <2> DEFINE q == FragCnt(MaxMessageSize)
  <2>1. \A k \in Nat : MaxPayload * k <= 255 * k
    BY <1>1
  <2> HIDE DEF q
  <2>2. q \in Nat /\ MaxMessageSize <= MaxPayload * q
    BY <1>4, <1>5 DEF q
  <2>3. MaxPayload * q \in Nat /\ 255 * q \in Nat /\ MaxPayload * q <= 255 * q
    BY <1>1, <2>1, <2>2
  <2> QED
    BY <1>1, <2>2, <2>3 DEF q
<1>7. total_len < 16777216
  BY <1>1, <1>2, <1>4, <1>6
<1>8. total_len \div 65536 \in Word
  BY <1>2, <1>7 DEF Word
<1>9. FragCnt(total_len) \in Word
  BY <1>1, <1>3, <1>4 DEF Word
<1> QED
  BY <1>1, <1>2, <1>3, <1>4, <1>8, <1>9

\* The payload of a fragment, and the fragment.
Slice(total_len, frag_idx, message) ==
    [i \in 1..Min({MaxPayload, total_len - frag_idx * MaxPayload}) |->
        message[frag_idx * MaxPayload + i - 1]]

Fragment(msg_id, total_len, frag_idx, frag_cnt, payload) ==
    [type |-> "DATA", msg_id |-> msg_id, total_len |-> total_len,
     frag_idx |-> frag_idx, frag_cnt |-> frag_cnt, payload |-> payload]

\* What a fragment that is sent has room for.
LEMMA FragmentFits ==
    ASSUME NEW msg_id \in MsgIds, NEW total_len \in TotalLens,
           NEW frag_idx \in FragIdxs, NEW message \in Messages,
           frag_idx < FragCnt(total_len),
           NEW payload, payload = Slice(total_len, frag_idx, message)
    PROVE  /\ msg_id \in Word /\ frag_idx \in Word /\ FragCnt(total_len) \in Word
           /\ total_len \in Nat /\ total_len \div 65536 \in Word
           /\ payload \in Seq(Byte) /\ Len(payload) <= MaxPayload
<1> DEFINE cnt    == FragCnt(total_len)
           offset == frag_idx * MaxPayload
           l      == Min({MaxPayload, total_len - offset})
<1>1. /\ MaxPayload \in Nat /\ 1 <= MaxPayload /\ MaxMessageSize \in Nat
      /\ msg_id \in Word /\ frag_idx \in Nat
      /\ message \in [0..(MaxMessageSize - 1) -> Byte]
  <2>1. MaxPayload \in 1..255 /\ MaxMessageSize \in Nat \ {0}
    BY FramesAssumption DEF FramesAssumption
  <2>2. MsgIds \subseteq Word /\ FragIdxs \subseteq Nat
    BY FramesAssumption DEF FramesAssumption
  <2>3. Messages \subseteq [0..(MaxMessageSize - 1) -> Byte]
    BY FramesAssumption DEF FramesAssumption
  <2> QED
    BY <2>1, <2>2, <2>3
<1>2. /\ total_len \in Nat /\ total_len <= MaxMessageSize /\ total_len \div 65536 \in Word
      /\ cnt \in Word /\ cnt \in Nat
  BY Sizes DEF Word
<1>3. frag_idx \in Word
  BY <1>1, <1>2 DEF Word
<1>4. offset \in Nat /\ offset < total_len
  <2> DEFINE x == total_len + MaxPayload - 1
             r == x % MaxPayload
  <2>1. x \in Nat /\ x = MaxPayload * (x \div MaxPayload) + r /\ r \in Nat
    BY <1>1, <1>2
  <2>2. cnt = x \div MaxPayload
    BY DEF FragCnt
  <2> HIDE DEF cnt
  <2>3. x = MaxPayload * cnt + r
    BY <2>1, <2>2
  <2>4. frag_idx + 1 <= cnt
    BY <1>1, <1>2 DEF cnt
  <2>5. MaxPayload * (frag_idx + 1) <= MaxPayload * cnt /\ MaxPayload * cnt \in Nat
    BY <1>1, <1>2, <2>4
  <2>6. offset \in Nat /\ MaxPayload * (frag_idx + 1) = offset + MaxPayload
    BY <1>1
  <2> HIDE DEF offset, r
  <2> DEFINE y == MaxPayload * cnt
             z == MaxPayload * (frag_idx + 1)
  <2>7. /\ total_len + MaxPayload - 1 = y + r /\ z <= y /\ z = offset + MaxPayload
        /\ y \in Nat /\ r \in Nat /\ offset \in Nat
    BY <2>1, <2>3, <2>5, <2>6
  <2> HIDE DEF y, z
  <2> QED
    BY <1>1, <1>2, <2>7
<1>5. payload = [i \in 1..l |-> message[offset + i - 1]]
  BY DEF Slice
<1> HIDE DEF offset
<1>6. l \in Nat /\ l <= MaxPayload /\ l <= total_len - offset
  <2>1. total_len - offset \in Nat
    BY <1>2, <1>4
  <2> QED
    BY <1>1, <2>1, MinOfTwo
<1> HIDE DEF l
<1>7. \A i \in 1..l : message[offset + i - 1] \in Byte
  <2> TAKE i \in 1..l
  <2>1. offset + i - 1 \in 0..(MaxMessageSize - 1)
    BY <1>1, <1>2, <1>4, <1>6
  <2> QED
    BY <1>1, <2>1
<1>8. payload \in Seq(Byte) /\ Len(payload) <= MaxPayload
  <2> DEFINE p == [i \in 1..l |-> message[offset + i - 1]]
  <2>1. p \in [1..l -> Byte]
    BY <1>7
  <2> HIDE DEF p
  <2>2. p \in Seq(Byte) /\ Len(p) = l
    BY <1>6, <2>1
  <2> QED
    BY <1>5, <1>6, <2>2 DEF p
<1>9. msg_id \in Word
  BY <1>1
<1>10. FragCnt(total_len) \in Word
  BY <1>2
<1>11. total_len \in Nat /\ total_len \div 65536 \in Word
  BY <1>2
<1> QED
  BY <1>3, <1>8, <1>9, <1>10, <1>11

LEMMA RecordIsData ==
    ASSUME NEW msg_id \in Word, NEW frag_idx \in Word, NEW frag_cnt \in Word,
           NEW total_len \in Nat, total_len \div 65536 \in Word,
           NEW payload \in Seq(Byte), Len(payload) <= MaxPayload
    PROVE  IsData(Fragment(msg_id, total_len, frag_idx, frag_cnt, payload))
  BY DEF IsData, Fragment

\* What is written is under way as it was meant.
LEMMA Written ==
    ASSUME NEW f, NEW bytes \in Seq(Byte), crc16_verify(bytes), Len(bytes) >= 2,
           Meant(Read(bytes), f), Write(f, bytes)
    PROVE  WireInv' /\ ReadBack' /\ DamageNoticed'
<1>1. bytes # <<>>
  OBVIOUS
<1>2. /\ sent' = f /\ wire' = bytes /\ damaged' = FALSE
  BY DEF Write
<1>3. crc16_verify(wire)' /\ Read(wire)' = Read(bytes)
  BY <1>2 DEF crc16_verify, Read, ReadData, ReadNack, ReadDone
<1>4. WireInv'
  BY <1>1, <1>2, <1>3 DEF WireInv, Meant, Announces
<1>5. ~Quiet'
  BY <1>1, <1>2 DEF Quiet
<1> QED
  BY <1>4, <1>5 DEF ReadBack, DamageNoticed

LEMMA SessionKept ==
    ASSUME SessionInv, UNCHANGED <<session, received>>
    PROVE  SessionInv'
  BY DEF SessionInv, Marked, Bit, Bitmaps

\* A step of the receiver that writes nothing.
LEMMA WireKept ==
    ASSUME FramesInv, UNCHANGED <<sent, wire, damaged, read>>
    PROVE  WireInv' /\ ReadBack' /\ DamageNoticed'
<1>1. /\ sent' = sent /\ wire' = wire /\ damaged' = damaged /\ read' = read
      /\ WireInv /\ ReadBack /\ DamageNoticed
  BY DEF FramesInv
<1>2. crc16_verify(wire)' = crc16_verify(wire) /\ Read(wire)' = Read(wire)
  BY <1>1 DEF crc16_verify, Read, ReadData, ReadNack, ReadDone
<1>3. Meant(Read(wire), sent)' <=> Meant(Read(wire), sent)
  BY <1>1, <1>2 DEF Meant, Announces
<1>4. WireInv'
  BY <1>1, <1>2, <1>3 DEF WireInv
<1>5. ReadBack'
  BY <1>1 DEF ReadBack, Quiet, Announces
<1>6. DamageNoticed'
  BY <1>1 DEF DamageNoticed, Quiet
<1> QED
  BY <1>4, <1>5, <1>6

LEMMA InitInv == Init => FramesInv
<1> SUFFICES ASSUME Init PROVE FramesInv
  OBVIOUS
<1>1. session = Nothing /\ sent = Nothing /\ wire = <<>> /\ damaged = FALSE
  BY DEF Init
<1>2. <<>> \in Seq(Byte)
  OBVIOUS
<1>3. SessionInv
  BY <1>1 DEF SessionInv
<1>4. WireInv
  BY <1>1, <1>2 DEF WireInv
<1>5. ReadBack
  BY <1>1 DEF ReadBack
<1>6. DamageNoticed
  BY <1>1 DEF DamageNoticed
<1> QED
  BY <1>3, <1>4, <1>5, <1>6 DEF FramesInv

LEMMA SendFragmentKeeps ==
    ASSUME FramesInv, NEW msg_id \in MsgIds, NEW total_len \in TotalLens,
           NEW frag_idx \in FragIdxs, NEW message \in Messages,
           SendFragment(msg_id, total_len, frag_idx, message)
    PROVE  FramesInv'
<1> DEFINE cnt     == FragCnt(total_len)
           payload == Slice(total_len, frag_idx, message)
           f       == Fragment(msg_id, total_len, frag_idx, cnt, payload)
<1>1. /\ frag_idx < cnt /\ Write(f, Bytes(f))
      /\ UNCHANGED <<session, received>>
  BY DEF SendFragment, Fragment, Slice
<1>2. /\ msg_id \in Word /\ frag_idx \in Word /\ cnt \in Word
      /\ total_len \in Nat /\ total_len \div 65536 \in Word
      /\ payload \in Seq(Byte) /\ Len(payload) <= MaxPayload
  BY <1>1, FragmentFits
<1>3. f.type = "DATA"
  BY DEF Fragment
<1> HIDE DEF payload, cnt
<1>9. IsData(f)
  BY <1>2, RecordIsData
<1> HIDE DEF f
<1>4. /\ Bytes(f) \in Seq(Byte) /\ crc16_verify(Bytes(f))
      /\ Len(Bytes(f)) >= 2 /\ Read(Bytes(f)) = f
  BY <1>9, DataReads
<1>5. Meant(Read(Bytes(f)), f)
  BY <1>3, <1>4 DEF Meant
<1>6. WireInv' /\ ReadBack' /\ DamageNoticed'
  BY <1>1, <1>4, <1>5, Written
<1> QED
  BY <1>1, <1>6, SessionKept DEF FramesInv

LEMMA OpenKeeps ==
    ASSUME FramesInv, NEW msg_id \in MsgIds, NEW total_len \in TotalLens,
           Open(msg_id, total_len)
    PROVE  FramesInv'
<1>1. WireInv' /\ ReadBack' /\ DamageNoticed'
  BY WireKept DEF Open
<1>2. msg_id \in Word
  BY FramesAssumption DEF FramesAssumption
<1>3. /\ session' = [type |-> "session", msg_id |-> msg_id, total_len |-> total_len,
                     frag_cnt |-> FragCnt(total_len), bitmap |-> Cleared]
      /\ received' = {}
  BY DEF Open
<1>4. FragCnt(total_len) \in Nat /\ FragCnt(total_len) <= 8 * BitmapSize
  BY Sizes DEF Word
<1>5. BitmapSize \in Nat
  BY FramesAssumption DEF FramesAssumption
<1>6. SessionInv'
  <2>1. Cleared \in Bitmaps /\ \A j \in 0..(FragCnt(total_len) - 1) : ~Marked(Cleared, j)
    BY <1>4, <1>5, ClearedIsClear
  <2> DEFINE s == session'
  <2>2. /\ s = [type |-> "session", msg_id |-> s.msg_id, total_len |-> s.total_len,
                frag_cnt |-> s.frag_cnt, bitmap |-> s.bitmap]
        /\ s.msg_id = msg_id /\ s.frag_cnt = FragCnt(total_len) /\ s.bitmap = Cleared
    BY <1>3
  <2> QED
    BY <1>2, <1>3, <1>4, <2>1, <2>2 DEF SessionInv, Marked, Bit, Bitmaps
<1> QED
  BY <1>1, <1>6 DEF FramesInv

LEMMA StoreKeeps ==
    ASSUME FramesInv, NEW idx \in Stored, Store(idx)
    PROVE  FramesInv'
<1>1. WireInv' /\ ReadBack' /\ DamageNoticed'
  BY WireKept DEF Store
<1>2. /\ session # Nothing /\ idx \in 0..(session.frag_cnt - 1)
      /\ session' = [session EXCEPT !.bitmap = Mark(session.bitmap, idx)]
      /\ received' = received \cup {idx}
  BY DEF Store
<1>3. /\ session = [type |-> "session", msg_id |-> session.msg_id,
                    total_len |-> session.total_len, frag_cnt |-> session.frag_cnt,
                    bitmap |-> session.bitmap]
      /\ session.msg_id \in Word
      /\ session.frag_cnt \in Nat /\ session.frag_cnt <= 8 * BitmapSize
      /\ session.bitmap \in Bitmaps
      /\ \A j \in 0..(session.frag_cnt - 1) :
            Marked(session.bitmap, j) <=> j \in received
  BY <1>2 DEF FramesInv, SessionInv
<1>4. BitmapSize \in Nat
  BY FramesAssumption DEF FramesAssumption
<1> DEFINE cnt == session.frag_cnt
           new == Mark(session.bitmap, idx)
<1>5. 0..(cnt - 1) \subseteq 0..(8 * BitmapSize - 1)
  BY <1>3, <1>4
<1>6. /\ new \in Bitmaps
      /\ \A j \in 0..(8 * BitmapSize - 1) :
            Marked(new, j) <=> j = idx \/ Marked(session.bitmap, j)
  BY <1>2, <1>3, <1>5, MarkMarks
<1> HIDE DEF new
<1>7. session' = [type |-> "session", msg_id |-> session.msg_id,
                  total_len |-> session.total_len, frag_cnt |-> session.frag_cnt,
                  bitmap |-> new]
  BY <1>2, <1>3 DEF new
<1>8. \A j \in 0..(cnt - 1) : Marked(new, j) <=> j \in received'
  BY <1>2, <1>3, <1>5, <1>6
<1>9. SessionInv'
  <2> DEFINE s == session'
  <2>1. /\ s = [type |-> "session", msg_id |-> s.msg_id, total_len |-> s.total_len,
                frag_cnt |-> s.frag_cnt, bitmap |-> s.bitmap]
        /\ s.msg_id = session.msg_id /\ s.frag_cnt = cnt /\ s.bitmap = new
    BY <1>7
  <2> QED
    BY <1>3, <1>6, <1>8, <2>1 DEF SessionInv, Marked, Bit, Bitmaps
<1> QED
  BY <1>1, <1>9 DEF FramesInv

\* What a NACK says is missing are the first fragments that have not been
\* stored.
LEMMA MissingAreUnstored ==
    ASSUME SessionInv, session # Nothing,
           NEW missing, missing = MissingFragments(session)
    PROVE  /\ session.msg_id \in Word
           /\ missing \in Seq(Word) /\ Len(missing) <= MaxNackIndices
           /\ Announces(missing, (0..(session.frag_cnt - 1)) \ received)
<1> DEFINE U == Unmarked(session)
<1>1. /\ session.msg_id \in Word
      /\ session.frag_cnt \in Nat /\ session.frag_cnt <= 8 * BitmapSize
      /\ \A j \in 0..(session.frag_cnt - 1) :
            Marked(session.bitmap, j) <=> j \in received
  BY DEF SessionInv
<1>2. BitmapSize \in Nat /\ BitmapSize <= 8191
  BY FramesAssumption DEF FramesAssumption
<1>3. U = (0..(session.frag_cnt - 1)) \ received
  BY <1>1 DEF Unmarked
<1>4. U \in SUBSET Nat /\ U \in SUBSET Word
  <2>1. \A j \in 0..(session.frag_cnt - 1) : j \in Nat /\ j < 65536
    BY <1>1, <1>2
  <2> QED
    BY <1>3, <2>1 DEF Word
<1> HIDE DEF U
<1>5. Begins(missing, U, MaxNackIndices)
  BY <1>4, MissingFragmentsBegin DEF U
<1>6. Announces(missing, U)
  BY <1>4, <1>5, BeginsAnnounces
<1>7. missing \in Seq(U) /\ Len(missing) <= MaxNackIndices
  BY <1>5 DEF Begins
<1>8. missing \in Seq(Word)
  <2>1. Len(missing) \in Nat /\ \A k \in 1..Len(missing) : missing[k] \in U
    BY <1>7
  <2>2. missing = [k \in 1..Len(missing) |-> missing[k]]
    BY <1>7
  <2>3. missing \in [1..Len(missing) -> Word]
    BY <1>4, <2>1, <2>2
  <2> QED
    BY <2>1, <2>3
<1> QED
  BY <1>1, <1>3, <1>6, <1>7, <1>8

LEMMA SendNackKeeps == ASSUME FramesInv, SendNack PROVE FramesInv'
<1> DEFINE missing  == MissingFragments(session)
           unstored == (0..(session.frag_cnt - 1)) \ received
           id       == session.msg_id
           meant    == [type |-> "NACK", msg_id |-> id, unstored |-> unstored]
           f        == [type |-> "NACK", msg_id |-> id, missing |-> missing]
<1>1. session # Nothing /\ Write(meant, Bytes(f)) /\ UNCHANGED <<session, received>>
  BY DEF SendNack
<1>2. /\ id \in Word /\ missing \in Seq(Word) /\ Len(missing) <= MaxNackIndices
      /\ Announces(missing, unstored)
  BY <1>1, MissingAreUnstored DEF FramesInv
<1> HIDE DEF missing, unstored
<1>3. /\ Bytes(f) \in Seq(Byte) /\ crc16_verify(Bytes(f))
      /\ Len(Bytes(f)) >= 2 /\ Read(Bytes(f)) = f
  BY <1>2, NackReads
<1>4. /\ f.type = "NACK" /\ f.msg_id = id /\ f.missing = missing
      /\ meant.type = "NACK" /\ meant.msg_id = id /\ meant.unstored = unstored
  OBVIOUS
<1> HIDE DEF f, meant
<1>5. Meant(Read(Bytes(f)), meant)
  BY <1>2, <1>3, <1>4 DEF Meant
<1>6. WireInv' /\ ReadBack' /\ DamageNoticed'
  BY <1>1, <1>3, <1>5, Written
<1> QED
  BY <1>1, <1>6, SessionKept DEF FramesInv

LEMMA SendDoneKeeps == ASSUME FramesInv, SendDone PROVE FramesInv'
<1> DEFINE id == session.msg_id
           f  == [type |-> "DONE", msg_id |-> id]
<1>1. session # Nothing /\ Write(f, Bytes(f)) /\ session' = Nothing
  BY DEF SendDone
<1>2. id \in Word
  BY <1>1 DEF FramesInv, SessionInv
<1>3. /\ Bytes(f) \in Seq(Byte) /\ crc16_verify(Bytes(f))
      /\ Len(Bytes(f)) >= 2 /\ Read(Bytes(f)) = f
  BY <1>2, DoneReads
<1>4. f.type = "DONE"
  OBVIOUS
<1> HIDE DEF f
<1>5. Meant(Read(Bytes(f)), f)
  BY <1>3, <1>4 DEF Meant
<1>6. WireInv' /\ ReadBack' /\ DamageNoticed'
  BY <1>1, <1>3, <1>5, Written
<1> QED
  BY <1>1, <1>6 DEF FramesInv, SessionInv

LEMMA DropKeeps == ASSUME FramesInv, Drop PROVE FramesInv'
<1>1. WireInv' /\ ReadBack' /\ DamageNoticed'
  BY WireKept DEF Drop
<1> QED
  BY <1>1 DEF Drop, FramesInv, SessionInv

LEMMA DamageKeeps ==
    ASSUME FramesInv, NEW burst \in Bursts, NEW at \in 0..(8 * Len(wire) - 1),
           Damage(burst, at)
    PROVE  FramesInv'
<1> DEFINE new == Invert(burst, at)
<1>1. /\ ~damaged /\ wire' = new /\ damaged' = (new # wire)
      /\ UNCHANGED <<session, received, sent, read>>
  BY DEF Damage
<1>2. wire \in Seq(Byte) /\ Len(wire) \in Nat
  BY DEF FramesInv, WireInv
<1>3. at \in Nat /\ at < 8 * Len(wire)
  BY <1>2
<1>4. wire # <<>>
  BY <1>3
<1>5. crc16_verify(wire) /\ Meant(Read(wire), sent)
  BY <1>1, <1>4 DEF FramesInv, WireInv
<1>6. burst \in Word \ {0}
  BY FramesAssumption DEF FramesAssumption
<1> HIDE DEF new
<1>7. /\ new \in Seq(Byte) /\ Len(new) = Len(wire)
      /\ new # wire => ~crc16_verify(new)
  BY <1>2, <1>3, <1>5, <1>6, BurstNoticed DEF new
<1>8. new # <<>>
  BY <1>2, <1>4, <1>7
<1>9. crc16_verify(wire)' = crc16_verify(new) /\ Read(wire)' = Read(new)
  BY <1>1 DEF crc16_verify, Read, ReadData, ReadNack, ReadDone
<1>10. WireInv'
  <2>1. CASE new # wire
    BY <1>1, <1>7, <1>9, <2>1 DEF WireInv
  <2>2. CASE new = wire
    <3>1. crc16_verify(wire)' /\ Read(wire)' = Read(wire) /\ sent' = sent /\ ~damaged'
      BY <1>1, <1>5, <1>9, <2>2
    <3>2. Meant(Read(wire), sent)'
      BY <1>5, <3>1 DEF Meant, Announces
    <3> QED
      BY <1>1, <1>7, <3>1, <3>2 DEF WireInv
  <2> QED
    BY <2>1, <2>2
<1>11. ~Quiet'
  BY <1>1, <1>8 DEF Quiet
<1> QED
  BY <1>1, <1>10, <1>11, SessionKept DEF FramesInv, ReadBack, DamageNoticed

LEMMA ReceiveKeeps == ASSUME FramesInv, Receive PROVE FramesInv'
<1>1. /\ wire # <<>> /\ read' = Read(wire) /\ wire' = <<>>
      /\ UNCHANGED <<session, received, sent, damaged>>
  BY DEF Receive, Quiet
<1>2. WireInv'
  BY <1>1 DEF FramesInv, WireInv
<1>3. ReadBack'
  <2>1. SUFFICES ASSUME ~damaged PROVE Meant(read', sent)
    BY <1>1 DEF ReadBack, Meant, Announces
  <2>2. Meant(Read(wire), sent)
    BY <1>1, <2>1 DEF FramesInv, WireInv
  <2> QED
    BY <1>1, <2>2
<1>4. DamageNoticed'
  <2>1. SUFFICES ASSUME damaged PROVE read' = Nothing
    BY <1>1 DEF DamageNoticed
  <2>2. ~crc16_verify(wire)
    BY <1>1, <2>1 DEF FramesInv, WireInv
  <2>3. ReadData(wire) = Nothing /\ ReadNack(wire) = Nothing /\ ReadDone(wire) = Nothing
    BY <2>2 DEF ReadData, ReadNack, ReadDone
  <2> QED
    BY <1>1, <2>3 DEF Read
<1> QED
  BY <1>1, <1>2, <1>3, <1>4, SessionKept DEF FramesInv

LEMMA NextInv == FramesInv /\ [Next]_vars => FramesInv'
<1> SUFFICES ASSUME FramesInv, [Next]_vars PROVE FramesInv'
  OBVIOUS
<1>1. CASE SenderNext
  BY <1>1, SendFragmentKeeps DEF SenderNext
<1>2. CASE ReceiverNext
  BY <1>2, OpenKeeps, StoreKeeps, SendNackKeeps, SendDoneKeeps, DropKeeps DEF ReceiverNext
<1>3. CASE RadioNext
  BY <1>3, DamageKeeps, ReceiveKeeps DEF RadioNext
<1>4. CASE UNCHANGED vars
  BY <1>4, SessionKept, WireKept DEF vars, FramesInv
<1> QED
  BY <1>1, <1>2, <1>3, <1>4 DEF Next

-----------------------------------------------------------------------------
(* The theorems. *)

\* The bitmap says which fragments have been stored, and the bytes under way
\* are those of what was meant, or are not verified.
THEOREM Invariant == Spec => []FramesInv
<1> QED
  BY InitInv, NextInv, PTL DEF Spec

\* A frame whose bytes arrive as they were written is read as what was meant,
\* by frag_rx_process, frag_rx_parse_nack and frag_rx_parse_done: for every
\* message, every size of the payload and of the bitmap, and for every set of
\* stored fragments a NACK is made from.
THEOREM ReadsBack == Spec => []ReadBack
<1>1. FramesInv => ReadBack
  BY DEF FramesInv
<1> QED
  BY <1>1, Invariant, PTL

\* No burst of up to 16 inverted bits, wherever in whatever frame it is, goes
\* past crc16_verify: what it leaves is taken for nothing.
THEOREM DamageIsNoticed == Spec => []DamageNoticed
<1>1. FramesInv => DamageNoticed
  BY DEF FramesInv
<1> QED
  BY <1>1, Invariant, PTL

\* crc16_compute by its table is the remainder by the polynomial 0x1021 from
\* 0xFFFF, whatever the bytes.
THEOREM CrcIsRight == Spec => []CrcRight
<1>1. FramesInv => CrcRight
  <2> SUFFICES ASSUME FramesInv PROVE CrcRight
    OBVIOUS
  <2>1. wire \in Seq(Byte)
    BY DEF FramesInv, WireInv
  <2> QED
    BY <2>1, CrcMatches DEF CrcRight
<1> QED
  BY <1>1, Invariant, PTL
=============================================================================
