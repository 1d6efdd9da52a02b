------------------------ MODULE MessageFramingProofs ------------------------
(***************************************************************************)
(* Proofs about MessageFraming, for every server, whatever bytes it sends, *)
(* proper or not, and however they are split: the reader never reads       *)
(* behind its buffer or writes beyond it and moves forward only, what is   *)
(* in the buffer is the stream, and a record that is passed on has a name  *)
(* and a symbol and was read under the guard.                              *)
(***************************************************************************)
EXTENDS MessageFraming, FiniteSetTheorems, SequenceTheorems, TLAPS

Bytes == 0..255
Text  == Seq(0..127)

-----------------------------------------------------------------------------
\* The ones in front of the first byte, for each number of bytes.
LEMMA Markers ==
  /\ Marker(1) = 0 /\ Marker(2) = 128 /\ Marker(3) = 192 /\ Marker(4) = 224 /\ Marker(5) = 240
  /\ Marker(6) = 248 /\ Marker(7) = 252 /\ Marker(8) = 254 /\ Marker(9) = 255
BY SMT DEF Marker

\* Every first byte announces from one to nine bytes: the chain of comparisons
\* of the readers has a branch for each.
LEMMA SizeType == \A first \in Bytes : SizeOf[first] \in 1..9
<1> SUFFICES ASSUME NEW first \in Bytes PROVE SizeOf[first] \in 1..9
  OBVIOUS
<1>1. \E n \in 1..9 : Marker(n) <= first /\ (n < 9 => first < Marker(n + 1))
  <2>1. \/ first < 128 \/ first \in 128..191 \/ first \in 192..223 \/ first \in 224..239
        \/ first \in 240..247 \/ first \in 248..251 \/ first \in 252..253 \/ first = 254 \/ first = 255
    BY DEF Bytes
  <2> QED
    BY <2>1, Markers DEF Bytes
<1> QED
  BY <1>1 DEF SizeOf, Bytes

\* The shifts that the readers use leave an integer.
LEMMA SignExtended ==
  ASSUME NEW n \in Int, NEW bits \in {3, 7, 8, 10, 14, 17, 21, 24, 28}
  PROVE  SignExtend(n, bits) \in Int
<1>1. CASE bits = 3
  BY <1>1 DEF SignExtend
<1>2. CASE bits = 7
  BY <1>2 DEF SignExtend
<1>3. CASE bits = 8
  BY <1>3 DEF SignExtend
<1>4. CASE bits = 10
  BY <1>4 DEF SignExtend
<1>5. CASE bits = 14
  BY <1>5 DEF SignExtend
<1>6. CASE bits = 17
  BY <1>6 DEF SignExtend
<1>7. CASE bits = 21
  BY <1>7 DEF SignExtend
<1>8. CASE bits = 24
  BY <1>8 DEF SignExtend
<1>9. CASE bits = 28
  BY <1>9 DEF SignExtend
<1> QED
  BY <1>1, <1>2, <1>3, <1>4, <1>5, <1>6, <1>7, <1>8, <1>9

\* A number that lies in the buffer is a long.
LEMMA LongType ==
  ASSUME NEW b \in Seq(Bytes), NEW p \in 1..Len(b), p + SizeOf[b[p]] - 1 <= Len(b)
  PROVE  /\ ReadCompactLong(b, p) \in Word
         /\ ReadCompactInt(b, p) \in Int
<1> DEFINE n == SizeOf[b[p]]
           first == b[p] - Marker(n)
<1>1. n \in 1..9
  BY SizeType
<1>2. p + n - 1 <= Len(b)
  OBVIOUS
<1> HIDE DEF n
<1>3. \A q \in p..(p + n - 1) : b[q] \in Int
  <2>1. \A q \in p..(p + n - 1) : q \in 1..Len(b)
    BY <1>1, <1>2
  <2>2. \A q \in 1..Len(b) : b[q] \in Bytes
    OBVIOUS
  <2>3. Bytes \subseteq Int
    BY DEF Bytes
  <2> QED
    BY <2>1, <2>2, <2>3
<1>0. first \in Int
  <2>1. Marker(n) \in Int
    BY <1>1, Markers, SMTT(30)
  <2>2. b[p] \in Int
    BY <1>1, <1>3
  <2> QED
    BY <2>1, <2>2
<1> HIDE DEF first
<1>4. ASSUME NEW k \in 1..4, k <= n PROVE Bits(b, p, first, k) \in Int
  <2>1. k > 1 => b[p + k - 1] \in Int
    BY <1>1, <1>3, <1>4
  <2>2. k > 2 => b[p + k - 2] \in Int
    BY <1>1, <1>3, <1>4
  <2>3. k > 3 => b[p + k - 3] \in Int
    BY <1>1, <1>3, <1>4
  <2>4. k = 1 \/ k = 2 \/ k = 3 \/ k = 4
    OBVIOUS
  <2>5. 2^(8 * (k - 1)) \in Int /\ 2^8 \in Int /\ 2^16 \in Int
    BY <2>4
  <2>6. \A x, y \in Int : x * y \in Int
    OBVIOUS
  <2> DEFINE power == 2^(8 * (k - 1))
             high  == IF k = 1 THEN first ELSE first * power
             low   == IF k > 1 THEN b[p + k - 1] ELSE 0
             mid   == IF k > 2 THEN b[p + k - 2] * 2^8 ELSE 0
             top   == IF k > 3 THEN b[p + k - 3] * 2^16 ELSE 0
  <2>7. high \in Int
    <3>1. power \in Int
      BY <2>5
    <3> HIDE DEF power
    <3>2. first * power \in Int
      BY <1>0, <2>6, <3>1
    <3> QED
      BY <1>0, <3>2
  <2>8. low \in Int
    BY <2>1
  <2>9. mid \in Int
    BY <2>2, <2>5, <2>6
  <2>10. top \in Int
    BY <2>3, <2>5, <2>6
  <2>11. Bits(b, p, first, k) = high + low + mid + top
    BY DEF Bits
  <2> HIDE DEF high, low, mid, top
  <2> QED
    BY <2>7, <2>8, <2>9, <2>10, <2>11
<1>5. ASSUME NEW q \in Nat, p <= q, q + 3 <= p + n - 1 PROVE Word4(b, q) \in Int
  <2>1. b[q] \in Int /\ b[q + 1] \in Int /\ b[q + 2] \in Int /\ b[q + 3] \in Int
    BY <1>1, <1>3, <1>5
  <2>2. SignExtend(b[q], 8) \in Int
    BY <2>1, SignExtended
  <2>3. \A x, y, z, w \in Int : x * 2^24 + y * 2^16 + z * 2^8 + w \in Int
    OBVIOUS
  <2> DEFINE x == SignExtend(b[q], 8)
  <2> HIDE DEF x
  <2>4. x * 2^24 + b[q + 1] * 2^16 + b[q + 2] * 2^8 + b[q + 3] \in Int
    BY <2>1, <2>2, <2>3 DEF x
  <2> QED
    BY <2>4 DEF Word4, x
<1>6. CASE n \in {1, 3, 4}
  <2>1. Bits(b, p, first, n) \in Int
    BY <1>1, <1>4, <1>6
  <2>2. 7 * n \in {7, 14, 21, 28}
    BY <1>1, <1>6
  <2>3. SignExtend(Bits(b, p, first, n), 7 * n) \in Int
    BY <2>1, <2>2, SignExtended
  <2>4. ReadCompactLong(b, p) = Long(SignExtend(Bits(b, p, first, n), 7 * n))
    BY <1>6 DEF ReadCompactLong, n, first
  <2>5. n # 2
    BY <1>6
  <2> QED
    BY <2>3, <2>4, <2>5 DEF Long, Sign, Word, ReadCompactInt, n
<1>8. CASE n = 2
  <2>1. Bits(b, p, first, 2) \in Int
    BY <1>1, <1>4, <1>8
  <2>2. SignExtend(Bits(b, p, first, 2), 14) \in Int
    BY <2>1, SignExtended
  <2>3. ReadCompactLong(b, p) = Long(Bits(b, p, first, 2))
    BY <1>8 DEF ReadCompactLong, n, first
  <2>4. ReadCompactInt(b, p) = SignExtend(Bits(b, p, first, 2), 14)
    BY <1>8 DEF ReadCompactInt, n, first
  <2> QED
    BY <2>1, <2>2, <2>3, <2>4 DEF Long, Sign, Word
<1>7. CASE n >= 5
  <2> DEFINE hi == IF n = 9 THEN Word4(b, p + 1) ELSE SignExtend(Bits(b, p, first, n - 4), 7 * n - 32)
  <2>1. Word4(b, p + n - 4) \in Int
    BY <1>1, <1>5, <1>7
  <2>2. hi \in Int
    <3>1. CASE n = 9
      BY <3>1, <1>5
    <3>2. CASE n < 9
      <4>1. Bits(b, p, first, n - 4) \in Int
        BY <1>1, <1>4, <1>7, <3>2
      <4>2. 7 * n - 32 \in {3, 10, 17, 24}
        BY <1>1, <1>7, <3>2
      <4>3. SignExtend(Bits(b, p, first, n - 4), 7 * n - 32) \in Int
        BY <4>1, <4>2, SignExtended
      <4> QED
        BY <4>3, <3>2
    <3> QED
      BY <1>1, <3>1, <3>2
  <2>3. ReadCompactLong(b, p) = [hi |-> hi, lo |-> Word4(b, p + n - 4)]
    BY <1>1, <1>7 DEF ReadCompactLong, n, first
  <2>4. n # 2
    BY <1>7
  <2> HIDE DEF hi
  <2> QED
    BY <2>1, <2>2, <2>3, <2>4 DEF Word, ReadCompactInt, n
<1>9. n \in {1, 3, 4} \/ n = 2 \/ n >= 5
  BY <1>1
<1> QED
  BY <1>6, <1>7, <1>8, <1>9

-----------------------------------------------------------------------------
\* Half of a long, as dx_write_compact_long takes it.
Half == -(2^31)..(2^31 - 1)

\* What is left of a half word when its lowest byte is taken off.
Rest(w) == w \div 256

\* A half word is put together from its bytes, one after the other.
LEMMA Digits ==
  ASSUME NEW w \in Int
  PROVE  /\ Rest(w) \in Int /\ Rest(Rest(w)) \in Int /\ Rest(Rest(Rest(w))) \in Int
         /\ ByteOf(w, 0) \in 0..255 /\ ByteOf(w, 1) \in 0..255 /\ ByteOf(w, 2) \in 0..255
         /\ w = 256 * Rest(w) + ByteOf(w, 0)
         /\ Rest(w) = 256 * Rest(Rest(w)) + ByteOf(w, 1)
         /\ Rest(Rest(w)) = 256 * Rest(Rest(Rest(w))) + ByteOf(w, 2)
         /\ ByteOf(w, 3) = Rest(Rest(Rest(w))) % 256 /\ ByteOf(w, 3) \in 0..255
<1> DEFINE a == Rest(w)
           b == Rest(a)
           c == Rest(b)
<1>0. \A u \in Int : Rest(u) \in Int /\ u % 256 \in 0..255 /\ u = 256 * Rest(u) + (u % 256)
  BY SMT DEF Rest
<1>1. a \in Int /\ b \in Int /\ c \in Int
  BY <1>0, SMT
<1>2. ByteOf(w, 0) = w % 256
  BY SMT DEF ByteOf
<1>3. ByteOf(w, 1) = a % 256
  BY SMT DEF ByteOf, Rest
<1>4. w \div 65536 = b
  BY SMT DEF Rest
<1>5. ByteOf(w, 2) = b % 256
  <2>1. ByteOf(w, 2) = (w \div 65536) % 256
    BY SMT DEF ByteOf
  <2> QED
    BY <1>4, <2>1, SMT
<1>6. w = 256 * a + (w % 256) /\ a = 256 * b + (a % 256) /\ b = 256 * c + (b % 256)
      /\ w % 256 \in 0..255 /\ a % 256 \in 0..255 /\ b % 256 \in 0..255
  <2>1. w = 256 * a + (w % 256) /\ w % 256 \in 0..255
    BY <1>0
  <2>2. a = 256 * b + (a % 256) /\ a % 256 \in 0..255
    BY <1>0, <1>1
  <2>3. b = 256 * c + (b % 256) /\ b % 256 \in 0..255
    BY <1>0, <1>1
  <2> QED
    BY <2>1, <2>2, <2>3
<1>7. w \div 16777216 = c
  <2> DEFINE x == w % 256
             y == a % 256
             z == b % 256
  <2>1. w = 256 * a + x /\ a = 256 * b + y /\ b = 256 * c + z /\ x \in 0..255 /\ y \in 0..255 /\ z \in 0..255
    BY <1>6, SMT
  <2> HIDE DEF a, b, c, x, y, z
  <2> QED
    BY <1>1, <2>1, SMTT(30)
<1>8. ByteOf(w, 3) = c % 256
  <2>1. ByteOf(w, 3) = (w \div 16777216) % 256
    BY SMT DEF ByteOf
  <2> QED
    BY <1>7, <2>1, SMT
<1>9. /\ a \in Int /\ b \in Int /\ c \in Int
      /\ ByteOf(w, 0) \in 0..255 /\ ByteOf(w, 1) \in 0..255 /\ ByteOf(w, 2) \in 0..255
      /\ w = 256 * a + ByteOf(w, 0) /\ a = 256 * b + ByteOf(w, 1) /\ b = 256 * c + ByteOf(w, 2)
      /\ ByteOf(w, 3) = c % 256 /\ ByteOf(w, 3) \in 0..255
  <2> HIDE DEF a, b, c
  <2> QED
    BY <1>1, <1>2, <1>3, <1>5, <1>6, <1>8, SMT
<1> QED
  BY <1>9

\* dx_read_int reads the four bytes of a half word as that half word.
LEMMA WordBack ==
  ASSUME NEW w \in Half
  PROVE  SignExtend(ByteOf(w, 3), 8) * 2^24 + ByteOf(w, 2) * 2^16 + ByteOf(w, 1) * 2^8 + ByteOf(w, 0) = w
<1> DEFINE a == Rest(w)
           b == Rest(a)
           c == Rest(b)
           x == ByteOf(w, 0)
           y == ByteOf(w, 1)
           z == ByteOf(w, 2)
           t == ByteOf(w, 3)
<1>0. w \in Int
  BY SMT DEF Half
<1>1. /\ a \in Int /\ b \in Int /\ c \in Int /\ x \in 0..255 /\ y \in 0..255 /\ z \in 0..255
      /\ w = 256 * a + x /\ a = 256 * b + y /\ b = 256 * c + z /\ t = c % 256
  BY <1>0, Digits
<1> HIDE DEF a, b, c, x, y, z, t
<1>2. -(2^31) <= w /\ w < 2^31
  BY SMT DEF Half
<1>3. c \in -128..127
  BY <1>0, <1>1, <1>2, SMTT(30)
<1>4. SignExtend(t, 8) = c
  BY <1>1, <1>3, SMT DEF SignExtend
<1>5. c * 16777216 + z * 65536 + y * 256 + x = w
  BY <1>0, <1>1, SMT
<1>6. SignExtend(t, 8) * 2^24 + z * 2^16 + y * 2^8 + x = w
  BY <1>1, <1>4, <1>5, SMT
<1> QED
  BY <1>6 DEF x, y, z, t

\* ((n << k) >> k) gives a number back that is kept in two's complement.
LEMMA SignBack ==
  ASSUME NEW w \in Int, NEW bits \in {3, 7, 8, 10, 14, 17, 21, 24, 28},
         -(2^(bits - 1)) <= w, w < 2^(bits - 1)
  PROVE  SignExtend(IF w < 0 THEN w + 2^bits ELSE w, bits) = w
<1>1. CASE bits = 3
  BY <1>1, SMT DEF SignExtend
<1>2. CASE bits = 7
  BY <1>2, SMT DEF SignExtend
<1>3. CASE bits = 8
  BY <1>3, SMT DEF SignExtend
<1>4. CASE bits = 10
  BY <1>4, SMT DEF SignExtend
<1>5. CASE bits = 14
  BY <1>5, SMT DEF SignExtend
<1>6. CASE bits = 17
  BY <1>6, SMT DEF SignExtend
<1>7. CASE bits = 21
  BY <1>7, SMT DEF SignExtend
<1>8. CASE bits = 24
  BY <1>8, SMT DEF SignExtend
<1>9. CASE bits = 28
  BY <1>9, SMT DEF SignExtend
<1> QED
  BY <1>1, <1>2, <1>3, <1>4, <1>5, <1>6, <1>7, <1>8, <1>9, SMT

\* The bits that the first byte has room for.
LEMMA TopBits ==
  ASSUME NEW w \in Int, NEW room \in {2, 4, 8, 16, 32, 64, 128}, -room <= 2 * w, 2 * w < room
  PROVE  (w % 256) % room = IF w < 0 THEN w + room ELSE w
<1>1. CASE room = 2
  BY <1>1, SMT
<1>2. CASE room = 4
  BY <1>2, SMT
<1>3. CASE room = 8
  BY <1>3, SMT
<1>4. CASE room = 16
  BY <1>4, SMT
<1>5. CASE room = 32
  BY <1>5, SMT
<1>6. CASE room = 64
  BY <1>6, SMT
<1>7. CASE room = 128
  BY <1>7, SMT
<1> QED
  BY <1>1, <1>2, <1>3, <1>4, <1>5, <1>6, <1>7, SMT

\* A number in two's complement, in so many bits.
Wrapped(w, bits) == IF w < 0 THEN w + 2^bits ELSE w

\* What the writers put in the room of the first byte and in the bytes behind it
\* is the number in two's complement, for each number of bytes.
LEMMA BitsBack ==
  ASSUME NEW w \in Int
  PROVE  /\ Within(w, 6) => /\ ByteOf(w, 0) % 128 \in 0..127
                            /\ (ByteOf(w, 0) % 128) = Wrapped(w, 7)
         /\ Within(w, 13) => /\ ByteOf(w, 1) % 64 \in 0..63
                             /\ (ByteOf(w, 1) % 64) * 2^8 + ByteOf(w, 0) = Wrapped(w, 14)
         /\ Within(w, 20) => /\ ByteOf(w, 2) % 32 \in 0..31
                             /\ (ByteOf(w, 2) % 32) * 2^16 + ByteOf(w, 0) + ByteOf(w, 1) * 2^8 = Wrapped(w, 21)
         /\ Within(w, 27) => /\ ByteOf(w, 3) % 16 \in 0..15
                             /\ (ByteOf(w, 3) % 16) * 2^24 + ByteOf(w, 0) + ByteOf(w, 1) * 2^8 + ByteOf(w, 2) * 2^16 = Wrapped(w, 28)
         /\ Within(w, 2) => /\ ByteOf(w, 0) % 8 \in 0..7
                            /\ (ByteOf(w, 0) % 8) = Wrapped(w, 3)
         /\ Within(w, 9) => /\ ByteOf(w, 1) % 4 \in 0..3
                            /\ (ByteOf(w, 1) % 4) * 2^8 + ByteOf(w, 0) = Wrapped(w, 10)
         /\ Within(w, 16) => /\ ByteOf(w, 2) % 2 \in 0..1
                             /\ (ByteOf(w, 2) % 2) * 2^16 + ByteOf(w, 0) + ByteOf(w, 1) * 2^8 = Wrapped(w, 17)
         /\ Within(w, 23) => ByteOf(w, 0) + ByteOf(w, 1) * 2^8 + ByteOf(w, 2) * 2^16 = Wrapped(w, 24)
<1> DEFINE a == Rest(w)
           b == Rest(a)
           c == Rest(b)
           x == ByteOf(w, 0)
           y == ByteOf(w, 1)
           z == ByteOf(w, 2)
           t == ByteOf(w, 3)
<1>0. /\ a \in Int /\ b \in Int /\ c \in Int /\ x \in 0..255 /\ y \in 0..255 /\ z \in 0..255
      /\ w = 256 * a + x /\ a = 256 * b + y /\ b = 256 * c + z /\ t = c % 256
  BY Digits
<1> HIDE DEF a, b, c, x, y, z, t
<1>1. ASSUME Within(w, 6) PROVE x % 128 \in 0..127 /\ (x % 128) = Wrapped(w, 7)
  <2> DEFINE f == x % 128
  <2>1. w \in Int /\ -128 <= 2 * w /\ 2 * w < 128
    BY <1>0, <1>1, SMT DEF Within
  <2>2. x = w % 256
    BY <1>0, SMT
  <2>3. f = IF w < 0 THEN w + 128 ELSE w
    BY <2>1, <2>2, TopBits
  <2> HIDE DEF f
  <2>4. f \in 0..127 /\ f = Wrapped(w, 7)
    BY <1>0, <2>1, <2>3, SMT DEF Wrapped
  <2> QED
    BY <2>4 DEF f
<1>2. ASSUME Within(w, 13) PROVE y % 64 \in 0..63 /\ (y % 64) * 2^8 + x = Wrapped(w, 14)
  <2> DEFINE f == y % 64
  <2>1. a \in Int /\ -64 <= 2 * a /\ 2 * a < 64
    BY <1>0, <1>2, SMT DEF Within
  <2>2. y = a % 256
    BY <1>0, SMT
  <2>3. f = IF a < 0 THEN a + 64 ELSE a
    BY <2>1, <2>2, TopBits
  <2> HIDE DEF f
  <2>4. f \in 0..63 /\ f * 2^8 + x = Wrapped(w, 14)
    BY <1>0, <2>1, <2>3, SMT DEF Wrapped
  <2> QED
    BY <2>4 DEF f
<1>3. ASSUME Within(w, 20) PROVE z % 32 \in 0..31 /\ (z % 32) * 2^16 + x + y * 2^8 = Wrapped(w, 21)
  <2> DEFINE f == z % 32
  <2>1. b \in Int /\ -32 <= 2 * b /\ 2 * b < 32
    BY <1>0, <1>3, SMT DEF Within
  <2>2. z = b % 256
    BY <1>0, SMT
  <2>3. f = IF b < 0 THEN b + 32 ELSE b
    BY <2>1, <2>2, TopBits
  <2> HIDE DEF f
  <2>4. f \in 0..31 /\ f * 2^16 + x + y * 2^8 = Wrapped(w, 21)
    BY <1>0, <2>1, <2>3, SMT DEF Wrapped
  <2> QED
    BY <2>4 DEF f
<1>4. ASSUME Within(w, 27) PROVE t % 16 \in 0..15 /\ (t % 16) * 2^24 + x + y * 2^8 + z * 2^16 = Wrapped(w, 28)
  <2> DEFINE f == t % 16
  <2>1. c \in Int /\ -16 <= 2 * c /\ 2 * c < 16
    BY <1>0, <1>4, SMT DEF Within
  <2>2. t = c % 256
    BY <1>0, SMT
  <2>3. f = IF c < 0 THEN c + 16 ELSE c
    BY <2>1, <2>2, TopBits
  <2> HIDE DEF f
  <2>4. f \in 0..15 /\ f * 2^24 + x + y * 2^8 + z * 2^16 = Wrapped(w, 28)
    BY <1>0, <2>1, <2>3, SMT DEF Wrapped
  <2> QED
    BY <2>4 DEF f
<1>5. ASSUME Within(w, 2) PROVE x % 8 \in 0..7 /\ (x % 8) = Wrapped(w, 3)
  <2> DEFINE f == x % 8
  <2>1. w \in Int /\ -8 <= 2 * w /\ 2 * w < 8
    BY <1>0, <1>5, SMT DEF Within
  <2>2. x = w % 256
    BY <1>0, SMT
  <2>3. f = IF w < 0 THEN w + 8 ELSE w
    BY <2>1, <2>2, TopBits
  <2> HIDE DEF f
  <2>4. f \in 0..7 /\ f = Wrapped(w, 3)
    BY <1>0, <2>1, <2>3, SMT DEF Wrapped
  <2> QED
    BY <2>4 DEF f
<1>6. ASSUME Within(w, 9) PROVE y % 4 \in 0..3 /\ (y % 4) * 2^8 + x = Wrapped(w, 10)
  <2> DEFINE f == y % 4
  <2>1. a \in Int /\ -4 <= 2 * a /\ 2 * a < 4
    BY <1>0, <1>6, SMT DEF Within
  <2>2. y = a % 256
    BY <1>0, SMT
  <2>3. f = IF a < 0 THEN a + 4 ELSE a
    BY <2>1, <2>2, TopBits
  <2> HIDE DEF f
  <2>4. f \in 0..3 /\ f * 2^8 + x = Wrapped(w, 10)
    BY <1>0, <2>1, <2>3, SMT DEF Wrapped
  <2> QED
    BY <2>4 DEF f
<1>7. ASSUME Within(w, 16) PROVE z % 2 \in 0..1 /\ (z % 2) * 2^16 + x + y * 2^8 = Wrapped(w, 17)
  <2> DEFINE f == z % 2
  <2>1. b \in Int /\ -2 <= 2 * b /\ 2 * b < 2
    BY <1>0, <1>7, SMT DEF Within
  <2>2. z = b % 256
    BY <1>0, SMT
  <2>3. f = IF b < 0 THEN b + 2 ELSE b
    BY <2>1, <2>2, TopBits
  <2> HIDE DEF f
  <2>4. f \in 0..1 /\ f * 2^16 + x + y * 2^8 = Wrapped(w, 17)
    BY <1>0, <2>1, <2>3, SMT DEF Wrapped
  <2> QED
    BY <2>4 DEF f
<1>8. ASSUME Within(w, 23) PROVE x + y * 2^8 + z * 2^16 = Wrapped(w, 24)
  <2>1. -128 <= b /\ b < 128
    BY <1>0, <1>8, SMT DEF Within
  <2>2. z = IF b < 0 THEN b + 256 ELSE b
    BY <1>0, <2>1, SMT
  <2> QED
    BY <1>0, <2>1, <2>2, SMT DEF Wrapped
<1> QED
  BY <1>1, <1>2, <1>3, <1>4, <1>5, <1>6, <1>7, <1>8 DEF x, y, z, t

\* The longs of 64 bits.
LongWords == [hi : Half, lo : Half]

\* The bits that the first byte has left for the number.
LEMMA Rooms ==
  /\ Room(1) = 128 /\ Room(2) = 64 /\ Room(3) = 32 /\ Room(4) = 16 /\ Room(5) = 8
  /\ Room(6) = 4 /\ Room(7) = 2 /\ Room(8) = 1 /\ Room(9) = 1
BY SMT DEF Room

\* The first byte tells the reader how many bytes the writer wrote.
LEMMA SizeBack ==
  ASSUME NEW n \in 1..9, NEW f \in Int, 0 <= f, f < Room(n)
  PROVE  Marker(n) + f \in 0..255 /\ SizeOf[Marker(n) + f] = n
<1> DEFINE first == Marker(n) + f
           Of(m) == Marker(m) <= first /\ (m < 9 => first < Marker(m + 1))
<1>1. first \in 0..255 /\ Of(n)
  BY Markers, Rooms, SMT
<1>2. ASSUME NEW m \in 1..9, Of(m) PROVE m = n
  <2>1. \A i, j \in 1..9 : i < j => Marker(i + 1) <= Marker(j)
    BY Markers, SMT
  <2>2. Marker(m) \in Int /\ Marker(n) \in Int /\ (m < 9 => Marker(m + 1) \in Int) /\ (n < 9 => Marker(n + 1) \in Int)
    BY Markers, SMT
  <2>3. first \in Int
    BY <1>1
  <2> HIDE DEF first
  <2> QED
    BY <1>1, <1>2, <2>1, <2>2, <2>3, SMT
<1>3. SizeOf[first] = CHOOSE m \in 1..9 : Of(m)
  <2> HIDE DEF first
  <2> QED
    BY <1>1, Zenon DEF SizeOf
<1> HIDE DEF Of
<1>4. SizeOf[first] = n
  BY <1>1, <1>2, <1>3
<1> QED
  BY <1>1, <1>4

\* dx_get_compact_size finds a size that the number fits in.
LEMMA SizeFits ==
  ASSUME NEW v \in LongWords PROVE CompactSize(v) \in 1..9 /\ Fits(v, CompactSize(v))
<1> DEFINE Least(n) == Fits(v, n) /\ \A m \in 1..(n - 1) : ~Fits(v, m)
<1>1. Fits(v, 9)
  BY DEF Fits
<1>2. \E n \in 1..9 : Least(n)
  <2> DEFINE F(n) == Fits(v, n)
  <2> HIDE DEF F
  <2>1. F(9)
    BY <1>1 DEF F
  <2>2. \E n \in 1..9 : F(n) /\ \A m \in 1..(n - 1) : ~F(m)
    BY <2>1, SMT
  <2> QED
    BY <2>2 DEF F
<1>3. CompactSize(v) = CHOOSE n \in 1..9 : Least(n)
  BY DEF CompactSize
<1> HIDE DEF Least
<1>4. CompactSize(v) \in 1..9 /\ Least(CompactSize(v))
  BY <1>2, <1>3
<1> QED
  BY <1>4 DEF Least

\* The readers get back what the writers wrote, for every long and every int:
\* dx_read_compact_int the low half, dx_read_compact_long all of it, but for the
\* sign of a number in two bytes; and they stop behind the last byte.
THEOREM CompactRoundTrip ==
  ASSUME NEW v \in LongWords, NEW b, NEW p \in Int,
         \A k \in 1..CompactSize(v) : b[p + k - 1] = WriteCompact(v)[k]
  PROVE  /\ b[p] \in 0..255 /\ SizeOf[b[p]] = CompactSize(v)
         /\ ReadCompactLong(b, p) = AsLong(v)
         /\ ReadCompactInt(b, p) = v.lo
<1> DEFINE n == CompactSize(v)
           first == LongByte(v, n - 1) % Room(n)
           lo == v.lo
           hi == v.hi
<1>1. n \in 1..9 /\ Fits(v, n)
  BY SizeFits
<1>2. /\ lo \in Half /\ hi \in Half /\ v = [hi |-> hi, lo |-> lo]
  BY DEF LongWords
<1>3. lo \in Int /\ hi \in Int
  BY <1>2, SMT DEF Half
<1>4. \A k \in 1..n : WriteCompact(v)[k] = IF k = 1 THEN Marker(n) + first ELSE LongByte(v, n - k)
  BY DEF WriteCompact
<1>5. /\ b[p] = Marker(n) + first
      /\ \A k \in 2..n : b[p + k - 1] = LongByte(v, n - k)
  <2>1. 1 \in 1..n /\ p + 1 - 1 = p
    BY <1>1
  <2>2. \A k \in 2..n : k \in 1..n /\ k # 1
    BY <1>1
  <2> HIDE DEF n
  <2> QED
    BY <1>4, <2>1, <2>2 DEF n
<1>13. \A w \in Int : ByteOf(w, 0) \in Int /\ ByteOf(w, 1) \in Int /\ ByteOf(w, 2) \in Int /\ ByteOf(w, 3) \in Int
  <2> SUFFICES ASSUME NEW w \in Int
               PROVE  ByteOf(w, 0) \in Int /\ ByteOf(w, 1) \in Int /\ ByteOf(w, 2) \in Int /\ ByteOf(w, 3) \in Int
    OBVIOUS
  <2>1. ByteOf(w, 0) \in 0..255 /\ ByteOf(w, 1) \in 0..255 /\ ByteOf(w, 2) \in 0..255 /\ ByteOf(w, 3) \in 0..255
    BY Digits
  <2> QED
    BY <2>1
<1>6. first \in Int /\ 0 <= first /\ first < Room(n)
  <2>1. LongByte(v, n - 1) \in Int
    <3>2. Sign(v.hi) % 256 \in Int
      BY DEF Sign
    <3> QED
      BY <1>1, <1>3, <1>13, <3>2, SMT DEF LongByte
  <2> QED
    BY <1>1, <2>1, Rooms, SMT
<1>7. b[p] \in 0..255 /\ SizeOf[b[p]] = n /\ b[p] - Marker(n) = first
  <2>1. Marker(n) \in Int
    BY <1>1, Markers, SMT
  <2> HIDE DEF first, n
  <2> QED
    BY <1>1, <1>5, <1>6, <2>1, SizeBack
<1>8. ReadCompactLong(b, p) =
        CASE n = 2         -> Long(Bits(b, p, first, 2))
          [] n \in {1, 3, 4} -> Long(SignExtend(Bits(b, p, first, n), 7 * n))
          [] OTHER         -> [hi |-> IF n = 9 THEN Word4(b, p + 1)
                                      ELSE SignExtend(Bits(b, p, first, n - 4), 7 * n - 32),
                               lo |-> Word4(b, p + n - 4)]
  <2> HIDE DEF n, first
  <2> QED
    BY <1>7, Zenon DEF ReadCompactLong
<1>9. ReadCompactInt(b, p) = IF n = 2 THEN SignExtend(Bits(b, p, first, 2), 14) ELSE ReadCompactLong(b, p).lo
  <2> HIDE DEF n, first
  <2> QED
    BY <1>7, Zenon DEF ReadCompactInt
<1> HIDE DEF n
<1>10. ASSUME NEW w \in Int, NEW bits \in {3, 7, 8, 10, 14, 17, 21, 24, 28}, Within(w, bits - 1)
       PROVE  SignExtend(Wrapped(w, bits), bits) = w
  BY <1>10, SignBack DEF Within, Wrapped
<1>11. LongByte(v, 0) = ByteOf(lo, 0) /\ LongByte(v, 1) = ByteOf(lo, 1) /\ LongByte(v, 2) = ByteOf(lo, 2)
       /\ LongByte(v, 3) = ByteOf(lo, 3) /\ LongByte(v, 4) = ByteOf(hi, 0) /\ LongByte(v, 5) = ByteOf(hi, 1)
       /\ LongByte(v, 6) = ByteOf(hi, 2) /\ LongByte(v, 7) = ByteOf(hi, 3)
  BY SMT DEF LongByte
<1>12. n # 2 => AsLong(v) = v
  BY DEF AsLong, n
<1>20. CASE n = 1
  <2>1. hi = Sign(lo) /\ Within(lo, 6)
    BY <1>1, <1>20, SMT DEF Fits
  <2>2. Bits(b, p, first, 1) = first
    BY <1>6, SMT DEF Bits
  <2>3. first = ByteOf(lo, 0) % 128
    BY <1>11, <1>20, Rooms
  <2>4. SignExtend(first, 7) = lo
    BY <1>3, <1>10, <2>1, <2>3, BitsBack
  <2>5. ReadCompactLong(b, p) = Long(lo)
    BY <1>8, <1>20, <2>2, <2>4
  <2> QED
    BY <1>2, <1>7, <1>9, <1>12, <1>20, <2>1, <2>5 DEF Long, n
<1>21. CASE n = 3
  <2>1. hi = Sign(lo) /\ Within(lo, 20)
    BY <1>1, <1>21, SMT DEF Fits
  <2>2. b[p + 1] = ByteOf(lo, 1) /\ b[p + 2] = ByteOf(lo, 0)
    BY <1>5, <1>11, <1>21, SMT
  <2>3. first = ByteOf(lo, 2) % 32
    BY <1>11, <1>21, Rooms
  <2>4. Bits(b, p, first, 3) = first * 2^16 + b[p + 2] + b[p + 1] * 2^8
    BY <1>3, <1>6, <1>13, <2>2, SMT DEF Bits
  <2>5. Bits(b, p, first, 3) = Wrapped(lo, 21)
    BY <1>3, <2>1, <2>2, <2>3, <2>4, BitsBack
  <2>6. SignExtend(Bits(b, p, first, 3), 21) = lo
    BY <1>3, <1>10, <2>1, <2>5
  <2>7. ReadCompactLong(b, p) = Long(lo)
    BY <1>8, <1>21, <2>6, SMT
  <2> QED
    BY <1>2, <1>7, <1>9, <1>12, <1>21, <2>1, <2>7 DEF Long, n
<1>22. CASE n = 4
  <2>1. hi = Sign(lo) /\ Within(lo, 27)
    BY <1>1, <1>22, SMT DEF Fits
  <2>2. b[p + 1] = ByteOf(lo, 2) /\ b[p + 2] = ByteOf(lo, 1) /\ b[p + 3] = ByteOf(lo, 0)
    BY <1>5, <1>11, <1>22, SMT
  <2>3. first = ByteOf(lo, 3) % 16
    BY <1>11, <1>22, Rooms
  <2>4. Bits(b, p, first, 4) = first * 2^24 + b[p + 3] + b[p + 2] * 2^8 + b[p + 1] * 2^16
    BY <1>3, <1>6, <1>13, <2>2, SMT DEF Bits
  <2>5. Bits(b, p, first, 4) = Wrapped(lo, 28)
    BY <1>3, <2>1, <2>2, <2>3, <2>4, BitsBack
  <2>6. SignExtend(Bits(b, p, first, 4), 28) = lo
    BY <1>3, <1>10, <2>1, <2>5
  <2>7. ReadCompactLong(b, p) = Long(lo)
    BY <1>8, <1>22, <2>6, SMT
  <2> QED
    BY <1>2, <1>7, <1>9, <1>12, <1>22, <2>1, <2>7 DEF Long, n
<1>23. CASE n = 2
  <2>1. hi = Sign(lo) /\ Within(lo, 13)
    BY <1>1, <1>23, SMT DEF Fits
  <2>2. b[p + 1] = ByteOf(lo, 0)
    BY <1>5, <1>11, <1>23, SMT
  <2>3. first = ByteOf(lo, 1) % 64
    BY <1>11, <1>23, Rooms
  <2>4. Bits(b, p, first, 2) = first * 2^8 + b[p + 1]
    BY <1>3, <1>6, <1>13, <2>2, SMT DEF Bits
  <2>5. Bits(b, p, first, 2) = Wrapped(lo, 14)
    BY <1>3, <2>1, <2>2, <2>3, <2>4, BitsBack
  <2>6. SignExtend(Bits(b, p, first, 2), 14) = lo
    BY <1>3, <1>10, <2>1, <2>5
  <2>7. ReadCompactInt(b, p) = lo
    BY <1>9, <1>23, <2>6
  <2>8. ReadCompactLong(b, p) = Long(Wrapped(lo, 14))
    BY <1>8, <1>23, <2>5
  <2>9. AsLong(v) = IF lo < 0 THEN Long(lo + 2^14) ELSE v
    BY <1>23 DEF AsLong, n
  <2>10. v = Long(lo)
    BY <1>2, <2>1 DEF Long
  <2> QED
    BY <1>7, <1>23, <2>7, <2>8, <2>9, <2>10 DEF Wrapped, n
<1>24. CASE n >= 5
  <2>1. Word4(b, p + n - 4) = lo
    <3>1. /\ n - 3 \in 2..n /\ n - 2 \in 2..n /\ n - 1 \in 2..n /\ n \in 2..n
          /\ p + (n - 3) - 1 = p + n - 4 /\ p + (n - 2) - 1 = p + n - 4 + 1
          /\ p + (n - 1) - 1 = p + n - 4 + 2 /\ p + n - 1 = p + n - 4 + 3
          /\ n - (n - 3) = 3 /\ n - (n - 2) = 2 /\ n - (n - 1) = 1 /\ n - n = 0
      BY <1>1, <1>24, SMT
    <3>2. /\ b[p + n - 4] = ByteOf(lo, 3) /\ b[p + n - 4 + 1] = ByteOf(lo, 2)
          /\ b[p + n - 4 + 2] = ByteOf(lo, 1) /\ b[p + n - 4 + 3] = ByteOf(lo, 0)
      BY <1>5, <1>11, <3>1
    <3> QED
      BY <1>2, <3>2, WordBack DEF Word4
  <2>2. ASSUME ReadCompactLong(b, p) = v PROVE ReadCompactInt(b, p) = lo /\ ReadCompactLong(b, p) = AsLong(v)
    BY <1>9, <1>12, <1>24, <2>2
  <2>9. CASE n = 9
    <3>1. b[p + 1] = ByteOf(hi, 3) /\ b[p + 1 + 1] = ByteOf(hi, 2) /\ b[p + 1 + 2] = ByteOf(hi, 1) /\ b[p + 1 + 3] = ByteOf(hi, 0)
      BY <1>5, <1>11, <2>9, SMT
    <3>2. Word4(b, p + 1) = hi
      BY <1>2, <3>1, WordBack DEF Word4
    <3>3. ReadCompactLong(b, p) = [hi |-> hi, lo |-> lo]
      BY <1>8, <2>1, <2>9, <3>2, SMT
    <3> QED
      BY <1>2, <1>7, <2>2, <3>3 DEF n
  <2> DEFINE high == Bits(b, p, first, n - 4)
  <2>3. CASE n = 5
    <3>1. Within(hi, 2)
      BY <1>1, <2>3, SMT DEF Fits
    <3>3. first = ByteOf(hi, 0) % 8
      BY <1>11, <2>3, Rooms
    <3>4. high = first
      BY <1>6, <2>3, SMT DEF Bits
    <3>5. high = Wrapped(hi, 3)
      BY <1>3, <3>1, <3>3, <3>4, BitsBack
    <3>6. SignExtend(high, 3) = hi
      BY <1>3, <1>10, <3>1, <3>5
    <3>7. 7 * n - 32 = 3
      BY <2>3
    <3>8. ReadCompactLong(b, p) = [hi |-> hi, lo |-> lo]
      BY <1>8, <2>1, <2>3, <3>6, <3>7, SMT
    <3> QED
      BY <1>2, <1>7, <2>2, <3>8 DEF n
  <2>4. CASE n = 6
    <3>1. Within(hi, 9)
      BY <1>1, <2>4, SMT DEF Fits
    <3>2. b[p + 1] = ByteOf(hi, 0)
      BY <1>5, <1>11, <2>4, SMT
    <3>3. first = ByteOf(hi, 1) % 4
      BY <1>11, <2>4, Rooms
    <3>4. high = first * 2^8 + b[p + 1]
      BY <1>3, <1>6, <1>13, <2>4, <3>2, SMT DEF Bits
    <3>5. high = Wrapped(hi, 10)
      BY <1>3, <3>1, <3>2, <3>3, <3>4, BitsBack
    <3>6. SignExtend(high, 10) = hi
      BY <1>3, <1>10, <3>1, <3>5
    <3>7. 7 * n - 32 = 10
      BY <2>4
    <3>8. ReadCompactLong(b, p) = [hi |-> hi, lo |-> lo]
      BY <1>8, <2>1, <2>4, <3>6, <3>7, SMT
    <3> QED
      BY <1>2, <1>7, <2>2, <3>8 DEF n
  <2>5. CASE n = 7
    <3>1. Within(hi, 16)
      BY <1>1, <2>5, SMT DEF Fits
    <3>2. b[p + 1] = ByteOf(hi, 1) /\ b[p + 2] = ByteOf(hi, 0)
      BY <1>5, <1>11, <2>5, SMT
    <3>3. first = ByteOf(hi, 2) % 2
      BY <1>11, <2>5, Rooms
    <3>4. high = first * 2^16 + b[p + 2] + b[p + 1] * 2^8
      BY <1>3, <1>6, <1>13, <2>5, <3>2, SMT DEF Bits
    <3>5. high = Wrapped(hi, 17)
      BY <1>3, <3>1, <3>2, <3>3, <3>4, BitsBack
    <3>6. SignExtend(high, 17) = hi
      BY <1>3, <1>10, <3>1, <3>5
    <3>7. 7 * n - 32 = 17
      BY <2>5
    <3>8. ReadCompactLong(b, p) = [hi |-> hi, lo |-> lo]
      BY <1>8, <2>1, <2>5, <3>6, <3>7, SMT
    <3> QED
      BY <1>2, <1>7, <2>2, <3>8 DEF n
  <2>6. CASE n = 8
    <3>1. Within(hi, 23)
      BY <1>1, <2>6, SMT DEF Fits
    <3>2. b[p + 1] = ByteOf(hi, 2) /\ b[p + 2] = ByteOf(hi, 1) /\ b[p + 3] = ByteOf(hi, 0)
      BY <1>5, <1>11, <2>6, SMT
    <3>3. first = 0
      BY <1>6, <2>6, Rooms, SMT
    <3>4. high = first * 2^24 + b[p + 3] + b[p + 2] * 2^8 + b[p + 1] * 2^16
      BY <1>3, <1>6, <1>13, <2>6, <3>2, SMT DEF Bits
    <3>5. high = Wrapped(hi, 24)
      <4>1. high = b[p + 3] + b[p + 2] * 2^8 + b[p + 1] * 2^16
        BY <1>3, <1>13, <3>2, <3>3, <3>4, SMT
      <4> HIDE DEF high
      <4> QED
        BY <1>3, <3>1, <3>2, <4>1, BitsBack
    <3>6. SignExtend(high, 24) = hi
      BY <1>3, <1>10, <3>1, <3>5
    <3>7. 7 * n - 32 = 24
      BY <2>6
    <3>8. ReadCompactLong(b, p) = [hi |-> hi, lo |-> lo]
      BY <1>8, <2>1, <2>6, <3>6, <3>7, SMT
    <3> QED
      BY <1>2, <1>7, <2>2, <3>8 DEF n
  <2>10. n \in {5, 6, 7, 8, 9}
    BY <1>1, <1>24, SMT
  <2> QED
    BY <2>3, <2>4, <2>5, <2>6, <2>9, <2>10
<1> QED
  BY <1>1, <1>20, <1>21, <1>22, <1>23, <1>24, SMT

-----------------------------------------------------------------------------
\* Every code of ten bits stands for an ASCII character, or for none.
LEMMA CharacterType == \A code \in 0..1023 : PentaCharacters[code] \in 0..127
<1>1. Encodable \subseteq 0..127
  BY DEF Encodable
<1> SUFFICES ASSUME NEW code \in 0..1023 PROVE PentaCharacters[code] \in 0..127
  BY Zenon
<1>2. PentaCharacters[code] = IF \E c \in Encodable : Pentas[c] = code
                              THEN CHOOSE c \in Encodable : Pentas[c] = code ELSE 0
  BY DEF PentaCharacters
<1> QED
  BY <1>1, <1>2

\* The recursive function of PentaToString exists, and satisfies its definition.
LEMMA CharactersDef ==
  ASSUME NEW g
  PROVE  Characters(g) =
           [n \in 0..7 |->
              IF n = 0 THEN <<>>
              ELSE IF g[8 - n] >= 30 /\ n > 1
                   THEN <<PentaCharacters[32 * g[8 - n] + g[9 - n]]>> \o Characters(g)[n - 2]
              ELSE <<PentaCharacters[g[8 - n]]>> \o Characters(g)[n - 1]]
<1> DEFINE Two(n) == g[8 - n] >= 30 /\ n > 1
           Wide(n) == <<PentaCharacters[32 * g[8 - n] + g[9 - n]]>>
           Narrow(n) == <<PentaCharacters[g[8 - n]]>>
           Body(f, n) == IF n = 0 THEN <<>> ELSE IF Two(n) THEN Wide(n) \o f[n - 2] ELSE Narrow(n) \o f[n - 1]
           G == {m \in 0..7 : \E f : f = [n \in 0..m |-> Body(f, n)]}
<1>0. \A n \in 0..7 : Two(n) => n > 1
  OBVIOUS
<1> HIDE DEF Two, Wide, Narrow
<1>1. 0 \in G
  <2> DEFINE e == [n \in 0..0 |-> <<>>]
  <2>1. e = [n \in 0..0 |-> Body(e, n)]
    OBVIOUS
  <2>2. \E f : f = [n \in 0..0 |-> Body(f, n)]
    <3> HIDE DEF e, Body
    <3> QED
      BY <2>1
  <2> QED
    BY <2>2
<1>2. ASSUME NEW m \in 1..7, m - 1 \in G PROVE m \in G
  <2>1. PICK f : f = [n \in 0..(m - 1) |-> Body(f, n)]
    BY <1>2
  <2> DEFINE e == [n \in 0..m |-> IF n < m THEN f[n] ELSE Body(f, m)]
  <2>2. ASSUME NEW n \in 0..m PROVE e[n] = Body(e, n)
    <3>1. e[n] = Body(f, n)
      <4>1. CASE n < m
        <5>1. n \in 0..(m - 1)
          BY <4>1
        <5>2. f[n] = Body(f, n)
          <6> HIDE DEF Body
          <6> QED
            BY <2>1, <5>1
        <5> QED
          BY <4>1, <5>2
      <4>2. CASE n = m
        BY <4>2
      <4> QED
        BY <4>1, <4>2
    <3>2. n > 0 => e[n - 1] = f[n - 1]
      OBVIOUS
    <3>3. n > 1 => e[n - 2] = f[n - 2]
      OBVIOUS
    <3> QED
      BY <1>0, <3>1, <3>2, <3>3
  <2>3. e = [n \in 0..m |-> Body(e, n)]
    BY <2>2
  <2>4. \E h : h = [n \in 0..m |-> Body(h, n)]
    <3> HIDE DEF e, Body
    <3> QED
      BY <2>3
  <2>5. m \in 0..7
    OBVIOUS
  <2> HIDE DEF Body
  <2> QED
    BY <2>4, <2>5
<1>3. 7 \in G
  <2> HIDE DEF G
  <2>1. 1 \in G
    BY <1>1, <1>2
  <2>2. 2 \in G
    BY <2>1, <1>2
  <2>3. 3 \in G
    BY <2>2, <1>2
  <2>4. 4 \in G
    BY <2>3, <1>2
  <2>5. 5 \in G
    BY <2>4, <1>2
  <2>6. 6 \in G
    BY <2>5, <1>2
  <2> QED
    BY <2>6, <1>2
<1>4. \E f : f = [n \in 0..7 |-> Body(f, n)]
  BY <1>3
<1> QED
  BY <1>4, Zenon DEF Characters, Two, Wide, Narrow

\* Groups of five bits are read as ASCII characters.
LEMMA CharactersType ==
  ASSUME NEW g \in [1..7 -> 0..31] PROVE \A n \in 0..7 : Characters(g)[n] \in Text
<1> DEFINE f == Characters(g)
           Wide(n) == PentaCharacters[32 * g[8 - n] + g[9 - n]]
           Narrow(n) == PentaCharacters[g[8 - n]]
<1>1. f = [n \in 0..7 |-> IF n = 0 THEN <<>>
                          ELSE IF g[8 - n] >= 30 /\ n > 1 THEN <<Wide(n)>> \o f[n - 2]
                          ELSE <<Narrow(n)>> \o f[n - 1]]
  BY CharactersDef
<1>2. \A n \in 1..7 : Narrow(n) \in 0..127
  <2> SUFFICES ASSUME NEW n \in 1..7 PROVE Narrow(n) \in 0..127
    OBVIOUS
  <2> DEFINE code == g[8 - n]
  <2>1. code \in 0..1023
    OBVIOUS
  <2>2. Narrow(n) = PentaCharacters[code]
    OBVIOUS
  <2>3. PentaCharacters[code] \in 0..127
    <3> HIDE DEF code
    <3> QED
      BY <2>1, CharacterType, Zenon
  <2> QED
    BY <2>2, <2>3, Zenon
<1>3. \A n \in 2..7 : Wide(n) \in 0..127
  <2> SUFFICES ASSUME NEW n \in 2..7 PROVE Wide(n) \in 0..127
    OBVIOUS
  <2>1. g[8 - n] \in 0..31 /\ g[9 - n] \in 0..31
    BY SMTT(30)
  <2>2. 32 * g[8 - n] + g[9 - n] \in 0..1023
    BY <2>1
  <2> QED
    BY <2>2, CharacterType, Zenon
<1> HIDE DEF f, Wide, Narrow
<1>4. \A x \in 0..127 : \A s \in Text : <<x>> \o s \in Text
  BY ConcatProperties DEF Text
<1>5. f[0] \in Text
  <2>1. 0 \in 0..7
    OBVIOUS
  <2>2. f[0] = <<>>
    BY ONLY <1>1, <2>1, Zenon
  <2> QED
    BY <2>2 DEF Text
<1>6. ASSUME NEW n \in 1..7, f[n - 1] \in Text, n > 1 => f[n - 2] \in Text PROVE f[n] \in Text
  <2>1. f[n] = IF g[8 - n] >= 30 /\ n > 1 THEN <<Wide(n)>> \o f[n - 2] ELSE <<Narrow(n)>> \o f[n - 1]
    <3>1. n \in 0..7 /\ n # 0
      OBVIOUS
    <3> QED
      BY ONLY <1>1, <3>1, Zenon
  <2>2. CASE g[8 - n] >= 30 /\ n > 1
    <3>1. n \in 2..7
      BY <2>2
    <3>2. Wide(n) \in 0..127 /\ f[n - 2] \in Text
      BY <3>1, <1>3, <1>6, <2>2
    <3> QED
      BY <3>2, <1>4, <2>1, <2>2
  <2>3. CASE ~(g[8 - n] >= 30 /\ n > 1)
    BY <1>2, <1>4, <1>6, <2>1, <2>3
  <2> QED
    BY <2>2, <2>3
<1>7. f[1] \in Text
  BY <1>5, <1>6
<1>8. f[2] \in Text
  BY <1>5, <1>6, <1>7
<1>9. f[3] \in Text
  BY <1>6, <1>7, <1>8
<1>10. f[4] \in Text
  BY <1>6, <1>8, <1>9
<1>11. f[5] \in Text
  BY <1>6, <1>9, <1>10
<1>12. f[6] \in Text
  BY <1>6, <1>10, <1>11
<1>13. f[7] \in Text
  BY <1>6, <1>11, <1>12
<1>14. \A n \in 0..7 : n = 0 \/ n = 1 \/ n = 2 \/ n = 3 \/ n = 4 \/ n = 5 \/ n = 6 \/ n = 7
  OBVIOUS
<1>15. \A n \in 0..7 : f[n] \in Text
  BY <1>5, <1>7, <1>8, <1>9, <1>10, <1>11, <1>12, <1>13, <1>14
<1> QED
  BY <1>15 DEF f

\* A penta is read as ASCII characters.
LEMMA PentaText ==
  ASSUME NEW p, p.top \in 0..31, p.low \in Nat PROVE PentaToString(p) \in Text
<1> DEFINE g == Groups(p)
           zeros == {i \in 1..7 : \A j \in 1..i : g[j] = 0}
<1>1. \A i \in 1..7 : g[i] \in 0..31
  <2> SUFFICES ASSUME NEW i \in 1..7 PROVE g[i] \in 0..31
    OBVIOUS
  <2>1. g[i] = IF i = 1 THEN p.top ELSE (p.low \div 2^(35 - 5 * i)) % 32
    BY DEF Groups
  <2>2. i = 1 \/ i = 2 \/ i = 3 \/ i = 4 \/ i = 5 \/ i = 6 \/ i = 7
    OBVIOUS
  <2>3. i # 1 => (p.low \div 2^(35 - 5 * i)) \in Int
    <3>1. CASE i = 2
      BY <3>1
    <3>2. CASE i = 3
      BY <3>2
    <3>3. CASE i = 4
      BY <3>3
    <3>4. CASE i = 5
      BY <3>4
    <3>5. CASE i = 6
      BY <3>5
    <3>6. CASE i = 7
      BY <3>6
    <3> QED
      BY <2>2, <3>1, <3>2, <3>3, <3>4, <3>5, <3>6
  <2>4. \A x \in Int : x % 32 \in 0..31
    OBVIOUS
  <2> QED
    BY <2>1, <2>3, <2>4
<1>2. g \in [1..7 -> 0..31]
  BY <1>1 DEF Groups
<1>3. Cardinality(zeros) \in 0..7
  <2>1. IsFiniteSet(1..7) /\ Cardinality(1..7) = IF 1 > 7 THEN 0 ELSE 7 - 1 + 1
    <3>1. 1 \in Int /\ 7 \in Int
      OBVIOUS
    <3> QED
      BY <3>1, FS_Interval, Zenon
  <2>2. zeros \in SUBSET (1..7)
    OBVIOUS
  <2> HIDE DEF zeros
  <2>3. IsFiniteSet(zeros) /\ Cardinality(zeros) <= Cardinality(1..7)
    BY <2>1, <2>2, FS_Subset
  <2> QED
    BY <2>1, <2>3, FS_CardinalityType
<1>4. PentaToString(p) = Characters(g)[7 - Cardinality(zeros)]
  BY DEF PentaToString
<1> HIDE DEF g, zeros
<1>5. 7 - Cardinality(zeros) \in 0..7
  BY <1>3
<1> QED
  BY <1>2, <1>4, <1>5, CharactersType

\* A sequence of elements of T is a sequence over T.
LEMMA Elements ==
  ASSUME NEW S, NEW T, NEW s \in Seq(S), \A i \in 1..Len(s) : s[i] \in T
  PROVE  s \in Seq(T)
OBVIOUS

\* Two to five bytes of the buffer make a penta.
LEMMA PentaType ==
  ASSUME NEW b \in Seq(Bytes), NEW p \in 1..Len(b), p + PentaSize(b[p]) - 1 <= Len(b)
  PROVE  ReadPenta(b, p).top \in 0..31 /\ ReadPenta(b, p).low \in Nat
<1> DEFINE At(i) == b[p + i]
<1>1. PentaSize(b[p]) \in {2, 3, 4, 5}
  BY DEF PentaSize
<1>2. \A i \in 0..4 : i < PentaSize(b[p]) => At(i) \in Bytes
  BY <1>1
<1>3. \A i \in 0..4 : i < PentaSize(b[p]) => At(i) \in 0..255
  BY <1>2 DEF Bytes
<1>4. ReadPenta(b, p) =
        CASE PentaSize(b[p]) = 2 -> [top |-> 0, low |-> At(0) * 2^8 + At(1)]
          [] PentaSize(b[p]) = 3 -> [top |-> 0, low |-> (At(0) % 16) * 2^16 + At(1) * 2^8 + At(2)]
          [] PentaSize(b[p]) = 4 -> [top |-> 0, low |-> (At(0) % 64) * 2^24 + At(1) * 2^16 + At(2) * 2^8 + At(3)]
          [] PentaSize(b[p]) = 5 -> [top |-> (At(0) % 8) * 4 + (At(1) \div 64),
                                     low |-> (At(1) % 64) * 2^24 + At(2) * 2^16 + At(3) * 2^8 + At(4)]
  BY DEF ReadPenta
<1> HIDE DEF At
<1>9. /\ \A x, y \in 0..255 : x * 2^8 + y \in Nat
      /\ \A x, y, z \in 0..255 : (x % 16) * 2^16 + y * 2^8 + z \in Nat
      /\ \A x, y, z, w \in 0..255 : (x % 64) * 2^24 + y * 2^16 + z * 2^8 + w \in Nat
  <2>1. \A x \in 0..255 : x % 16 \in 0..255 /\ x % 64 \in 0..255
    OBVIOUS
  <2>2. \A x, y \in 0..255 : x * 2^8 + y \in Nat
    OBVIOUS
  <2>3. \A x, y, z \in 0..255 : x * 2^16 + y * 2^8 + z \in Nat
    OBVIOUS
  <2>4. \A x, y, z, w \in 0..255 : x * 2^24 + y * 2^16 + z * 2^8 + w \in Nat
    OBVIOUS
  <2> QED
    BY <2>1, <2>2, <2>3, <2>4, Zenon
<1>10. \A x, y \in 0..255 : (x % 8) * 4 + (y \div 64) \in 0..31
  OBVIOUS
<1>5. CASE PentaSize(b[p]) = 2
  <2>1. At(0) \in 0..255 /\ At(1) \in 0..255
    BY <1>3, <1>5
  <2>2. ReadPenta(b, p) = [top |-> 0, low |-> At(0) * 2^8 + At(1)]
    BY <1>4, <1>5
  <2>3. At(0) * 2^8 + At(1) \in Nat
    BY <2>1, <1>9, Zenon
  <2> QED
    BY <2>2, <2>3
<1>6. CASE PentaSize(b[p]) = 3
  <2>1. At(0) \in 0..255 /\ At(1) \in 0..255 /\ At(2) \in 0..255
    BY <1>3, <1>6
  <2>2. ReadPenta(b, p) = [top |-> 0, low |-> (At(0) % 16) * 2^16 + At(1) * 2^8 + At(2)]
    BY <1>4, <1>6
  <2>3. (At(0) % 16) * 2^16 + At(1) * 2^8 + At(2) \in Nat
    BY <2>1, <1>9, Zenon
  <2> QED
    BY <2>2, <2>3
<1>7. CASE PentaSize(b[p]) = 4
  <2>1. At(0) \in 0..255 /\ At(1) \in 0..255 /\ At(2) \in 0..255 /\ At(3) \in 0..255
    BY <1>3, <1>7
  <2>2. ReadPenta(b, p) = [top |-> 0, low |-> (At(0) % 64) * 2^24 + At(1) * 2^16 + At(2) * 2^8 + At(3)]
    BY <1>4, <1>7
  <2>3. (At(0) % 64) * 2^24 + At(1) * 2^16 + At(2) * 2^8 + At(3) \in Nat
    BY <2>1, <1>9, Zenon
  <2> QED
    BY <2>2, <2>3
<1>8. CASE PentaSize(b[p]) = 5
  <2>1. /\ At(0) \in 0..255 /\ At(1) \in 0..255 /\ At(2) \in 0..255
        /\ At(3) \in 0..255 /\ At(4) \in 0..255
    BY <1>3, <1>8
  <2>2. ReadPenta(b, p) = [top |-> (At(0) % 8) * 4 + (At(1) \div 64),
                           low |-> (At(1) % 64) * 2^24 + At(2) * 2^16 + At(3) * 2^8 + At(4)]
    BY <1>4, <1>8
  <2>3. (At(1) % 64) * 2^24 + At(2) * 2^16 + At(3) * 2^8 + At(4) \in Nat
    BY <2>1, <1>9, Zenon
  <2>4. (At(0) % 8) * 4 + (At(1) \div 64) \in 0..31
    BY <2>1, <1>10
  <2> QED
    BY <2>2, <2>3, <2>4
<1> QED
  BY <1>1, <1>5, <1>6, <1>7, <1>8

\* A symbol that is read is ASCII, and lies in the buffer with all its bytes.
LEMMA SymbolType ==
  ASSUME NEW b \in Seq(Bytes), NEW p \in 1..(Len(b) + 1), ReadSymbol(b, p).ok
  PROVE  /\ ReadSymbol(b, p).symbol \in Text
         /\ ReadSymbol(b, p).size \in Nat
         /\ p + ReadSymbol(b, p).size - 1 <= Len(b)
<1>1. ~Unreadable.ok /\ p <= Len(b)
  BY DEF Unreadable, ReadSymbol
<1>2. b[p] \in Bytes
  BY <1>1
<1>3. CASE b[p] \in 0..191 \cup 224..247
  <2>2. PentaSize(b[p]) \in {2, 3, 4, 5}
    BY DEF PentaSize
  <2>1. ReadSymbol(b, p) = IF p + PentaSize(b[p]) - 1 > Len(b) THEN Unreadable
                           ELSE Symbol(PentaToString(ReadPenta(b, p)), PentaSize(b[p]))
    <3> DEFINE penta == IF p + PentaSize(b[p]) - 1 > Len(b) THEN Unreadable
                        ELSE Symbol(PentaToString(ReadPenta(b, p)), PentaSize(b[p]))
    <3>0. \A x \in 0..191 \cup 224..247 : x \notin {252, 253} /\ x # 254 /\ x # 255
      OBVIOUS
    <3>1. b[p] \notin {252, 253} /\ b[p] # 254 /\ b[p] # 255
      BY <1>3, <3>0, Zenon
    <3>2. ~(p > Len(b))
      BY <1>1
    <3> HIDE DEF penta
    <3>3. ReadSymbol(b, p) = penta
      BY <1>3, <3>1, <3>2 DEF ReadSymbol, penta
    <3> QED
      BY <3>3 DEF penta
  <2>3. p + PentaSize(b[p]) - 1 <= Len(b)
    BY <1>1, <2>1, <2>2
  <2>4. ReadSymbol(b, p) = Symbol(PentaToString(ReadPenta(b, p)), PentaSize(b[p]))
    BY <2>1, <2>2, <2>3
  <2>5. PentaToString(ReadPenta(b, p)) \in Text
    BY <1>1, <2>3, PentaType, PentaText
  <2> QED
    BY <2>2, <2>3, <2>4, <2>5 DEF Symbol
<1>4. CASE b[p] \in {252, 253}
  <2> DEFINE q == p + 1
             n == ReadCompactLong(b, q)
             start == q + SizeOf[b[q]]
             sound == q <= Len(b) /\ start - 1 <= Len(b) /\ n.hi = 0 /\ n.lo >= 0 /\ n.lo <= Len(b) - start + 1
                      /\ \A i \in start..(start + n.lo - 1) : b[i] < 128
  <2>1. ReadSymbol(b, p) = ReadText(b, q)
    BY <1>1, <1>4 DEF ReadSymbol
  <2>2. ReadText(b, q) = IF sound THEN Symbol(SubSeq(b, start, start + n.lo - 1), 1 + SizeOf[b[q]] + n.lo)
                         ELSE Unreadable
    BY DEF ReadText
  <2>3. sound
    BY <1>1, <2>1, <2>2
  <2>4. q \in 1..Len(b) /\ b[q] \in Bytes
    BY <1>1, <2>3
  <2>5. SizeOf[b[q]] \in 1..9
    BY <2>4, SizeType
  <2>6. n.lo \in Nat /\ start \in Nat /\ start >= 1
    <3>1. ReadCompactLong(b, q) \in Word
      BY <2>3, <2>4, <2>5, LongType
    <3> QED
      BY <3>1, <2>3, <2>4, <2>5, SMTT(30) DEF Word
  <2>7. SubSeq(b, start, start + n.lo - 1) \in Text
    <3> DEFINE t == SubSeq(b, start, start + n.lo - 1)
    <3>1. start + n.lo - 1 <= Len(b)
      BY <2>3, <2>5, <2>6
    <3>2. \A i \in 1..n.lo : start + i - 1 \in 1..Len(b) /\ start + i - 1 \in start..(start + n.lo - 1)
      BY <2>6, <3>1
    <3>3. \A i \in 1..n.lo : b[start + i - 1] \in Bytes /\ b[start + i - 1] < 128
      BY <2>3, <3>2
    <3>4. \A x \in Bytes : x < 128 => x \in 0..127
      BY DEF Bytes
    <3>5. t \in Seq(Bytes) /\ Len(t) = n.lo /\ \A i \in 1..n.lo : t[i] = b[start + i - 1]
      <4> HIDE DEF n, start
      <4> QED
        BY <2>6, <3>1, SubSeqProperties
    <3> HIDE DEF t, n, start
    <3>6. \A i \in 1..Len(t) : t[i] \in 0..127
      BY <3>3, <3>4, <3>5
    <3>7. t \in Text
      BY <3>5, <3>6, Elements DEF Text
    <3> QED
      BY <3>7 DEF t
  <2>8. ReadSymbol(b, p) = Symbol(SubSeq(b, start, start + n.lo - 1), 1 + SizeOf[b[q]] + n.lo)
    BY <2>1, <2>2, <2>3
  <2>9. start + n.lo - 1 <= Len(b)
    BY <2>3, <2>5, <2>6
  <2>10. 1 + SizeOf[b[q]] + n.lo \in Nat /\ p + (1 + SizeOf[b[q]] + n.lo) - 1 <= Len(b)
    <3> DEFINE x == SizeOf[b[q]]
               y == n.lo
    <3>1. start = p + 1 + x /\ x \in Nat /\ y \in Nat /\ Len(b) \in Nat /\ start + y - 1 <= Len(b)
      <4>1. x \in Nat
        BY <2>5
      <4>2. start = p + 1 + x
        BY <4>1
      <4> HIDE DEF n, start
      <4> QED
        BY <2>6, <2>9, <4>1, <4>2
    <3> HIDE DEF n, start, q, x, y
    <3>2. 1 + x + y \in Nat /\ p + (1 + x + y) - 1 <= Len(b)
      BY <3>1
    <3> QED
      BY <3>2 DEF x, y
  <2> HIDE DEF n, start, sound
  <2> QED
    BY <2>7, <2>8, <2>10 DEF Symbol
<1>5. CASE b[p] = 254
  <2>1. ReadSymbol(b, p) = Symbol(<<>>, 1)
    BY <1>1, <1>5 DEF ReadSymbol
  <2>2. <<>> \in Text
    BY DEF Text
  <2> QED
    BY <1>1, <2>1, <2>2 DEF Symbol
<1>6. CASE b[p] = 255
  <2>1. ReadSymbol(b, p) = [ok |-> TRUE, symbol |-> <<>>, void |-> TRUE, size |-> 1]
    BY <1>1, <1>6 DEF ReadSymbol
  <2>2. <<>> \in Text
    BY DEF Text
  <2> QED
    BY <1>1, <2>1, <2>2
<1>7. CASE b[p] \notin 0..191 \cup 224..247 \cup {252, 253, 254, 255}
  BY <1>1, <1>7 DEF ReadSymbol
<1> QED
  BY <1>2, <1>3, <1>4, <1>5, <1>6, <1>7

\* Flags that are read lie in the buffer.
LEMMA FlagsType ==
  ASSUME NEW b \in Seq(Bytes), NEW p \in 1..(Len(b) + 1), NEW m \in Int, ReadFlags(b, p, m).ok
  PROVE  /\ ReadFlags(b, p, m).flags \in Int /\ ReadFlags(b, p, m).mru \in Int
         /\ ReadFlags(b, p, m).size \in Nat
         /\ p + ReadFlags(b, p, m).size - 1 <= Len(b)
<1>1. p <= Len(b)
  BY DEF ReadFlags, Flags
<1>2. CASE b[p] # 249
  BY <1>1, <1>2 DEF ReadFlags, Flags
<1>3. CASE b[p] = 249
  <2>1. p < Len(b) /\ ~(p + SizeOf[b[p + 1]] > Len(b))
    BY <1>1, <1>3 DEF ReadFlags, Flags
  <2>2. p + 1 \in 1..Len(b) /\ b[p + 1] \in Bytes
    BY <2>1
  <2>3. SizeOf[b[p + 1]] \in 1..9
    BY <2>2, SizeType
  <2>4. ReadCompactInt(b, p + 1) \in Int
    BY <2>1, <2>2, <2>3, LongType
  <2>5. ReadFlags(b, p, m) = Flags(TRUE, ReadCompactInt(b, p + 1), ReadCompactInt(b, p + 1), 1 + SizeOf[b[p + 1]])
    BY <1>1, <1>3, <2>1, <2>3 DEF ReadFlags, Flags
  <2> DEFINE x == SizeOf[b[p + 1]]
             f == ReadCompactInt(b, p + 1)
  <2>6. ReadFlags(b, p, m) = Flags(TRUE, f, f, 1 + x)
    BY <2>5
  <2>7. x \in 1..9 /\ f \in Int /\ p + x <= Len(b)
    BY <2>1, <2>3, <2>4, SMTT(30)
  <2> HIDE DEF x, f
  <2> QED
    BY <2>6, <2>7 DEF Flags
<1> QED
  BY <1>2, <1>3

-----------------------------------------------------------------------------
\* The inductive invariant.  Where the bytes come from:
ServerOK ==
  /\ streams \in Servers /\ nth \in 1..Len(streams)
  /\ arrived \in 0..Len(stream.wire) /\ lost \subseteq 1..arrived

\* The reader stays within its buffer, and the buffer within its memory; a
\* message that is handled ends in the buffer.
Handled == Busy \ {"message"}
InputOK ==
  /\ buffer \in Seq(Bytes) /\ capacity \in Nat /\ Len(buffer) <= capacity
  /\ pos \in 0..Len(buffer) /\ limit \in Nat
  /\ pc \in Handled => limit <= Len(buffer)

ReaderOK ==
  /\ pc \in Busy \cup {"idle", "failed", "closing", "closed"}
  /\ login \in BOOLEAN /\ cut \in BOOLEAN /\ clean \in BOOLEAN /\ broken \in BOOLEAN

RegistryOK ==
  /\ idMap \in [Ids -> Records \cup {None}]
  /\ digests \in [Records -> [types : Seq(FieldTypes), inSync : BOOLEAN]]
  /\ locks \in Nat

\* A record that is being read has a symbol and a name, and holds the guard.
ParsingOK ==
  /\ symbol \in Text \cup {None} /\ flags \in Int /\ mru \in Int
  /\ name \in Records \cup {None} /\ values \in Seq(Word) /\ todo \in Nat
  /\ delivered \in Seq([name : Records, symbol : Text, flags : Int, values : Seq(Word)])
  /\ pc \in {"id", "record"} => symbol \in Text
  /\ pc = "record" => name \in Records /\ Locks <= locks

\* What has arrived on this connection and is not yet read ends the buffer, byte
\* for byte: nothing is dropped, repeated or put elsewhere by the moving of what
\* is left to the front of the buffer (dx_append_new_data).
BufferIsStream ==
  \A k \in (pos + 1)..Len(buffer) :
    k > Len(buffer) - arrived => buffer[k] = stream.wire[arrived - Len(buffer) + k]

\* A failure leaves nothing in the buffer for the next connection.
FailureSkips == pc = "failed" => pos = Len(buffer)

FramingInv == ServerOK /\ InputOK /\ ReaderOK /\ RegistryOK /\ ParsingOK /\ BufferIsStream /\ FailureSkips

LEMMA InvIsTyped == FramingInv => TypeOK
BY DEF FramingInv, ServerOK, InputOK, ReaderOK, RegistryOK, ParsingOK, TypeOK, Bytes, Text

\* The bytes of the stream.
LEMMA StreamType == ServerOK => stream \in ServerStreams /\ stream.wire \in Seq(Bytes)
<1> SUFFICES ASSUME ServerOK PROVE stream \in ServerStreams /\ stream.wire \in Seq(Bytes)
  OBVIOUS
<1>1. streams \in Seq(ServerStreams)
  BY FramingAssumption DEF ServerOK
<1>2. stream \in ServerStreams
  BY <1>1 DEF ServerOK, stream
<1> QED
  BY <1>2 DEF ServerStreams, Bytes

\* A number that the buffer holds ends in the buffer, and so does a message
\* that is complete.
LEMMA ReadFacts ==
  ASSUME InputOK
  PROVE  \A p \in 0..Len(buffer) :
           /\ Readable(p) => /\ Next1(p) \in (p + 1)..Len(buffer)
                             /\ Long64(p) \in Word /\ Int32(p) \in Int
           /\ ~Readable(p) => Int32(p) = None
           /\ Complete(p) => Readable(p) /\ End(p) \in Next1(p)..Len(buffer)
<1> SUFFICES ASSUME NEW p \in 0..Len(buffer)
             PROVE  /\ Readable(p) => /\ Next1(p) \in (p + 1)..Len(buffer)
                                      /\ Long64(p) \in Word /\ Int32(p) \in Int
                    /\ ~Readable(p) => Int32(p) = None
                    /\ Complete(p) => Readable(p) /\ End(p) \in Next1(p)..Len(buffer)
  OBVIOUS
<1>0. buffer \in Seq(Bytes) /\ Len(buffer) \in Nat
  BY DEF InputOK
<1>1. ASSUME Readable(p)
      PROVE  Next1(p) \in (p + 1)..Len(buffer) /\ Long64(p) \in Word /\ Int32(p) \in Int
  <2>1. p + 1 \in 1..Len(buffer) /\ buffer[p + 1] \in Bytes
    BY <1>0, <1>1 DEF Readable
  <2>2. SizeOf[buffer[p + 1]] \in 1..9
    BY <2>1, SizeType
  <2>3. p + SizeOf[buffer[p + 1]] <= Len(buffer)
    BY <1>1 DEF Readable
  <2>4. Next1(p) \in (p + 1)..Len(buffer)
    BY <1>0, <2>2, <2>3 DEF Next1
  <2>5. (p + 1) + SizeOf[buffer[p + 1]] - 1 <= Len(buffer)
    BY <2>2, <2>3
  <2>6. ReadCompactLong(buffer, p + 1) \in Word /\ ReadCompactInt(buffer, p + 1) \in Int
    BY <1>0, <2>1, <2>5, LongType
  <2> QED
    BY <1>1, <2>4, <2>6 DEF Long64, Int32
<1>2. ASSUME Complete(p) PROVE Readable(p) /\ End(p) \in Next1(p)..Len(buffer)
  <2>1. Readable(p) /\ Long64(p).lo \in 0..(IntMax - Next1(p)) /\ End(p) <= Len(buffer)
    BY <1>2 DEF Complete, LengthOK
  <2>2. Next1(p) \in (p + 1)..Len(buffer)
    BY <1>1, <2>1
  <2> QED
    BY <1>0, <2>1, <2>2, FramingAssumption DEF End
<1> QED
  BY <1>1, <1>2 DEF Int32

\* Where a chain of numbers ends.
LEMMA StepFacts ==
  ASSUME InputOK
  PROVE  \A p \in 0..Len(buffer) \cup {None} :
           /\ Step(p) \in 0..Len(buffer) \cup {None}
           /\ Step(p) # None => /\ p \in 0..Len(buffer) /\ Readable(p)
                                /\ Step(p) = Next1(p) /\ Step(p) > p
<1> SUFFICES ASSUME NEW p \in 0..Len(buffer) \cup {None}
             PROVE  /\ Step(p) \in 0..Len(buffer) \cup {None}
                    /\ Step(p) # None => /\ p \in 0..Len(buffer) /\ Readable(p)
                                         /\ Step(p) = Next1(p) /\ Step(p) > p
  OBVIOUS
<1>0. Len(buffer) \in Nat
  BY DEF InputOK
<1>1. CASE p # None /\ Readable(p)
  <2>1. Step(p) = Next1(p) /\ p \in 0..Len(buffer)
    BY <1>1 DEF Step
  <2>2. Next1(p) \in (p + 1)..Len(buffer)
    BY <1>1, <2>1, ReadFacts
  <2> QED
    BY <1>0, <1>1, <2>1, <2>2
<1>2. CASE ~(p # None /\ Readable(p))
  BY <1>2 DEF Step
<1> QED
  BY <1>1, <1>2

-----------------------------------------------------------------------------
\* What the handlers do to the input: it moves forward in the buffer, or stays.
Forward ==
  /\ pos' \in pos..Len(buffer) /\ limit' \in Nat
  /\ lost' \subseteq 1..arrived /\ UNCHANGED <<cut, clean>>
  /\ pc' \in Busy \cup {"idle", "failed"}
  /\ pc' \in Handled => limit' <= Len(buffer)
  /\ pc' = "failed" => pos' = Len(buffer)

LEMMA BreakForward ==
  ASSUME NEW n, NEW held, ServerOK, InputOK, BreakOff(n, held), limit' \in Nat
  PROVE  Forward
<1>1. pos' \in pos..Len(buffer) /\ pos' = Len(buffer)
  BY DEF InputOK, BreakOff
<1>2. lost' \subseteq 1..arrived
  BY DEF ServerOK, BreakOff
<1> QED
  BY <1>1, <1>2 DEF BreakOff, Forward, Handled, Busy

LEMMA FailForward == ServerOK /\ InputOK /\ Fail /\ limit' \in Nat => Forward
BY BreakForward DEF Fail

LEMMA GoOnForward ==
  ASSUME ServerOK, InputOK, NEW p \in pos..Len(buffer), GoOn(p), UNCHANGED history, limit' \in Nat
  PROVE  Forward
BY DEF ServerOK, InputOK, GoOn, Forward, history, Handled, Busy

\* The header of a message.
LEMMA HeadForward ==
  ServerOK /\ InputOK /\ (Incomplete \/ BadLength \/ EmptyMessage \/ Header \/ Done) => Forward
<1> SUFFICES ASSUME ServerOK, InputOK, Incomplete \/ BadLength \/ EmptyMessage \/ Header \/ Done
             PROVE  Forward
  OBVIOUS
<1>0. Len(buffer) \in Nat /\ pos \in 0..Len(buffer) /\ limit \in Nat
  BY DEF InputOK
<1>1. CASE Incomplete
  BY <1>0, <1>1 DEF Incomplete, Forward, input, history, Handled, Busy, ServerOK
<1>2. CASE BadLength
  BY <1>0, <1>2, FailForward DEF BadLength
<1>3. ASSUME Complete(pos) PROVE Next1(pos) \in (pos + 1)..Len(buffer) /\ End(pos) \in Next1(pos)..Len(buffer)
  BY <1>0, <1>3, ReadFacts
<1>4. CASE EmptyMessage
  <2>1. Complete(pos) /\ limit' = End(pos) /\ GoOn(End(pos)) /\ UNCHANGED history
    BY <1>4 DEF EmptyMessage
  <2>2. End(pos) \in pos..Len(buffer) /\ End(pos) \in Nat
    BY <1>0, <1>3, <2>1
  <2> QED
    BY <2>1, <2>2, GoOnForward
<1>5. CASE Header
  <2> DEFINE p == Next1(pos)
  <2>1. Complete(pos) /\ limit' = End(pos)
    BY <1>5 DEF Header
  <2>2. End(pos) \in pos..Len(buffer) /\ End(pos) \in Nat /\ p \in 0..Len(buffer) /\ pos <= p
    BY <1>0, <1>3, <2>1
  <2>3. \/ Fail
        \/ /\ HandlerOf(Int32(p)) # None /\ pos' = Next1(p) /\ pc' = HandlerOf(Int32(p))
           /\ UNCHANGED history
        \/ GoOn(End(pos)) /\ UNCHANGED history
    BY <1>5 DEF Header
  <2>4. CASE Fail
    BY <2>1, <2>2, <2>4, FailForward
  <2>5. CASE GoOn(End(pos)) /\ UNCHANGED history
    BY <2>1, <2>2, <2>5, GoOnForward
  <2>6. CASE HandlerOf(Int32(p)) # None /\ pos' = Next1(p) /\ pc' = HandlerOf(Int32(p)) /\ UNCHANGED history
    <3> HIDE DEF p
    <3>1. Int32(p) # None
      BY <2>6, FramingAssumption DEF HandlerOf, DataTypes
    <3>2. Next1(p) \in (p + 1)..Len(buffer)
      BY <2>2, <3>1, ReadFacts
    <3>3. HandlerOf(Int32(p)) \in Busy
      BY <2>6 DEF HandlerOf, Busy
    <3>4. HandlerOf(Int32(p)) # "failed"
      BY <3>3 DEF Busy
    <3> QED
      BY <1>0, <2>1, <2>2, <2>6, <3>2, <3>3, <3>4 DEF Forward, Handled, history, ServerOK
  <2> QED
    BY <2>3, <2>4, <2>5, <2>6
<1>6. CASE Done
  BY <1>0, <1>6, GoOnForward DEF Done
<1> QED
  BY <1>1, <1>2, <1>4, <1>5, <1>6

\* The records of a message.
LEMMA RecordForward ==
  ServerOK /\ InputOK /\ ParsingOK /\ RegistryOK
  /\ (ReadFlagsAndSymbol \/ BeginRecord \/ UnsupportedField \/ ReadField \/ Deliver) => Forward
<1> SUFFICES ASSUME ServerOK, InputOK, ParsingOK, RegistryOK,
                    ReadFlagsAndSymbol \/ BeginRecord \/ UnsupportedField \/ ReadField \/ Deliver
             PROVE  Forward
  OBVIOUS
<1>0. /\ Len(buffer) \in Nat /\ pos \in 0..Len(buffer) /\ limit \in Nat /\ buffer \in Seq(Bytes)
      /\ limit <= Len(buffer)
  <2>1. pc \in Handled
    BY DEF Handled, Busy, ReadFlagsAndSymbol, BeginRecord, UnsupportedField, ReadField, Deliver
  <2> QED
    BY <2>1 DEF InputOK
<1>1. CASE ReadFlagsAndSymbol
  <2> DEFINE f == ReadFlags(buffer, pos + 1, mru)
             s == ReadSymbol(buffer, pos + f.size + 1)
  <2>1. \/ Fail
        \/ /\ f.ok /\ s.ok /\ pos' = pos + f.size + s.size /\ pc' = "id"
           /\ UNCHANGED history
    BY <1>1 DEF ReadFlagsAndSymbol
  <2>2. CASE Fail
    BY <1>0, <1>1, <2>2, FailForward DEF ReadFlagsAndSymbol
  <2>3. CASE f.ok /\ s.ok /\ pos' = pos + f.size + s.size /\ pc' = "id" /\ UNCHANGED history
    <3>1. f.size \in Nat /\ (pos + 1) + f.size - 1 <= Len(buffer)
      <4>1. pos + 1 \in 1..(Len(buffer) + 1) /\ mru \in Int /\ f.ok
        BY <1>0, <2>3 DEF ParsingOK
      <4> QED
        BY <1>0, <4>1, FlagsType
    <3> HIDE DEF f
    <3>2. pos + f.size + 1 \in 1..(Len(buffer) + 1)
      BY <1>0, <3>1
    <3>3. s.size \in Nat /\ (pos + f.size + 1) + s.size - 1 <= Len(buffer)
      BY <1>0, <2>3, <3>2, SymbolType
    <3> HIDE DEF s
    <3>4. pos' \in pos..Len(buffer)
      BY <1>0, <2>3, <3>1, <3>3, SMTT(30)
    <3>5. limit' = limit
      BY <1>1 DEF ReadFlagsAndSymbol
    <3> QED
      BY <1>0, <2>3, <3>4, <3>5 DEF Forward, Handled, Busy, history, ServerOK
  <2> QED
    BY <2>1, <2>2, <2>3
<1>2. CASE BeginRecord
  <2>1. CASE Fail
    BY <1>0, <1>2, <2>1, FailForward DEF BeginRecord
  <2>2. CASE InSync(Int32(pos)) /\ pos' = Next1(pos) /\ pc' = "record" /\ UNCHANGED history
    <3>1. Int32(pos) # None
      BY <2>2, FramingAssumption DEF InSync, LocalId
    <3>2. Next1(pos) \in (pos + 1)..Len(buffer)
      BY <1>0, <3>1, ReadFacts
    <3> QED
      BY <1>0, <1>2, <2>2, <3>2 DEF BeginRecord, Forward, Handled, Busy, history, ServerOK
  <2> QED
    BY <1>2, <2>1, <2>2 DEF BeginRecord
<1>3. CASE ReadField
  <2>1. CASE BreakOff(Consumed, ~Removed)
    BY <1>0, <1>3, <2>1, BreakForward DEF ReadField
  <2>2. CASE Readable(pos) /\ pos' = Next1(pos) /\ UNCHANGED <<pc, history>>
    <3>1. Next1(pos) \in (pos + 1)..Len(buffer)
      BY <1>0, <2>2, ReadFacts
    <3> QED
      BY <1>0, <1>3, <2>2, <3>1 DEF ReadField, Forward, Handled, Busy, history, ServerOK
  <2> QED
    BY <1>3, <2>1, <2>2 DEF ReadField
<1>4. CASE Deliver
  <2>1. CASE BreakOff(Consumed - 1, FALSE)
    BY <1>0, <1>4, <2>1, BreakForward DEF Deliver
  <2>2. CASE pc' = "data" /\ UNCHANGED <<pos, lost, cut, clean, broken>>
    BY <1>0, <1>4, <2>2 DEF Deliver, Forward, Handled, Busy, ServerOK
  <2> QED
    BY <1>4, <2>1, <2>2 DEF Deliver
<1>5. CASE UnsupportedField
  BY <1>0, <1>5, FailForward DEF UnsupportedField
<1> QED
  BY <1>1, <1>2, <1>3, <1>4, <1>5

\* The descriptions and the heartbeats.
LEMMA OtherForward ==
  ServerOK /\ InputOK
  /\ (DescribeRecord \/ DescribeField \/ EndDescription \/ DescribeProtocol \/ Heartbeat \/ ReadMark) => Forward
<1> SUFFICES ASSUME ServerOK, InputOK,
                    DescribeRecord \/ DescribeField \/ EndDescription \/ DescribeProtocol \/ Heartbeat \/ ReadMark
             PROVE  Forward
  OBVIOUS
<1>0. Len(buffer) \in Nat /\ pos \in 0..Len(buffer) /\ limit \in Nat /\ limit <= Len(buffer)
  BY DEF InputOK, Handled, Busy, DescribeRecord, DescribeField, EndDescription, DescribeProtocol,
         Heartbeat, ReadMark
<1>1. CASE DescribeRecord
  <2>0. limit' = limit
    BY <1>1 DEF DescribeRecord
  <2>1. CASE Fail
    BY <1>0, <2>0, <2>1, FailForward
  <2>2. CASE /\ Step(Step(Step(pos))) # None /\ pos' = Step(Step(Step(pos))) /\ pc' = "fields"
             /\ UNCHANGED history
    <3> DEFINE s1 == Step(pos)
               s2 == Step(s1)
               s3 == Step(s2)
    <3>1. s1 \in 0..Len(buffer) \cup {None} /\ (s1 # None => s1 > pos)
      BY <1>0, StepFacts
    <3> HIDE DEF s1
    <3>2. s2 \in 0..Len(buffer) \cup {None} /\ (s2 # None => s1 \in 0..Len(buffer) /\ s2 > s1)
      BY <3>1, StepFacts
    <3> HIDE DEF s2
    <3>3. s3 \in 0..Len(buffer) \cup {None} /\ (s3 # None => s2 \in 0..Len(buffer) /\ s3 > s2)
      BY <3>2, StepFacts
    <3> HIDE DEF s3
    <3>4. s3 # None /\ pos' = s3
      BY <2>2 DEF s1, s2, s3
    <3>5. s1 # None /\ s2 # None
      BY <3>2, <3>3, <3>4, FramingAssumption
    <3>6. pos' \in pos..Len(buffer)
      BY <1>0, <3>1, <3>2, <3>3, <3>4, <3>5
    <3> QED
      BY <1>0, <2>0, <2>2, <3>6 DEF Forward, Handled, Busy, history, ServerOK
  <2> QED
    BY <1>1, <2>1, <2>2 DEF DescribeRecord
<1>2. CASE DescribeField
  <2>1. CASE Fail
    BY <1>0, <1>2, <2>1, FailForward DEF DescribeField
  <2>2. CASE Int32(pos) \in FieldTypes /\ pos' = Next1(pos) /\ UNCHANGED <<pc, history>>
    <3>1. Int32(pos) # None
      <4>1. FieldTypes \subseteq Int
        BY DEF FieldTypes
      <4> QED
        BY <2>2, <4>1, FramingAssumption
    <3>2. Next1(pos) \in (pos + 1)..Len(buffer)
      BY <1>0, <3>1, ReadFacts
    <3> QED
      BY <1>0, <1>2, <2>2, <3>2 DEF DescribeField, Forward, Handled, Busy, history, ServerOK
  <2> QED
    BY <1>2, <2>1, <2>2 DEF DescribeField
<1>3. CASE EndDescription
  BY <1>0, <1>3 DEF EndDescription, Forward, Handled, Busy, input, history, ServerOK
<1>4. CASE DescribeProtocol
  <2>1. CASE Fail
    BY <1>0, <1>4, <2>1, FailForward DEF DescribeProtocol
  <2>2. CASE /\ Int32(pos) = 0 /\ UNCHANGED history
             /\ GoOn(IF Next1(pos) < limit THEN limit ELSE Next1(pos))
    <3>1. Int32(pos) # None
      BY <2>2, FramingAssumption
    <3>2. Next1(pos) \in (pos + 1)..Len(buffer)
      BY <1>0, <3>1, ReadFacts
    <3>3. (IF Next1(pos) < limit THEN limit ELSE Next1(pos)) \in pos..Len(buffer)
      BY <1>0, <3>2
    <3>4. limit' \in Nat
      BY <1>0, <1>4 DEF DescribeProtocol
    <3> QED
      BY <2>2, <3>3, <3>4, GoOnForward
  <2> QED
    BY <1>4, <2>1, <2>2 DEF DescribeProtocol
<1>5. ASSUME NEW p \in pos..Len(buffer), GoOn(p), UNCHANGED <<limit, history>> PROVE Forward
  BY <1>0, <1>5, GoOnForward
<1>6. ASSUME Readable(pos), pos' = Next1(pos), pc' = "marks", UNCHANGED <<limit, history>> PROVE Forward
  <2>1. Next1(pos) \in (pos + 1)..Len(buffer)
    BY <1>0, <1>6, ReadFacts
  <2> QED
    BY <1>0, <1>6, <2>1 DEF Forward, Handled, Busy, history, ServerOK
<1>7. pos \in pos..Len(buffer)
  BY <1>0
<1>8. CASE Heartbeat
  BY <1>5, <1>6, <1>7, <1>8 DEF Heartbeat
<1>9. CASE ReadMark
  BY <1>5, <1>6, <1>7, <1>9 DEF ReadMark
<1> QED
  BY <1>1, <1>2, <1>3, <1>4, <1>8, <1>9

-----------------------------------------------------------------------------
\* The reader locks the guard once, or not at all for a record that is removed.
LEMMA LocksType == Locks \in {0, 1}
BY DEF Locks

\* Ids, digests and the guard keep their types under every handler: the guard is
\* never unlocked more often than it was locked.
LEMMA RegistryStep == InputOK /\ RegistryOK /\ ParsingOK /\ Process => RegistryOK'
<1> SUFFICES ASSUME InputOK, RegistryOK, ParsingOK, Process PROVE RegistryOK'
  OBVIOUS
<1>1. CASE UNCHANGED registry
  BY <1>1 DEF RegistryOK, registry
<1>2. CASE BeginRecord
  BY <1>2, LocksType DEF BeginRecord, RegistryOK
<1>3. CASE Deliver \/ UnsupportedField
  <2>1. pc = "record" /\ locks' = locks - Locks /\ UNCHANGED <<idMap, digests>>
    BY <1>3 DEF Deliver, UnsupportedField
  <2> QED
    BY <2>1, LocksType DEF RegistryOK, ParsingOK
<1>4. CASE DescribeRecord
  <2>1. locks' = locks
    BY <1>4 DEF DescribeRecord
  <2>2. CASE UNCHANGED <<idMap, digests>>
    BY <2>1, <2>2 DEF RegistryOK
  <2>3. ASSUME NEW r \in Records, idMap' = Assigned(Int32(pos), r), digests' = [digests EXCEPT ![r] = NewDigest]
        PROVE  RegistryOK'
    <3>1. NewDigest \in [types : Seq(FieldTypes), inSync : BOOLEAN]
      BY DEF NewDigest
    <3>2. idMap' \in [Ids -> Records \cup {None}]
      BY <2>3 DEF Assigned, RegistryOK
    <3>3. digests' \in [Records -> [types : Seq(FieldTypes), inSync : BOOLEAN]]
      BY <2>3, <3>1 DEF RegistryOK
    <3> QED
      BY <2>1, <3>2, <3>3 DEF RegistryOK
  <2> QED
    BY <1>4, <2>2, <2>3 DEF DescribeRecord
<1>5. CASE DescribeField
  <2>1. UNCHANGED <<idMap, locks>>
    BY <1>5 DEF DescribeField
  <2>2. CASE UNCHANGED digests
    BY <2>1, <2>2 DEF RegistryOK
  <2>3. CASE digests' = [r \in Records |-> IF r = name THEN [digests[r] EXCEPT !.types = Append(@, Int32(pos))] ELSE digests[r]]
             /\ Int32(pos) \in FieldTypes
    <3>1. \A r \in Records : digests[r] \in [types : Seq(FieldTypes), inSync : BOOLEAN]
      BY DEF RegistryOK
    <3>2. \A d \in [types : Seq(FieldTypes), inSync : BOOLEAN] : [d EXCEPT !.types = Append(@, Int32(pos))] \in [types : Seq(FieldTypes), inSync : BOOLEAN]
      BY <2>3
    <3> QED
      BY <2>1, <2>3, <3>1, <3>2 DEF RegistryOK
  <2> QED
    BY <1>5, <2>2, <2>3 DEF DescribeField
<1>6. CASE EndDescription
  <2>1. UNCHANGED <<idMap, locks>>
    BY <1>6 DEF EndDescription
  <2>2. digests' = [r \in Records |-> IF r = name THEN [digests[r] EXCEPT !.inSync = TRUE] ELSE digests[r]]
    BY <1>6 DEF EndDescription
  <2>3. \A r \in Records : digests[r] \in [types : Seq(FieldTypes), inSync : BOOLEAN]
    BY DEF RegistryOK
  <2>4. \A d \in [types : Seq(FieldTypes), inSync : BOOLEAN] : [d EXCEPT !.inSync = TRUE] \in [types : Seq(FieldTypes), inSync : BOOLEAN]
    OBVIOUS
  <2> QED
    BY <2>1, <2>2, <2>3, <2>4 DEF RegistryOK
<1> QED
  BY <1>1, <1>2, <1>3, <1>4, <1>5, <1>6
  DEF Process, Incomplete, BadLength, EmptyMessage, Header, Done, ReadFlagsAndSymbol, ReadField,
      DescribeProtocol, Heartbeat, ReadMark

\* What a handler leaves alone, when it goes on elsewhere.
LEMMA ParsingKept ==
  ParsingOK /\ UNCHANGED <<parsing, delivered>> /\ pc' \notin {"id", "record"} => ParsingOK'
BY DEF ParsingOK, parsing, context, Locks, Removed

\* A symbol is there before an id is read, and a name before a record is: a record
\* that is passed on has both.
LEMMA ParsingStep == InputOK /\ RegistryOK /\ ParsingOK /\ Process => ParsingOK'
<1> SUFFICES ASSUME InputOK, RegistryOK, ParsingOK, Process PROVE ParsingOK'
  OBVIOUS
<1>0. Len(buffer) \in Nat /\ pos \in 0..Len(buffer) /\ buffer \in Seq(Bytes)
  BY DEF InputOK
<1>1. CASE Incomplete \/ BadLength \/ EmptyMessage \/ Done \/ EndDescription \/ DescribeProtocol
  BY <1>1, ParsingKept
  DEF Incomplete, BadLength, EmptyMessage, Done, EndDescription, DescribeProtocol, Fail, BreakOff, GoOn, history
<1>2. CASE Header
  <2>1. UNCHANGED <<name, values, todo, delivered>>
    BY <1>2 DEF Header, Fail, BreakOff, history
  <2>2. pc' \notin {"id", "record"}
    BY <1>2, FramingAssumption DEF Header, Fail, BreakOff, GoOn, HandlerOf
  <2>3. UNCHANGED context \/ (symbol' = None /\ flags' = 0 /\ mru' = TxPending)
    BY <1>2 DEF Header, StartContext
  <2> QED
    BY <2>1, <2>2, <2>3 DEF ParsingOK, context, TxPending
<1>3. CASE ReadFlagsAndSymbol
  <2> DEFINE f == ReadFlags(buffer, pos + 1, mru)
             s == ReadSymbol(buffer, pos + f.size + 1)
  <2>1. UNCHANGED <<name, values, todo, delivered>>
    BY <1>3 DEF ReadFlagsAndSymbol, Fail, BreakOff, history
  <2>2. CASE Fail /\ UNCHANGED context
    BY <2>1, <2>2 DEF Fail, BreakOff, ParsingOK, context
  <2>3. CASE /\ f.ok /\ s.ok /\ (s.void => symbol # None)
             /\ symbol' = IF s.void THEN symbol ELSE s.symbol
             /\ flags' = f.flags /\ mru' = f.mru /\ pc' = "id"
    <3>1. pos + 1 \in 1..(Len(buffer) + 1) /\ mru \in Int /\ f.ok
      BY <1>0, <2>3 DEF ParsingOK
    <3>2. f.flags \in Int /\ f.mru \in Int /\ f.size \in Nat /\ (pos + 1) + f.size - 1 <= Len(buffer)
      BY <1>0, <3>1, FlagsType
    <3> HIDE DEF f
    <3>3. pos + f.size + 1 \in 1..(Len(buffer) + 1)
      BY <1>0, <3>2
    <3>4. s.symbol \in Text
      BY <1>0, <2>3, <3>3, SymbolType
    <3> HIDE DEF s
    <3>5. symbol' \in Text
      BY <2>3, <3>4 DEF ParsingOK
    <3> QED
      BY <2>1, <2>3, <3>2, <3>5 DEF ParsingOK
  <2> QED
    BY <1>3, <2>2, <2>3 DEF ReadFlagsAndSymbol
<1>4. CASE BeginRecord
  <2>1. UNCHANGED <<context, delivered>>
    BY <1>4 DEF BeginRecord, Fail, BreakOff, history
  <2>2. CASE Fail /\ UNCHANGED <<name, values, todo>>
    BY <2>1, <2>2 DEF Fail, BreakOff, ParsingOK, context
  <2>3. CASE /\ InSync(Int32(pos)) /\ name' = LocalId(Int32(pos)) /\ values' = <<>>
             /\ todo' = IF Removed THEN 1 ELSE Len(digests[name'].types)
             /\ locks' = locks + Locks /\ pc' = "record"
    <3>1. name' \in Records
      BY <2>3 DEF InSync, LocalId, RegistryOK
    <3>2. todo' \in Nat
      BY <2>3, <3>1 DEF RegistryOK
    <3>3. Locks' = Locks /\ Locks <= locks'
      <4>1. Locks' = Locks
        BY <2>1 DEF Locks, Removed, context
      <4> QED
        BY <2>3, <4>1, LocksType DEF RegistryOK
    <3>4. symbol \in Text
      BY <1>4 DEF ParsingOK, BeginRecord
    <3> QED
      BY <2>1, <2>3, <3>1, <3>2, <3>3, <3>4 DEF ParsingOK, context
  <2> QED
    BY <1>4, <2>2, <2>3 DEF BeginRecord
<1>5. CASE ReadField
  <2>1. CASE BreakOff(Consumed, ~Removed) /\ UNCHANGED parsing
    BY <2>1, ParsingKept DEF BreakOff
  <2>2. CASE /\ Readable(pos) /\ todo' = todo - 1
             /\ values' = Append(values, IF IsLong(FieldType) THEN Long64(pos) ELSE Long(Int32(pos)))
             /\ UNCHANGED <<pc, context, name, history>>
    <3>0. Long64(pos) \in Word /\ Long(Int32(pos)) \in Word
      BY <1>0, <2>2, ReadFacts DEF Long, Sign, Word
    <3>1. values' \in Seq(Word)
      BY <2>2, <3>0 DEF ParsingOK
    <3>2. todo' \in Nat
      BY <1>5, <2>2 DEF ReadField, ParsingOK
    <3>3. UNCHANGED locks /\ Locks' = Locks
      BY <1>5, <2>2 DEF ReadField, registry, Locks, Removed, context
    <3> QED
      BY <2>2, <3>1, <3>2, <3>3 DEF ParsingOK, context, history
  <2> QED
    BY <1>5, <2>1, <2>2 DEF ReadField
<1>6. CASE Deliver
  <2>0. UNCHANGED parsing
    BY <1>6 DEF Deliver
  <2>1. CASE BreakOff(Consumed - 1, FALSE)
    BY <2>0, <2>1, ParsingKept DEF BreakOff
  <2>2. Record \in [name : Records, symbol : Text, flags : Int, values : Seq(Word)]
    BY <1>6 DEF Deliver, Record, ParsingOK
  <2>3. CASE pc' = "data" /\ delivered' = Append(delivered, Record)
    <3>1. delivered' \in Seq([name : Records, symbol : Text, flags : Int, values : Seq(Word)])
      BY <2>2, <2>3 DEF ParsingOK
    <3> QED
      BY <2>0, <2>3, <3>1 DEF ParsingOK, parsing, context
  <2> QED
    BY <1>6, <2>1, <2>3 DEF Deliver
<1>7. CASE DescribeRecord
  <2>1. UNCHANGED <<context, values, delivered>>
    BY <1>7 DEF DescribeRecord, Fail, BreakOff, history
  <2>2. CASE Fail /\ UNCHANGED <<name, todo>>
    BY <2>1, <2>2 DEF Fail, BreakOff, ParsingOK, context
  <2>3. CASE /\ Step(Step(Step(pos))) # None /\ Int32(Step(Step(pos))) >= 0
             /\ name' \in Records \cup {None} /\ todo' = Int32(Step(Step(pos))) /\ pc' = "fields"
    <3> DEFINE s1 == Step(pos)
               s2 == Step(s1)
    <3>1. s1 \in 0..Len(buffer) \cup {None}
      BY <1>0, StepFacts
    <3> HIDE DEF s1
    <3>2. s2 \in 0..Len(buffer) \cup {None}
      BY <3>1, StepFacts
    <3> HIDE DEF s2
    <3>3. s2 \in 0..Len(buffer) /\ Readable(s2)
      BY <2>3, <3>2, StepFacts DEF s1, s2
    <3>4. Int32(s2) \in Int
      BY <3>3, ReadFacts
    <3>5. todo' \in Nat
      BY <2>3, <3>4 DEF s1, s2
    <3> QED
      BY <2>1, <2>3, <3>5 DEF ParsingOK, context
  <2> QED
    BY <1>7, <2>2, <2>3 DEF DescribeRecord
<1>8. CASE DescribeField
  <2>1. UNCHANGED <<context, name, values, delivered>>
    BY <1>8 DEF DescribeField, Fail, BreakOff, history
  <2>2. todo' \in Nat /\ pc' \notin {"id", "record"}
    BY <1>8 DEF DescribeField, Fail, BreakOff, ParsingOK
  <2> QED
    BY <2>1, <2>2 DEF ParsingOK, context
<1>10. CASE UnsupportedField
  <2>1. Fail /\ UNCHANGED parsing
    BY <1>10 DEF UnsupportedField
  <2> QED
    BY <2>1, ParsingKept DEF Fail, BreakOff
<1>9. CASE Heartbeat \/ ReadMark
  <2>1. UNCHANGED <<context, name, values, delivered>> /\ pc' \notin {"id", "record"}
    BY <1>9 DEF Heartbeat, ReadMark, GoOn, history
  <2>2. \A mask : Cardinality(Marks(mask)) \in Nat
    <3> SUFFICES ASSUME NEW mask PROVE Cardinality(Marks(mask)) \in Nat
      OBVIOUS
    <3>1. Marks(mask) \in SUBSET (0..8)
      BY DEF Marks
    <3>2. IsFiniteSet(0..8)
      <4>1. 0 \in Int /\ 8 \in Int
        OBVIOUS
      <4> QED
        BY <4>1, FS_Interval, Zenon
    <3>3. IsFiniteSet(Marks(mask))
      BY <3>1, <3>2, FS_Subset
    <3> QED
      BY <3>3, FS_CardinalityType
  <2>3. todo' \in Nat
    BY <1>9, <2>2 DEF Heartbeat, ReadMark, ParsingOK
  <2> QED
    BY <2>1, <2>3 DEF ParsingOK, context
<1> QED
  BY <1>1, <1>2, <1>3, <1>4, <1>5, <1>6, <1>7, <1>8, <1>9, <1>10 DEF Process

-----------------------------------------------------------------------------
LEMMA FramingInit == Init => FramingInv
<1> SUFFICES ASSUME Init PROVE FramingInv
  OBVIOUS
<1>1. streams \in Seq(ServerStreams) /\ Len(streams) > 0 /\ 1 \in 1..Len(streams) /\ streams \in Servers
  BY FramingAssumption DEF Init
<1>2. stream \in ServerStreams
  BY <1>1 DEF Init, stream
<1>3. stream.wire \in Seq(Bytes) /\ stream.proper \in BOOLEAN
  BY <1>2 DEF ServerStreams, Bytes
<1>4. ServerOK
  BY <1>1, <1>3 DEF Init, ServerOK
<1>5. InputOK /\ BufferIsStream /\ FailureSkips
  BY FramingAssumption DEF Init, InputOK, BufferIsStream, FailureSkips, Handled, Busy
<1>6. ReaderOK
  BY <1>3 DEF Init, ReaderOK
<1>7. RegistryOK
  BY DEF Init, RegistryOK, NewDigest
<1>8. ParsingOK
  BY DEF Init, ParsingOK
<1> QED
  BY <1>4, <1>5, <1>6, <1>7, <1>8 DEF FramingInv

\* A handler's step.
LEMMA ProcessStep == FramingInv /\ Process => FramingInv' /\ pos <= pos' /\ UNCHANGED <<server, buffer>>
<1> SUFFICES ASSUME FramingInv, Process
             PROVE  FramingInv' /\ pos <= pos' /\ UNCHANGED <<server, buffer>>
  OBVIOUS
<1>0. ServerOK /\ InputOK /\ ReaderOK /\ RegistryOK /\ ParsingOK /\ BufferIsStream
  BY DEF FramingInv
<1>1. Forward
  BY <1>0, HeadForward, RecordForward, OtherForward DEF Process
<1>2. UNCHANGED <<server, buffer, capacity>>
  BY DEF Process, Incomplete, BadLength, EmptyMessage, Header, Done, ReadFlagsAndSymbol, BeginRecord,
         UnsupportedField, ReadField, Deliver, DescribeRecord, DescribeField, EndDescription, DescribeProtocol, Heartbeat,
         ReadMark, input
<1>3. ServerOK'
  BY <1>0, <1>1, <1>2 DEF ServerOK, Forward, server, stream
<1>4. InputOK' /\ pos <= pos'
  BY <1>0, <1>1, <1>2 DEF InputOK, Forward
<1>5. login' \in BOOLEAN
  BY <1>0
  DEF Process, Incomplete, BadLength, EmptyMessage, Header, Done, ReadFlagsAndSymbol, BeginRecord,
      UnsupportedField, ReadField, Deliver, DescribeRecord, DescribeField, EndDescription, DescribeProtocol, Heartbeat,
      ReadMark, ReaderOK
<1>9. broken' \in BOOLEAN
  <2>1. UNCHANGED history \/ (\E n, held : BreakOff(n, held)) \/ UNCHANGED broken
    BY DEF Process, Incomplete, BadLength, EmptyMessage, Header, Done, ReadFlagsAndSymbol, BeginRecord,
           UnsupportedField, ReadField, Deliver, DescribeRecord, DescribeField, EndDescription,
           DescribeProtocol, Heartbeat, ReadMark, Fail
  <2> QED
    BY <1>0, <2>1 DEF ReaderOK, BreakOff, history
<1>6. ReaderOK' /\ FailureSkips'
  BY <1>0, <1>1, <1>2, <1>5, <1>9 DEF ReaderOK, FailureSkips, Forward
<1>7. BufferIsStream'
  <2>1. buffer' = buffer /\ arrived' = arrived /\ stream' = stream /\ Len(buffer) \in Nat
        /\ pos \in Nat /\ pos' \in Nat /\ pos <= pos'
    BY <1>0, <1>2, <1>4 DEF server, stream, InputOK
  <2>2. ASSUME NEW k \in (pos' + 1)..Len(buffer), k > Len(buffer) - arrived
        PROVE  buffer[k] = stream.wire[arrived - Len(buffer) + k]
    <3>0. \A a, b, l \in Nat : a <= b => (b + 1)..l \subseteq (a + 1)..l
      OBVIOUS
    <3>1. k \in (pos + 1)..Len(buffer)
      BY <2>1, <2>2, <3>0, Zenon
    <3> QED
      BY <1>0, <2>2, <3>1 DEF BufferIsStream
  <2> QED
    BY <2>1, <2>2, Zenon DEF BufferIsStream
<1> QED
  BY <1>0, <1>2, <1>3, <1>4, <1>6, <1>7, RegistryStep, ParsingStep DEF FramingInv

\* The arrival of a chunk: what is left moves to the front, and the new bytes
\* continue it.
LEMMA ReceiveStep == FramingInv /\ Receive => FramingInv' /\ Consumed' = Consumed
<1> SUFFICES ASSUME FramingInv, Receive PROVE FramingInv' /\ Consumed' = Consumed
  OBVIOUS
<1>0. ServerOK /\ InputOK /\ ReaderOK /\ RegistryOK /\ ParsingOK /\ BufferIsStream
  BY DEF FramingInv
<1>1. PICK n \in 1..Chunk : /\ arrived + n <= Len(stream.wire)
                            /\ AppendNewData(n) /\ arrived' = arrived + n
  BY DEF Receive
<1> DEFINE left == Len(buffer) - pos
           wire == stream.wire
<1>2. n \in Nat /\ left \in Nat /\ arrived \in Nat /\ Len(buffer) \in Nat /\ pos \in Nat /\ Len(wire) \in Nat
  BY <1>0, StreamType, FramingAssumption DEF ServerOK, InputOK
<1>3. stream' = stream /\ pc' = "message"
      /\ UNCHANGED <<streams, nth, limit, login, registry, parsing, history>>
  BY DEF Receive, stream
<1>4. buffer' = [k \in 1..(left + n) |-> IF k <= left THEN buffer[pos + k] ELSE wire[arrived + k - left]]
  BY <1>1 DEF AppendNewData
<1>5. \A k \in 1..left : pos + k \in 1..Len(buffer)
  BY <1>2
<1>6. \A k \in 1..(left + n) : ~(k <= left) => arrived + k - left \in 1..Len(wire)
  BY <1>1, <1>2
<1>7. \A k \in 1..Len(buffer) : buffer[k] \in Bytes
  BY <1>0 DEF InputOK
<1>8. \A k \in 1..Len(wire) : wire[k] \in Bytes
  BY <1>0, StreamType
<1>9. capacity' = IF capacity < left + n THEN left + n ELSE capacity
  BY <1>1 DEF AppendNewData
<1>10. pos' = 0
  BY <1>1 DEF AppendNewData
<1> HIDE DEF left, wire
<1>11. \A k \in 1..(left + n) : buffer'[k] = IF k <= left THEN buffer[pos + k] ELSE wire[arrived + k - left]
  BY <1>4
<1>12. buffer' \in Seq(Bytes) /\ Len(buffer') = left + n
  <2> DEFINE e(k) == IF k <= left THEN buffer[pos + k] ELSE wire[arrived + k - left]
  <2>1. \A k \in 1..(left + n) : e(k) \in Bytes
    <3> SUFFICES ASSUME NEW k \in 1..(left + n) PROVE e(k) \in Bytes
      OBVIOUS
    <3>1. CASE k <= left
      <4>1. k \in 1..left
        BY <1>2, <3>1
      <4> QED
        BY <1>5, <1>7, <3>1, <4>1
    <3>2. CASE ~(k <= left)
      BY <1>6, <1>8, <3>2
    <3> QED
      BY <3>1, <3>2
  <2>2. buffer' = [k \in 1..(left + n) |-> e(k)] /\ left + n \in Nat
    BY <1>2, <1>4
  <2> HIDE DEF e
  <2> QED
    BY <2>1, <2>2
<1>13. ServerOK'
  <2>1. arrived' \in 0..Len(wire) /\ arrived <= arrived'
    BY <1>1, <1>2 DEF wire
  <2>2. lost' \subseteq 1..arrived'
    BY <1>0, <1>2, <1>3, <2>1 DEF ServerOK, history
  <2> QED
    BY <1>0, <1>3, <2>1, <2>2 DEF ServerOK, wire
<1>14. InputOK'
  <2>1. pc' \notin Handled
    BY <1>3 DEF Handled
  <2>2. capacity' \in Nat /\ left + n <= capacity'
    BY <1>0, <1>2, <1>9 DEF InputOK
  <2>3. limit' \in Nat
    BY <1>0, <1>3 DEF InputOK
  <2> QED
    BY <1>2, <1>10, <1>12, <2>1, <2>2, <2>3 DEF InputOK
<1>15. BufferIsStream'
  <2> SUFFICES ASSUME NEW k \in 1..(left + n), k > (left + n) - (arrived + n)
               PROVE  buffer'[k] = wire[(arrived + n) - (left + n) + k]
    BY <1>1, <1>3, <1>10, <1>12 DEF BufferIsStream, wire
  <2>1. (arrived + n) - (left + n) + k = arrived + k - left
    BY <1>2
  <2>2. CASE k <= left
    <3>1. pos + k \in (pos + 1)..Len(buffer) /\ pos + k > Len(buffer) - arrived
          /\ arrived - Len(buffer) + (pos + k) = arrived + k - left
      BY <1>2, <2>2 DEF left
    <3>2. buffer[pos + k] = wire[arrived - Len(buffer) + (pos + k)]
      BY <1>0, <3>1 DEF BufferIsStream, wire
    <3> QED
      BY <1>11, <2>1, <2>2, <3>1, <3>2
  <2>3. CASE ~(k <= left)
    BY <1>11, <2>1, <2>3
  <2> QED
    BY <2>2, <2>3
<1>16. ReaderOK' /\ RegistryOK' /\ FailureSkips'
  BY <1>0, <1>3 DEF ReaderOK, RegistryOK, FailureSkips, registry, history, Busy
<1>17. ParsingOK'
  BY <1>0, <1>3, ParsingKept DEF history
<1>18. Consumed' = Consumed
  BY <1>1, <1>2, <1>10, <1>12 DEF Consumed, left
<1> QED
  BY <1>13, <1>14, <1>15, <1>16, <1>17, <1>18 DEF FramingInv

\* A new connection: what it has sent is nothing yet.
LEMMA ReconnectStep ==
  FramingInv /\ Reconnect => FramingInv' /\ nth' = nth + 1 /\ (pc = "failed" => Consumed' = 0)
<1> SUFFICES ASSUME FramingInv, Reconnect
             PROVE  FramingInv' /\ nth' = nth + 1 /\ (pc = "failed" => Consumed' = 0)
  OBVIOUS
<1>0. ServerOK /\ InputOK /\ ReaderOK /\ RegistryOK /\ ParsingOK /\ BufferIsStream /\ FailureSkips
  BY DEF FramingInv
<1>1. /\ nth < Len(streams) /\ nth' = nth + 1 /\ arrived' = 0 /\ pc' = "idle" /\ delivered' = <<>>
      /\ lost' = {} /\ digests' = [r \in Records |-> NewDigest]
      /\ UNCHANGED <<streams, input, login, idMap, locks, parsing, broken>>
      /\ cut' = (pc = "idle" /\ (cut \/ ~stream.proper \/ arrived \notin stream.starts))
      /\ clean' = (clean /\ streams[nth'].proper /\ ~cut')
  BY DEF Reconnect
<1>2. streams \in Seq(ServerStreams) /\ nth' \in 1..Len(streams)
  BY <1>0, <1>1, FramingAssumption DEF ServerOK
<1>3. stream' \in ServerStreams
  BY <1>1, <1>2 DEF stream
<1>4. ServerOK'
  <2>1. Len(stream'.wire) \in Nat
    BY <1>3 DEF ServerStreams
  <2> QED
    BY <1>0, <1>1, <1>2, <2>1 DEF ServerOK
<1>5. InputOK' /\ BufferIsStream' /\ FailureSkips'
  BY <1>0, <1>1 DEF InputOK, BufferIsStream, FailureSkips, input, Handled, Busy
<1>6. cut' \in BOOLEAN /\ clean' \in BOOLEAN
  BY <1>1
<1>7. ReaderOK'
  BY <1>0, <1>1, <1>6 DEF ReaderOK
<1>8. RegistryOK'
  BY <1>0, <1>1 DEF RegistryOK, NewDigest
<1>9. ParsingOK'
  BY <1>0, <1>1 DEF ParsingOK, parsing, context
<1>10. pc = "failed" => Consumed' = 0
  BY <1>0, <1>1 DEF FailureSkips, InputOK, Consumed, input
<1> QED
  BY <1>1, <1>4, <1>5, <1>7, <1>8, <1>9, <1>10 DEF FramingInv

\* The reader resumes, or the connection is closed.
LEMMA OtherStep ==
  FramingInv /\ (Resume \/ BeginClose \/ Deinit) => FramingInv' /\ UNCHANGED <<server, input>>
<1> SUFFICES ASSUME FramingInv, Resume \/ BeginClose \/ Deinit
             PROVE  FramingInv' /\ UNCHANGED <<server, input>>
  OBVIOUS
<1>0. ServerOK /\ InputOK /\ ReaderOK /\ RegistryOK /\ ParsingOK /\ BufferIsStream /\ FailureSkips
  BY DEF FramingInv
<1>1. /\ UNCHANGED <<server, input, login, idMap, locks, parsing, delivered, lost, broken>>
      /\ pc' \in {"idle", "closing", "closed"}
  BY DEF Resume, BeginClose, Deinit, history, registry
<1>2. ServerOK' /\ BufferIsStream'
  BY <1>0, <1>1 DEF ServerOK, BufferIsStream, server, input, stream
<1>3. InputOK' /\ FailureSkips'
  BY <1>0, <1>1 DEF InputOK, FailureSkips, input, Handled, Busy
<1>4. RegistryOK'
  <2>1. digests' = digests \/ digests' = [r \in Records |-> NewDigest]
    BY DEF Resume, BeginClose, Deinit, registry
  <2>2. NewDigest \in [types : Seq(FieldTypes), inSync : BOOLEAN]
    BY DEF NewDigest
  <2> HIDE DEF NewDigest
  <2>3. digests' \in [Records -> [types : Seq(FieldTypes), inSync : BOOLEAN]]
    BY <1>0, <2>1, <2>2 DEF RegistryOK
  <2> QED
    BY <1>0, <1>1, <2>3 DEF RegistryOK
<1>5. ParsingOK'
  BY <1>0, <1>1, ParsingKept
<1>6. cut' \in BOOLEAN /\ clean' \in BOOLEAN
  BY <1>0 DEF ReaderOK, Resume, BeginClose, Deinit, history
<1>7. ReaderOK'
  BY <1>0, <1>1, <1>6 DEF ReaderOK
<1> QED
  BY <1>1, <1>2, <1>3, <1>4, <1>5, <1>7 DEF FramingInv

LEMMA StutterStep == FramingInv /\ UNCHANGED vars => FramingInv'
BY DEF FramingInv, ServerOK, InputOK, ReaderOK, RegistryOK, ParsingOK, BufferIsStream, FailureSkips,
       vars, server, input, registry, parsing, context, history, stream, Locks, Removed

LEMMA FramingStep == FramingInv /\ [Next]_vars => FramingInv'
BY ProcessStep, ReceiveStep, ReconnectStep, OtherStep, StutterStep DEF Next

\* The inductive invariant holds for whatever bytes the server sends and however
\* they are split: what is unread is the stream, byte for byte.
THEOREM FramingInvariant == Spec => []FramingInv
BY FramingInit, FramingStep, PTL DEF Spec

\* The reader of dx_process_server_data never leaves its buffer, dx_append_new_data
\* never writes beyond it, the guard of the digests is never unlocked more often
\* than it was locked, and every record that is passed on has the name of a record
\* of the client and a symbol: for every stream, proper or not.
THEOREM FramingTypeOK == Spec => []TypeOK
BY FramingInvariant, InvIsTyped, PTL

-----------------------------------------------------------------------------
\* The reader moves forward in the stream: no byte is read twice, and after a
\* failure the next connection is read from its first byte (dx_process_server_data
\* skips the whole buffer).
ReaderMovesOn ==
  [][/\ nth' = nth => Consumed <= Consumed'
     /\ nth' # nth /\ pc = "failed" => Consumed' = 0]_vars

\* For every stream and every way to split it, dx_process_server_data moves on.
THEOREM ReaderMovesOnTheorem == Spec => ReaderMovesOn
<1>1. FramingInv /\ [Next]_vars => [/\ nth' = nth => Consumed <= Consumed'
                                    /\ nth' # nth /\ pc = "failed" => Consumed' = 0]_vars
  <2> SUFFICES ASSUME FramingInv, Next
               PROVE  /\ nth' = nth => Consumed <= Consumed'
                      /\ nth' # nth /\ pc = "failed" => Consumed' = 0
    OBVIOUS
  <2>1. arrived \in Int /\ Len(buffer) \in Int /\ pos \in Int /\ nth \in Int
    BY StreamType DEF FramingInv, ServerOK, InputOK
  <2>2. CASE Process
    <3>1. pos <= pos' /\ UNCHANGED <<server, buffer>> /\ pos' \in Int
      BY <2>2, ProcessStep DEF FramingInv, InputOK
    <3> QED
      BY <2>1, <3>1 DEF Consumed, server
  <2>3. CASE Receive
    <3>1. Consumed' = Consumed /\ nth' = nth
      BY <2>3, ReceiveStep DEF Receive
    <3> QED
      BY <2>1, <3>1 DEF Consumed
  <2>4. CASE Reconnect
    BY <2>1, <2>4, ReconnectStep
  <2>5. CASE Resume \/ BeginClose \/ Deinit
    <3>1. UNCHANGED <<server, input>>
      BY <2>5, OtherStep
    <3> QED
      BY <2>1, <3>1 DEF Consumed, server, input
  <2> QED
    BY <2>2, <2>3, <2>4, <2>5 DEF Next
<1> QED
  BY <1>1, FramingInvariant, PTL DEF Spec, ReaderMovesOn

\* However the stream is split into chunks, a number that the server wrote with the
\* compact writers is read out of the buffer as that number, and the reader goes on
\* behind its last byte, once nothing of an earlier connection is left in front of
\* it (dx_read_compact_int, dx_read_compact_long on what dx_append_new_data puts
\* together): but for the sign of a long in two bytes, which dx_read_compact_long
\* drops.
NumbersAsSent ==
  Consumed >= 0 => \A p \in pos..Len(buffer) : \A v \in LongWords :
    /\ p + CompactSize(v) <= Len(buffer)
    /\ \A k \in 1..CompactSize(v) : stream.wire[Consumed + (p - pos) + k] = WriteCompact(v)[k]
    => /\ Readable(p) /\ Next1(p) = p + CompactSize(v)
       /\ Long64(p) = AsLong(v) /\ Int32(p) = v.lo

\* For every stream, every way to split it and every number, the readers read what
\* was written.
THEOREM NumbersAsSentTheorem == Spec => []NumbersAsSent
<1>1. FramingInv => NumbersAsSent
  <2> SUFFICES ASSUME FramingInv, Consumed >= 0, NEW p \in pos..Len(buffer), NEW v \in LongWords,
                      p + CompactSize(v) <= Len(buffer),
                      \A k \in 1..CompactSize(v) : stream.wire[Consumed + (p - pos) + k] = WriteCompact(v)[k]
               PROVE  /\ Readable(p) /\ Next1(p) = p + CompactSize(v)
                      /\ Long64(p) = AsLong(v) /\ Int32(p) = v.lo
    BY DEF NumbersAsSent
  <2> DEFINE n == CompactSize(v)
  <2>0. ServerOK /\ InputOK /\ BufferIsStream
    BY DEF FramingInv
  <2>1. arrived \in Nat /\ Len(buffer) \in Nat /\ pos \in Nat /\ p \in Nat /\ pos <= p
    BY <2>0, StreamType DEF ServerOK, InputOK
  <2>2. n \in 1..9
    BY SizeFits
  <2>3. ASSUME NEW k \in 1..n PROVE buffer[(p + 1) + k - 1] = WriteCompact(v)[k]
    <3>0. stream.wire[Consumed + (p - pos) + k] = WriteCompact(v)[k]
      OBVIOUS
    <3>1. n \in Int /\ p + n <= Len(buffer)
      BY <2>2
    <3> HIDE DEF n
    <3>2. p + k \in (pos + 1)..Len(buffer)
      BY <2>1, <3>1
    <3>3. p + k > Len(buffer) - arrived /\ arrived - Len(buffer) + (p + k) = Consumed + (p - pos) + k
      BY <2>1 DEF Consumed
    <3>4. (p + 1) + k - 1 = p + k
      BY <2>1
    <3> QED
      BY <2>0, <3>0, <3>2, <3>3, <3>4 DEF BufferIsStream
  <2>4. p + 1 \in Int
    BY <2>1
  <2>5. /\ SizeOf[buffer[p + 1]] = n
        /\ ReadCompactLong(buffer, p + 1) = AsLong(v) /\ ReadCompactInt(buffer, p + 1) = v.lo
    BY <2>3, <2>4, CompactRoundTrip
  <2>6. Readable(p)
    <3>1. p + n <= Len(buffer)
      OBVIOUS
    <3> HIDE DEF n
    <3> QED
      BY <2>1, <2>2, <2>5, <3>1 DEF Readable
  <2> QED
    BY <2>5, <2>6 DEF Next1, Long64, Int32
<1> QED
  BY <1>1, FramingInvariant, PTL

-----------------------------------------------------------------------------
\* The reader holds the guard of the digests while it reads a record, once, and at
\* no other time, unless the buffer ended in a record: of the returns of
\* dx_read_records only that one leaves it locked.
GuardFree == ~broken => locks = IF pc = "record" THEN Locks ELSE 0

\* An error leaves the record, and a record that broke off is not forgotten.
LEMMA BreakFacts == \A n, held : BreakOff(n, held) => pc' = "failed" /\ (broken => broken')
BY Zenon DEF BreakOff
LEMMA FailFacts == Fail => pc' = "failed" /\ (broken => broken')
BY BreakFacts, Zenon DEF Fail

LEMMA GuardStep == FramingInv /\ GuardFree /\ [Next]_vars => GuardFree'
<1> SUFFICES ASSUME FramingInv, GuardFree, [Next]_vars, ~broken' PROVE (locks = IF pc = "record" THEN Locks ELSE 0)'
  BY DEF GuardFree
<1>0. locks \in Nat
  BY DEF FramingInv, RegistryOK
<1>1. CASE BeginRecord
  <2>0. pc = "id" /\ (Fail \/ UNCHANGED history) /\ UNCHANGED context
    BY <1>1, Zenon DEF BeginRecord
  <2>1. (broken => broken') /\ locks = 0 /\ Locks' = Locks
    <3>1. broken => broken'
      BY <2>0, FailFacts DEF history
    <3> QED
      BY <2>0, <3>1 DEF GuardFree, Locks, Removed, context
  <2>2. CASE Fail /\ UNCHANGED locks
    BY <2>1, <2>2, FailFacts
  <2>3. CASE locks' = locks + Locks /\ pc' = "record"
    BY <2>1, <2>3, LocksType
  <2> QED
    BY <1>1, <2>2, <2>3 DEF BeginRecord
<1>2. CASE ReadField
  <2>0. pc = "record" /\ UNCHANGED locks
    BY <1>2 DEF ReadField, registry
  <2>1. CASE BreakOff(Consumed, ~Removed)
    BY <2>0, <2>1 DEF BreakOff, GuardFree, Locks
  <2>2. CASE UNCHANGED <<pc, context, history>>
    BY <2>0, <2>2 DEF context, history, GuardFree, Locks, Removed
  <2> QED
    BY <1>2, <2>1, <2>2 DEF ReadField
<1>3. CASE Deliver \/ UnsupportedField
  <2>1. pc = "record" /\ locks' = locks - Locks /\ pc' # "record" /\ (broken => broken')
    <3>1. CASE Deliver
      <4>1. pc = "record" /\ locks' = locks - Locks
        BY <3>1 DEF Deliver
      <4>2. CASE BreakOff(Consumed - 1, FALSE)
        BY <4>1, <4>2, BreakFacts
      <4>3. CASE pc' = "data" /\ UNCHANGED broken
        BY <4>1, <4>3
      <4> QED
        BY <3>1, <4>2, <4>3 DEF Deliver
    <3>2. CASE UnsupportedField
      <4>1. pc = "record" /\ locks' = locks - Locks /\ Fail
        BY <3>2 DEF UnsupportedField
      <4> QED
        BY <4>1, FailFacts
    <3> QED
      BY <1>3, <3>1, <3>2
  <2>2. locks = Locks
    BY <2>1 DEF GuardFree
  <2> QED
    BY <1>0, <2>1, <2>2
<1>4. ASSUME UNCHANGED locks, pc # "record", pc' # "record", broken => broken'
      PROVE  (locks = IF pc = "record" THEN Locks ELSE 0)'
  BY <1>4 DEF GuardFree
<1>5. CASE Incomplete \/ BadLength \/ EmptyMessage \/ Header \/ Done \/ ReadFlagsAndSymbol
  <2>1. UNCHANGED locks /\ pc # "record" /\ pc' # "record" /\ (broken => broken')
    BY <1>5, FailFacts, FramingAssumption
    DEF Incomplete, BadLength, EmptyMessage, Header, Done, ReadFlagsAndSymbol, registry, history,
        GoOn, HandlerOf, DataTypes
  <2> QED
    BY <1>4, <2>1
<1>6. CASE DescribeRecord \/ DescribeField \/ EndDescription \/ DescribeProtocol \/ Heartbeat \/ ReadMark
  <2>1. UNCHANGED locks /\ pc # "record" /\ pc' # "record" /\ (broken => broken')
    BY <1>6, FailFacts
    DEF DescribeRecord, DescribeField, EndDescription, DescribeProtocol, Heartbeat, ReadMark, registry, history, GoOn
  <2> QED
    BY <1>4, <2>1
<1>7. CASE Receive \/ Resume \/ Reconnect \/ BeginClose \/ Deinit
  <2>1. UNCHANGED locks /\ pc # "record" /\ pc' # "record" /\ (broken => broken')
    BY <1>7 DEF Receive, Resume, Reconnect, BeginClose, Deinit, registry, history
  <2> QED
    BY <1>4, <2>1
<1>8. CASE UNCHANGED vars
  BY <1>8 DEF vars, registry, history, parsing, context, GuardFree, Locks, Removed
<1> QED
  BY <1>1, <1>2, <1>3, <1>5, <1>6, <1>7, <1>8 DEF Next, Process

\* Whatever the server sends, dx_clear_record_digests finds the guard free when the
\* connection is closed, unless the buffer ended in a record.
THEOREM GuardFreeTheorem == Spec => []GuardFree
<1>1. Init => GuardFree
  BY DEF Init, GuardFree
<1> QED
  BY <1>1, GuardStep, FramingInvariant, PTL DEF Spec

-----------------------------------------------------------------------------
\* The reader waits for the socket only at a number or a message that is not all
\* there yet, or behind the last byte.
WaitsForRest == pc = "idle" => ~Invalid(pos) /\ ~Complete(pos)

\* Behind the last byte there is nothing to be read.
LEMMA NothingBehind == \A p : ~(p < Len(buffer)) => ~Invalid(p) /\ ~Complete(p)
BY DEF Invalid, Complete, Readable

LEMMA ReaderWaits ==
  ASSUME Process, UNCHANGED buffer, Len(buffer) \in Nat, pc' = "idle"
  PROVE  Incomplete \/ ~(pos' < Len(buffer))
<1>1. CASE BadLength \/ EmptyMessage \/ Header \/ Done \/ ReadFlagsAndSymbol \/ BeginRecord
  BY <1>1 DEF BadLength, EmptyMessage, Header, Done, ReadFlagsAndSymbol, BeginRecord, Fail, BreakOff, GoOn,
              HandlerOf, DataTypes
<1>2. CASE UnsupportedField \/ ReadField \/ Deliver \/ DescribeRecord \/ DescribeField \/ EndDescription
  BY <1>2 DEF UnsupportedField, ReadField, Deliver, DescribeRecord, DescribeField, EndDescription, Fail, BreakOff
<1>3. CASE DescribeProtocol \/ Heartbeat \/ ReadMark
  BY <1>3 DEF DescribeProtocol, Heartbeat, ReadMark, Fail, BreakOff, GoOn
<1> QED
  BY <1>1, <1>2, <1>3 DEF Process

LEMMA WaitsStep == FramingInv /\ WaitsForRest /\ [Next]_vars => WaitsForRest'
<1> SUFFICES ASSUME FramingInv, WaitsForRest, [Next]_vars, pc' = "idle"
             PROVE  ~Invalid(pos)' /\ ~Complete(pos)'
  BY DEF WaitsForRest
<1>0. InputOK /\ FailureSkips
  BY DEF FramingInv
<1>1. CASE Process
  <2>1. UNCHANGED buffer /\ Len(buffer) \in Nat
    BY <1>0, <1>1, ProcessStep DEF InputOK
  <2>2. CASE Incomplete
    BY <2>2 DEF Incomplete, input, Invalid, Complete, Readable, LengthOK, End, Next1, Long64
  <2>3. CASE ~(pos' < Len(buffer))
    BY <2>1, <2>3 DEF Invalid, Complete, Readable
  <2> QED
    BY <1>1, <2>1, <2>2, <2>3, ReaderWaits
<1>2. CASE Receive
  BY <1>2 DEF Receive
<1>3. CASE Resume \/ Reconnect
  <2>1. UNCHANGED <<buffer, pos>> /\ pc \in {"idle", "failed"}
    BY <1>3 DEF Resume, Reconnect, input
  <2>2. ~Invalid(pos) /\ ~Complete(pos)
    <3>1. CASE pc = "idle"
      BY <3>1 DEF WaitsForRest
    <3>2. CASE pc = "failed"
      <4>1. ~(pos < Len(buffer))
        BY <1>0, <3>2 DEF FailureSkips, InputOK
      <4> QED
        BY <4>1, NothingBehind
    <3> QED
      BY <2>1, <3>1, <3>2
  <2> QED
    BY <2>1, <2>2 DEF Invalid, Complete, Readable, LengthOK, End, Next1, Long64
<1>4. CASE BeginClose \/ Deinit
  BY <1>4 DEF BeginClose, Deinit
<1>5. CASE UNCHANGED vars
  <2>1. UNCHANGED <<buffer, pos>> /\ pc = "idle"
    BY <1>5 DEF vars, input
  <2>2. ~Invalid(pos) /\ ~Complete(pos)
    BY <2>1 DEF WaitsForRest
  <2> QED
    BY <2>1, <2>2 DEF Invalid, Complete, Readable, LengthOK, End, Next1, Long64
<1> QED
  BY <1>1, <1>2, <1>3, <1>4, <1>5 DEF Next

\* The buffer is never given up, and it grows only as far as a chunk behind the
\* message under way, of which the buffer does not hold the last byte; or a chunk
\* behind the first bytes of a number: for every stream, proper or not
\* (dx_append_new_data, dx_read_message_length_and_set_buffer_limit).
GrowsForMessage ==
  [][capacity' # capacity =>
       LET left == Len(buffer) - pos
       IN /\ capacity < capacity' /\ capacity' <= left + Chunk
          /\ \/ left <= 8
             \/ Readable(pos) /\ LengthOK(pos) /\ left < End(pos) - pos]_vars

\* What waits for its rest is shorter than the message it begins.
LEMMA RestIsShort ==
  ASSUME FramingInv, ~Invalid(pos), ~Complete(pos)
  PROVE  \/ Len(buffer) - pos <= 8
         \/ Readable(pos) /\ LengthOK(pos) /\ Len(buffer) - pos < End(pos) - pos
<1>0. InputOK /\ buffer \in Seq(Bytes) /\ Len(buffer) \in Nat /\ pos \in Nat /\ pos <= Len(buffer)
  BY DEF FramingInv, InputOK
<1>1. CASE Readable(pos)
  <2>1. LengthOK(pos) /\ ~(End(pos) <= Len(buffer))
    BY <1>1 DEF Invalid, Complete
  <2>2. Next1(pos) \in Nat
    BY <1>0, <1>1, ReadFacts
  <2>3. Long64(pos).lo \in Nat
    BY <2>1, <2>2, FramingAssumption DEF LengthOK
  <2>4. End(pos) \in Nat
    BY <2>2, <2>3 DEF End
  <2> QED
    BY <1>0, <1>1, <2>1, <2>4
<1>2. CASE ~Readable(pos)
  <2>1. CASE pos < Len(buffer)
    <3>1. SizeOf[buffer[pos + 1]] \in 1..9
      BY <1>0, <2>1, SizeType
    <3>2. ~(pos + SizeOf[buffer[pos + 1]] <= Len(buffer))
      BY <1>2, <2>1 DEF Readable
    <3> QED
      BY <1>0, <3>1, <3>2
  <2> QED
    BY <1>0, <2>1
<1> QED
  BY <1>1, <1>2

\* For every stream and every way to split it, dx_append_new_data grows the buffer
\* only for the message under way.
THEOREM GrowsForMessageTheorem == Spec => GrowsForMessage
<1>1. Init => WaitsForRest
  BY NothingBehind DEF Init, WaitsForRest
<1> DEFINE grows == LET left == Len(buffer) - pos
                    IN /\ capacity < capacity' /\ capacity' <= left + Chunk
                       /\ \/ left <= 8
                          \/ Readable(pos) /\ LengthOK(pos) /\ left < End(pos) - pos
<1>2. FramingInv /\ WaitsForRest /\ [Next]_vars => [capacity' # capacity => grows]_vars
  <2> SUFFICES ASSUME FramingInv, WaitsForRest, Next, capacity' # capacity
               PROVE  grows
    OBVIOUS
  <2>1. Receive
    BY DEF Next, Process, Incomplete, BadLength, EmptyMessage, Header, Done, ReadFlagsAndSymbol,
           BeginRecord, UnsupportedField, ReadField, Deliver, DescribeRecord, DescribeField, EndDescription,
           DescribeProtocol, Heartbeat, ReadMark, Resume, Reconnect, BeginClose, Deinit, input
  <2>2. PICK n \in 1..Chunk : capacity' = IF capacity < Len(buffer) - pos + n
                                          THEN Len(buffer) - pos + n ELSE capacity
    BY <2>1 DEF Receive, AppendNewData
  <2>3. Len(buffer) \in Nat /\ pos \in Nat /\ pos <= Len(buffer) /\ capacity \in Nat /\ Chunk \in Nat
    BY FramingAssumption DEF FramingInv, InputOK
  <2>4. capacity < capacity' /\ capacity' <= Len(buffer) - pos + Chunk
    BY <2>2, <2>3
  <2>5. ~Invalid(pos) /\ ~Complete(pos)
    BY <2>1 DEF Receive, WaitsForRest
  <2> QED
    BY <2>4, <2>5, RestIsShort
<1> QED
  BY <1>1, <1>2, WaitsStep, FramingInvariant, PTL DEF Spec, GrowsForMessage
=============================================================================
