---------------------------- MODULE CompactCodec ----------------------------
(***************************************************************************)
(* The variable-length integers of the protocol (the compact readers of    *)
(* BufferedInput.c, the compact writers of BufferedOutput.c and            *)
(* dx_get_compact_size of BufferedIOCommon.c).  The number of leading ones *)
(* in the first byte is the number of bytes that follow.                   *)
(*                                                                         *)
(* A dxf_long_t is kept as its two signed 32-bit halves, the way the       *)
(* writer handles it; a dxf_int_t is a long whose high half is the sign.   *)
(***************************************************************************)
EXTENDS Integers, Sequences

Word == [hi : Int, lo : Int]
Sign(n) == IF n < 0 THEN -1 ELSE 0
Long(n) == [hi |-> Sign(n), lo |-> n]

\* (dxf_byte_t)(w >> 8 * k) of a 32-bit word, and of a long for k up to 8.
ByteOf(w, k) == (w \div 2^(8 * k)) % 256
LongByte(v, k) == IF k < 4 THEN ByteOf(v.lo, k)
                  ELSE IF k < 8 THEN ByteOf(v.hi, k - 4) ELSE Sign(v.hi) % 256

\* ((n << k) >> k): the low bits of n as a number in two's complement.
SignExtend(n, bits) == LET low == n % 2^bits
                       IN IF low >= 2^(bits - 1) THEN low - 2^bits ELSE low

-----------------------------------------------------------------------------
\* The conditions of the writers: n bytes hold 7 * n bits, below 2^31 of the
\* low half, above that of the high half.
Within(w, bits) == -2^bits <= w /\ w < 2^bits
Fits(v, n) == IF n < 5 THEN v.hi = Sign(v.lo) /\ Within(v.lo, 7 * n - 1)
              ELSE n = 9 \/ Within(v.hi, 7 * n - 33)

\* dx_get_compact_size, and the branch that the writers take.
CompactSize(v) == CHOOSE n \in 1..9 : Fits(v, n) /\ \A m \in 1..(n - 1) : ~Fits(v, m)

\* The ones in front of the first of n bytes (0x80, 0xC0, ... 0xFF); 8 - n bits
\* of it are left for the number.
Marker(n) == IF n = 9 THEN 255 ELSE 256 - 2^(9 - n)
Room(n)   == IF n = 9 THEN 1 ELSE 2^(8 - n)

\* dx_write_compact_int and dx_write_compact_long: the markers or-ed to a
\* positive number and the zero and-ed into a negative one leave the same byte.
WriteCompact(v) ==
  LET n == CompactSize(v)
  IN [i \in 1..n |-> IF i = 1 THEN Marker(n) + (LongByte(v, n - 1) % Room(n)) ELSE LongByte(v, n - i)]

-----------------------------------------------------------------------------
\* How many bytes the readers take after a first byte of n: their chain of
\* comparisons with 0x80, 0xC0, ... 0xFF.
SizeOf == [first \in 0..255 |-> CHOOSE n \in 1..9 : Marker(n) <= first /\ (n < 9 => first < Marker(n + 1))]

\* dx_read_int: the four bytes of b from position p (counted from 1).
Word4(b, p) == SignExtend(b[p], 8) * 2^24 + b[p + 1] * 2^16 + b[p + 2] * 2^8 + b[p + 3]

\* The number in the n bytes of b from p on, n <= 4, the first without its marker.
Bits(b, p, first, n) ==
  (IF n = 1 THEN first ELSE first * 2^(8 * (n - 1)))
  + (IF n > 1 THEN b[p + n - 1] ELSE 0)
  + (IF n > 2 THEN b[p + n - 2] * 2^8 ELSE 0)
  + (IF n > 3 THEN b[p + n - 3] * 2^16 ELSE 0)

\* dx_read_compact_long, when the buffer holds the SizeOf[b[p]] bytes it takes.
\* The second of two bytes is unsigned, and so is the shift: no sign there.
ReadCompactLong(b, p) ==
  LET n     == SizeOf[b[p]]
      first == b[p] - Marker(n)
  IN CASE n = 2         -> Long(Bits(b, p, first, 2))
       [] n \in {1, 3, 4} -> Long(SignExtend(Bits(b, p, first, n), 7 * n))
       [] OTHER         -> [hi |-> IF n = 9 THEN Word4(b, p + 1)
                                   ELSE SignExtend(Bits(b, p, first, n - 4), 7 * n - 32),
                            lo |-> Word4(b, p + n - 4)]

\* dx_read_compact_int: two bytes have a sign, and the bytes above the low half
\* are skipped.
ReadCompactInt(b, p) ==
  IF SizeOf[b[p]] = 2 THEN SignExtend(Bits(b, p, b[p] - Marker(2), 2), 14) ELSE ReadCompactLong(b, p).lo

\* A number that the writers put in two bytes comes out of the long reader
\* without its sign; of any number the int reader leaves the low half.
AsLong(v) == IF v.lo < 0 /\ CompactSize(v) = 2 THEN Long(v.lo + 2^14) ELSE v
AsInt(v)  == Long(v.lo)
=============================================================================
