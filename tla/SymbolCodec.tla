---------------------------- MODULE SymbolCodec -----------------------------
(***************************************************************************)
(* How a symbol and the event flags in front of it stand in a record       *)
(* (SymbolCodec.c).  A short symbol is packed into up to 35 bits, five or  *)
(* ten a character: its penta.  A longer one is written out.               *)
(*                                                                         *)
(* A symbol is a sequence of ASCII codes.  A penta is kept as its five     *)
(* highest bits and the thirty below them, the parts of a cipher.          *)
(***************************************************************************)
EXTENDS CompactCodec, SequencesExt

\* dx_init_symbol_codec: letters, '.', '/' and '$' take five bits; the other
\* printable characters, but ' and `, ten.
Slash == 28
Dollar == 29
Short(c) == CASE c \in 65..90 -> c - 64 [] c = 46 -> 27 [] c = 47 -> Slash [] c = 36 -> Dollar [] OTHER -> 0
Encodable == (32..126) \ {39, 96}
PentaLength(c) == IF Short(c) > 0 THEN 5 ELSE 10

\* g_pentas, the long codes from 0x3C0 on in the order of the characters, and
\* g_penta_characters: 0 for a code that stands for none.
Pentas == [c \in Encodable |-> IF Short(c) > 0 THEN Short(c)
                               ELSE 960 + Cardinality({d \in Encodable : d < c /\ Short(d) = 0})]
PentaCharacters == [code \in 0..1023 |-> IF \E c \in Encodable : Pentas[c] = code
                                         THEN CHOOSE c \in Encodable : Pentas[c] = code ELSE 0]

\* (penta << bits) + code
Shift(p, bits, code) == [top |-> (p.low \div 2^(30 - bits)) % 32, low |-> (p.low % 2^(30 - bits)) * 2^bits + code]

\* dx_encode_symbol_name: whether the symbol has a cipher, and its penta.
Bits35(s)   == FoldLeft(LAMBDA n, c : n + PentaLength(c), 0, s)
PentaOf(s)  == FoldLeft(LAMBDA p, c : Shift(p, PentaLength(c), Pentas[c]), [top |-> 0, low |-> 0], s)
HasCipher(s) == /\ Len(s) <= 7 /\ \A i \in 1..Len(s) : s[i] \in Encodable
                /\ Bits35(s) <= 30 \/ (Bits35(s) = 35 /\ PentaOf(s).top \in {Slash, Dollar})

\* dx_codec_write_symbol
WriteSymbol(s) ==
  LET p == PentaOf(s)
      LowByte(k) == (p.low \div 2^(8 * k)) % 256
  IN IF ~HasCipher(s) THEN <<253>> \o WriteCompact(Long(Len(s))) \o s
     ELSE IF p.top > 0 THEN <<240 + (p.top \div 4), (p.top % 4) * 64 + (p.low \div 2^24), LowByte(2), LowByte(1), LowByte(0)>>
     ELSE IF p.low = 0 THEN <<254>>
     ELSE IF p.low < 2^15 THEN <<LowByte(1), LowByte(0)>>
     ELSE IF p.low < 2^20 THEN <<224 + LowByte(2), LowByte(1), LowByte(0)>>
     ELSE <<128 + (p.low \div 2^24), LowByte(2), LowByte(1), LowByte(0)>>

-----------------------------------------------------------------------------
\* dx_penta_to_string: the characters of the last n groups of five bits, where a
\* group of 30 or 31 takes the next one with it, from the highest that is not 0.
Groups(p) == [i \in 1..7 |-> IF i = 1 THEN p.top ELSE (p.low \div 2^(35 - 5 * i)) % 32]
Characters(g) ==
  LET text[n \in 0..7] ==
        IF n = 0 THEN <<>>
        ELSE IF g[8 - n] >= 30 /\ n > 1 THEN <<PentaCharacters[32 * g[8 - n] + g[9 - n]]>> \o text[n - 2]
        ELSE <<PentaCharacters[g[8 - n]]>> \o text[n - 1]
  IN text
PentaToString(p) ==
  LET g == Groups(p)
  IN Characters(g)[7 - Cardinality({i \in 1..7 : \A j \in 1..i : g[j] = 0})]

\* dx_codec_read_symbol behind the flags, at p of b: the symbol, how many bytes
\* it takes, and whether it could be read.  A cipher is decoded into its penta
\* again, so the penta says it all.  Void stands for the symbol before.
Unreadable == [ok |-> FALSE, symbol |-> <<>>, void |-> FALSE, size |-> 0]
Symbol(s, n) == [ok |-> TRUE, symbol |-> s, void |-> FALSE, size |-> n]

PentaSize(first) == IF first < 128 THEN 2 ELSE IF first < 192 THEN 4 ELSE IF first < 240 THEN 3 ELSE 5
ReadPenta(b, p) ==
  LET At(i) == b[p + i]
  IN CASE PentaSize(b[p]) = 2 -> [top |-> 0, low |-> At(0) * 2^8 + At(1)]
       [] PentaSize(b[p]) = 3 -> [top |-> 0, low |-> (At(0) % 16) * 2^16 + At(1) * 2^8 + At(2)]
       [] PentaSize(b[p]) = 4 -> [top |-> 0, low |-> (At(0) % 64) * 2^24 + At(1) * 2^16 + At(2) * 2^8 + At(3)]
       [] PentaSize(b[p]) = 5 -> [top |-> (At(0) % 8) * 4 + (At(1) \div 64),
                                  low |-> (At(1) % 64) * 2^24 + At(2) * 2^16 + At(3) * 2^8 + At(4)]

\* A symbol written out; its length may be anything.
ReadText(b, p) ==
  LET n     == ReadCompactLong(b, p)
      start == p + SizeOf[b[p]]
  IN IF p <= Len(b) /\ start - 1 <= Len(b) /\ n.hi = 0 /\ n.lo >= 0 /\ n.lo <= Len(b) - start + 1
        /\ \A i \in start..(start + n.lo - 1) : b[i] < 128
     THEN Symbol(SubSeq(b, start, start + n.lo - 1), 1 + SizeOf[b[p]] + n.lo)
     ELSE Unreadable

ReadSymbol(b, p) ==
  IF p > Len(b) THEN Unreadable
  ELSE CASE b[p] \in 0..191 \cup 224..247 ->
              IF p + PentaSize(b[p]) - 1 > Len(b) THEN Unreadable
              ELSE Symbol(PentaToString(ReadPenta(b, p)), PentaSize(b[p]))
         [] b[p] \in {252, 253} -> ReadText(b, p + 1)
         [] b[p] = 254 -> Symbol(<<>>, 1)
         [] b[p] = 255 -> [ok |-> TRUE, symbol |-> <<>>, void |-> TRUE, size |-> 1]
         [] OTHER -> Unreadable

\* dx_codec_read_symbol: the flags may be the most recently used ones or new
\* ones, and are given once.
Flags(ok, flags, mru, n) == [ok |-> ok, flags |-> flags, mru |-> mru, size |-> n]
ReadFlags(b, p, mru) ==
  IF p > Len(b) THEN Flags(FALSE, 0, mru, 0)
  ELSE IF b[p] = 248 THEN Flags(TRUE, mru, mru, 1)
  ELSE IF b[p] # 249 THEN Flags(TRUE, 0, mru, 0)
  ELSE IF p = Len(b) \/ p + SizeOf[b[p + 1]] > Len(b) THEN Flags(FALSE, 0, mru, 0)
  ELSE Flags(TRUE, ReadCompactInt(b, p + 1), ReadCompactInt(b, p + 1), 1 + SizeOf[b[p + 1]])
=============================================================================
