-------------------------- MODULE MCMessageFraming --------------------------
(* Model checking of MessageFraming: streams of up to four messages. *)
EXTENDS MessageFraming

S == INSTANCE ServerStream

MCRecords == {1, 2}
Rec(id, vs) == [symbol |-> <<65>>, flags |-> 0, id |-> id, values |-> vs]
RecOf(s, f, id, vs) == [symbol |-> s, flags |-> f, id |-> id, values |-> vs]
Longs(ns) == [i \in 1..Len(ns) |-> Long(ns[i])]

\* One message of each kind; the length of the last is written in two bytes.
Proper ==
  {S!Empty, S!Plain(0, <<>>), S!Plain(0, <<15, 300, 1, -1, 70>>), S!Plain(99, <<1>>), S!Plain(3, <<7, 8>>),
   S!Plain(1, <<0, 9, 200>>), S!Plain(1, <<1>>), S!Plain(1, <<2>>), S!Plain(11, <<1>>),
   S!Describe(1, 3, <<8, 8>>), S!Describe(1, 2, <<8>>), S!Describe(2, 1, <<8>>), S!Describe(2, 1, <<8, 104>>),
   [bytes |-> <<128, 2, 61, 5>>, head |-> 2, ids |-> <<>>, records |-> <<>>, proper |-> TRUE]}

\* Lengths that are negative, in one byte and in two, or INT_MAX, a corrupted description, a number that
\* the message ends in, a record under an unknown id, a corrupted protocol.
Bad == {S!Message(-1, <<>>, <<>>, <<>>, FALSE), S!Message(-65, <<>>, <<>>, <<>>, FALSE), S!Message(IntMax, <<>>, <<>>, <<>>, FALSE),
        S!Improper(2, <<1, 0, 0>>), S!Improper(2, <<1, 1, -1>>), S!Improper(2, <<1, 1, 3>>),
        S!Improper(2, <<1, 3, 3>>), S!Message(1, <<128>>, <<>>, <<>>, FALSE),
        S!Message(4, <<10, 254, 1, 128>>, <<>>, <<>>, FALSE), S!Message(2, <<0, 128>>, <<>>, <<>>, FALSE),
        S!Message(4, <<10, 254, 5, 7>>, <<>>, <<>>, FALSE), S!Message(4, <<10, 255, 1, 7>>, <<>>, <<>>, FALSE), S!Improper(1, <<3>>)}

\* Numbers at the edges of one, two, three, four, five and nine bytes.
Edges == {Long(0), Long(63), Long(64), Long(-64), Long(-65), Long(-8192), Long(8192), Long(2^30), Long(-(2^27) - 1),
          [hi |-> 0, lo |-> -1], [hi |-> 3, lo |-> 2^30], [hi |-> -4, lo |-> 7], [hi |-> 2^30, lo |-> 0]}

One == S!Data(10, <<Rec(1, Longs(<<5>>))>>)
Two == S!Data(15, <<RecOf(<<65>>, 4, 1, Longs(<<64>>)), RecOf(<<65>>, 0, 1, Longs(<<-1>>))>>)
MCStream(msgs) == S!Stream(msgs, MCRecords)

\* Symbols of each length in bits, and one that is written out.
Symbols == {<<>>, <<66, 33>>, <<66, 66, 66, 66>>, <<90, 66, 65, 65, 65, 65>>, <<36, 66, 65, 65, 65, 65, 90>>,
            <<66, 66, 65, 65, 65, 65, 90>>, <<39>>}

First ==
  {MCStream(<<S!Describe(1, 1, <<104>>), m, Two>>) : m \in Proper \cup Bad}
  \cup {MCStream(<<S!Describe(1, 1, <<104>>), m>>) : m \in Bad}
Second == {MCStream(<<S!Describe(1, 2, <<104>>), One>>), MCStream(<<One, S!Empty>>)}

\* Streams of one connection: each number and each symbol, repeated in a record
\* of another kind and under new flags, the last record removed; and a record
\* that is described anew behind a request to log in.
Alone ==
  {MCStream(<<S!Describe(1, 1, <<t>>), S!Data(20, <<Rec(1, <<v>>)>>), S!Empty>>) : t \in {8, 120, 152}, v \in Edges}
  \cup {MCStream(<<S!Describe(1, 1, <<104, 5>>), S!Data(20, <<Rec(1, Longs(<<1, 2>>))>>), S!Empty>>)}
  \cup {MCStream(<<S!Describe(1, 1, <<8>>), S!Plain(1, <<1>>), S!Describe(1, 2, <<104>>), One>>)}
  \cup {MCStream(<<S!Describe(1, 1, <<8, 104>>),
                   S!Data(10, <<RecOf(s, 1, 1, Longs(<<1, 2>>)), RecOf(s, 6, 1, Longs(<<3>>)), RecOf(s, 6, 1, Longs(<<4>>))>>),
                   S!Data(20, <<RecOf(s, 0, 1, Longs(<<5, 6>>))>>)>>) : s \in Symbols}

MCServers == {<<a, b>> : a \in First, b \in Second} \cup {<<a>> : a \in Alone}

-----------------------------------------------------------------------------
\* What the readers make of what the writers write, between other bytes, and
\* they stop behind it: symbols of all kinds of characters, with five and ten
\* bits and with none, and numbers around each power of two of both halves.
SomeSymbols == UNION {[1..n -> {32, 33, 36, 39, 42, 46, 47, 65, 90, 97, 122, 126}] : n \in 0..3}
               \cup UNION {[1..n -> {36, 47, 65, 97}] : n \in 4..8}
SomeWords == LET halves == UNION {{2^k, 2^k - 1, -(2^k), -(2^k) - 1} : k \in 0..30}
             IN [hi : halves \cup {0}, lo : halves]
Between(bytes) == <<1, 255>> \o bytes \o <<7>>

ASSUME SymbolsReadBack ==
  \A s \in SomeSymbols : ReadSymbol(Between(WriteSymbol(s)), 3) = Symbol(s, Len(WriteSymbol(s)))

ASSUME NumbersReadBack ==
  \A v \in SomeWords : LET bytes == WriteCompact(v)
                       IN /\ SizeOf[bytes[1]] = Len(bytes) /\ Len(bytes) = CompactSize(v)
                          /\ ReadCompactLong(Between(bytes), 3) = AsLong(v)
                          /\ Long(ReadCompactInt(Between(bytes), 3)) = AsInt(v)
=============================================================================
