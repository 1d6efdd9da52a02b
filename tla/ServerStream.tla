---------------------------- MODULE ServerStream ----------------------------
(***************************************************************************)
(* What a server sends (external: only its bytes are seen by the program). *)
(* A stream is the bytes of its messages and, for the properties, where    *)
(* its messages start and which records it carries.                        *)
(*                                                                         *)
(* A message is a compact length and as many bytes: the compact type, then *)
(* compact numbers; a record has its flags and its symbol first.  The      *)
(* names of records and of fields and the properties of a description of   *)
(* the protocol, which other readers take from the buffer, are stood for   *)
(* by one number each.                                                     *)
(***************************************************************************)
EXTENDS SymbolCodec

Compact(n) == WriteCompact(Long(n))
Numbers(ns) == FlattenSeq([i \in 1..Len(ns) |-> Compact(ns[i])])

\* The message that a length of len announces; ids is what it describes, and
\* records what it carries: the record r and at, the place behind it.
Message(len, content, ids, records, proper) ==
  [bytes |-> Compact(len) \o content, head |-> CompactSize(Long(len)),
   ids |-> ids, records |-> records, proper |-> proper]

Plain(type, body) == LET content == Compact(type) \o Numbers(body)
                     IN Message(Len(content), content, <<>>, <<>>, TRUE)
Improper(type, body) == [Plain(type, body) EXCEPT !.proper = FALSE]
Empty == Message(0, <<>>, <<>>, <<>>, TRUE)

\* A description of the record name under id, with fields of the given types.
Describe(id, name, types) ==
  [Plain(2, <<id, name, Len(types)>> \o types) EXCEPT !.ids = <<[id |-> id, name |-> name, types |-> types]>>]

\* Flags are left out when they are 0 and not repeated, nor are symbols.
FlagBytes(flags, mru) == CASE flags = 0 -> <<>> [] flags = mru -> <<248>> [] OTHER -> <<249>> \o Compact(flags)
SymbolBytes(symbol, last) == IF last = <<symbol>> THEN <<255>> ELSE WriteSymbol(symbol)

\* Records of one message, each [symbol, flags, id, values] with its values as longs.
WriteRecord(s, r) ==
  LET bytes == FlagBytes(r.flags, s.mru) \o SymbolBytes(r.symbol, s.last) \o Compact(r.id)
               \o FlattenSeq([j \in 1..Len(r.values) |-> WriteCompact(r.values[j])])
  IN [content |-> s.content \o bytes, last |-> <<r.symbol>>,
      mru     |-> IF r.flags = 0 THEN s.mru ELSE r.flags,
      records |-> Append(s.records, [r |-> r, at |-> Len(s.content \o bytes)])]

Data(type, rs) ==
  LET all == FoldLeft(WriteRecord, [content |-> Compact(type), last |-> <<>>, mru |-> 1, records |-> <<>>], rs)
  IN Message(Len(all.content), all.content, <<>>, all.records, TRUE)

-----------------------------------------------------------------------------
NoStream == [wire |-> <<>>, starts |-> {0}, events |-> <<>>, names |-> <<>>, proper |-> TRUE]

\* The types of fields that are numbers of the wire, and the one of a time.
Sendable == {t \in 0..255 : t % 16 = 8}
TimeType == 104

\* The descriptions of a stream so far that satisfy P, the last one of which counts.
Last1(s, P(_)) == LET at == {i \in 1..Len(s.names) : P(s.names[i])}
                  IN IF at = {} THEN <<>> ELSE <<s.names[CHOOSE i \in at : \A j \in at : j <= i]>>
OfId(s, id)     == Last1(s, LAMBDA d : d.id = id)
OfName(s, name) == Last1(s, LAMBDA d : d.name = name)

\* A stream is proper when its messages are and it sends records only under an
\* id that it has described for a record of the client, with the fields that it
\* has described; of a removed one (dxf_ef_remove_event), with the time alone.
Append1(s, msg, known) ==
  LET at    == Len(s.wire) + msg.head
      Types(r) == IF (r.flags \div 2) % 2 = 1 THEN <<TimeType>> ELSE OfName(s, OfId(s, r.id)[1].name)[1].types
      Right(r) == LET of == OfId(s, r.id)
                  IN /\ of # <<>> /\ of[1].name \in known
                     /\ Len(r.values) = Len(Types(r)) /\ \A j \in 1..Len(Types(r)) : Types(r)[j] \in Sendable
      right == \A i \in 1..Len(msg.records) : Right(msg.records[i].r)
  IN [wire   |-> s.wire \o msg.bytes,
      starts |-> s.starts \cup {Len(s.wire) + Len(msg.bytes)},
      events |-> IF ~right THEN s.events
                 ELSE s.events \o [i \in 1..Len(msg.records) |->
                        LET r == msg.records[i].r
                        IN [at |-> at + msg.records[i].at, name |-> OfId(s, r.id)[1].name,
                            symbol |-> r.symbol, flags |-> r.flags, types |-> Types(r), values |-> r.values]],
      names  |-> s.names \o [i \in 1..Len(msg.ids) |->
                   [at |-> Len(s.wire) + Len(msg.bytes), id |-> msg.ids[i].id,
                    name |-> msg.ids[i].name, types |-> msg.ids[i].types]],
      proper |-> s.proper /\ msg.proper /\ right]

\* The stream of a sequence of messages, to a client that has the records known.
Stream(msgs, known) == FoldLeft(LAMBDA s, msg : Append1(s, msg, known), NoStream, msgs)
=============================================================================
