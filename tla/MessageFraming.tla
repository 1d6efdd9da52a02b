--------------------------- MODULE MessageFraming ---------------------------
(***************************************************************************)
(* The reader thread's way from the bytes of the socket to the records it  *)
(* delivers (dx_process_server_data and its handlers in                    *)
(* ServerMessageProcessor.c, the record ids of DataStructures.c, the       *)
(* heartbeats of BinaryQTPParser.cpp).  The bytes come in chunks that      *)
(* split messages anywhere, a handler reads a message out of a buffer that *)
(* ends somewhere behind it, and the buffer outlives the connection.       *)
(*                                                                         *)
(* A step reads a header, a record or a description.  pos is the position  *)
(* of the buffered input: it equals context->buffer_pos when idle.         *)
(***************************************************************************)
EXTENDS SymbolCodec

CONSTANTS Servers,    \* what servers send: sequences of streams, one per connection
          Records,    \* the names of the client's records
          Ids,        \* the server's record ids
          Capacity,   \* DEFAULT_BUFFER_CAPACITY
          Chunk,      \* READ_CHUNK_SIZE
          IntMax,     \* INT_MAX
          None

\* From MIN_FIELD_TYPE_ID to MAX_FIELD_TYPE_ID.
FieldTypes == 0..255

ServerStreams == [wire : Seq(0..255), starts : SUBSET Nat,
                  events : Seq([at : Nat, name : Int, symbol : Seq(0..127), flags : Int,
                                types : Seq(FieldTypes), values : Seq(Word)]),
                  names : Seq([at : Nat, id : Ids, name : Int, types : Seq(FieldTypes)]), proper : BOOLEAN]

ASSUME FramingAssumption ==
  /\ Capacity \in Nat /\ Chunk \in Nat \ {0} /\ IntMax \in Nat
  /\ \A ss \in Servers : ss \in Seq(ServerStreams) /\ Len(ss) > 0
  /\ Records \subseteq Int /\ Ids \subseteq Int /\ None \notin Int

VARIABLES streams,    \* what the server sends on each connection
          nth,        \* how many connections there have been
          arrived,    \* how many bytes have been received on this one
          buffer,     \* the bytes of context->buffer up to buffer_size
          capacity,   \* context->buffer_capacity
          pos,        \* current_in_buffer_position
          limit,      \* in_buffer_limit
          pc,         \* where the reader is
          login,      \* the connection's status is dxf_cs_login_required
          idMap,      \* record_id_map
          digests,    \* of each record, the types of its fields and in_sync_with_server
          locks,      \* how often the reader has locked record_digests_guard
          name,       \* the record that is read or described
          symbol,     \* last_symbol, decoded from last_cipher if it had one
          flags,      \* last_flags
          mru,        \* mru_event_flags
          values,     \* the fields of the record read so far
          todo,       \* the numbers left of the record, the description or the heartbeat
          delivered,  \* history: the records passed on, of this connection
          lost,       \* history: the bytes of this connection skipped by a failure
          cut,        \* history: bytes before this stream's first, a tail of its, or a description went astray
          clean,      \* history: every stream so far was proper and none was cut
          broken      \* history: the buffer ended in a record that was read under the guard

server   == <<streams, nth, arrived>>
input    == <<buffer, capacity, pos, limit>>
registry == <<idMap, digests, locks>>
context  == <<symbol, flags, mru>>
parsing  == <<context, name, values, todo>>
history  == <<delivered, lost, cut, clean, broken>>
vars     == <<server, input, pc, login, registry, parsing, history>>

Busy == {"message", "data", "id", "record", "describe", "fields", "protocol", "heartbeat", "marks"}

\* The stream of this connection.
stream == streams[nth]

TypeOK ==
  /\ nth \in 1..Len(streams)
  /\ arrived \in 0..Len(stream.wire)
  /\ buffer \in Seq(0..255) /\ Len(buffer) <= capacity
  /\ capacity \in Nat /\ pos \in 0..Len(buffer) /\ limit \in Nat
  /\ pc \in Busy \cup {"idle", "failed", "closing", "closed"}
  /\ login \in BOOLEAN
  /\ idMap \in [Ids -> Records \cup {None}]
  /\ digests \in [Records -> [types : Seq(FieldTypes), inSync : BOOLEAN]]
  /\ locks \in Nat
  /\ symbol \in Seq(0..127) \cup {None} /\ flags \in Int /\ mru \in Int
  /\ name \in Records \cup {None} /\ values \in Seq(Word) /\ todo \in Nat
  /\ delivered \in Seq([name : Records, symbol : Seq(0..127), flags : Int, values : Seq(Word)])
  /\ lost \subseteq 1..arrived
  /\ cut \in BOOLEAN /\ clean \in BOOLEAN /\ broken \in BOOLEAN

\* dx_init_record_digest.
NewDigest == [types |-> <<>>, inSync |-> FALSE]

\* dx_ccs_server_msg_processor is created with an empty buffer.
Init ==
  /\ streams \in Servers /\ nth = 1 /\ arrived = 0
  /\ buffer = <<>> /\ capacity = Capacity /\ pos = 0 /\ limit = 0
  /\ pc = "idle" /\ login = FALSE
  /\ idMap = [i \in Ids |-> None]
  /\ digests = [r \in Records |-> NewDigest]
  /\ locks = 0
  /\ symbol = None /\ flags = 0 /\ mru = 0
  /\ name = None /\ values = <<>> /\ todo = 0
  /\ delivered = <<>> /\ lost = {} /\ cut = FALSE /\ clean = stream.proper /\ broken = FALSE

-----------------------------------------------------------------------------
\* The compact readers look at the bytes of the buffer, not at the limit.
Readable(p) == p < Len(buffer) /\ p + SizeOf[buffer[p + 1]] <= Len(buffer)
Long64(p)   == ReadCompactLong(buffer, p + 1)
Int32(p)    == IF Readable(p) THEN ReadCompactInt(buffer, p + 1) ELSE None
Next1(p)    == p + SizeOf[buffer[p + 1]]

\* The position behind a number, or None when the buffer ends before it.
Step(p) == IF p # None /\ Readable(p) THEN Next1(p) ELSE None

\* The byte of the stream that the reader is at.
Consumed == arrived - (Len(buffer) - pos)

-----------------------------------------------------------------------------
\* Mutant of AppendNewData: what is left keeps its place, and the new bytes follow.
AppendUnmoved(n) ==
  /\ buffer' = [i \in 1..(Len(buffer) + n) |->
                  IF i <= Len(buffer) THEN buffer[i] ELSE stream.wire[arrived + i - Len(buffer)]]
  /\ capacity' = IF capacity < Len(buffer) + n THEN Len(buffer) + n ELSE capacity
  /\ UNCHANGED pos

\* Mutant of AppendNewData: the larger buffer is allocated for the new bytes only.
AppendToSmall(n) ==
  LET left == Len(buffer) - pos
  IN /\ buffer' = [i \in 1..(left + n) |-> IF i <= left THEN buffer[pos + i]
                                           ELSE stream.wire[arrived + i - left]]
     /\ capacity' = IF capacity < n THEN n ELSE capacity
     /\ pos' = 0

\* dx_append_new_data: what is left moves to the front, the new bytes follow.
AppendNewData(n) ==
  LET left == Len(buffer) - pos
  IN /\ buffer' = [i \in 1..(left + n) |-> IF i <= left THEN buffer[pos + i]
                                           ELSE stream.wire[arrived + i - left]]
     /\ capacity' = IF capacity < left + n THEN left + n ELSE capacity
     /\ pos' = 0

\* dx_socket_reader: a chunk of the socket is passed to dx_process_server_data.
Receive ==
  /\ pc = "idle"
  /\ \E n \in 1..Chunk :
       /\ arrived + n <= Len(stream.wire)
       /\ AppendNewData(n)
       /\ arrived' = arrived + n
  /\ pc' = "message"
  /\ UNCHANGED <<streams, nth, limit, login, registry, parsing, history>>

-----------------------------------------------------------------------------
\* The loop goes on at p, or returns behind the last byte.
GoOn(p) == pos' = p /\ pc' = IF p < Len(buffer) THEN "message" ELSE "idle"

\* The handler returns false, and the buffer from byte n of the stream is skipped.
\* The guard is held when a record breaks off.
BreakOff(n, held) ==
  /\ pos' = Len(buffer) /\ pc' = "failed"
  /\ lost' = lost \cup {i \in 1..arrived : i > n}
  /\ broken' = (broken \/ held)
  /\ UNCHANGED <<delivered, cut, clean>>

\* Mutant of Fail: the rest of the buffer is kept.
FailKeeping ==
  /\ pc' = "failed"
  /\ lost' = lost \cup {i \in 1..arrived : i > Consumed}
  /\ UNCHANGED <<pos, delivered, cut, clean, broken>>

\* An unrecoverable error skips the whole buffer and returns false.
Fail == BreakOff(Consumed, FALSE)

\* dx_read_message_length_and_set_buffer_limit, in its order.
LengthOK(p)  == Long64(p).hi = 0 /\ Long64(p).lo \in 0..(IntMax - Next1(p))
End(p)       == Next1(p) + Long64(p).lo
Invalid(p)   == Readable(p) /\ ~LengthOK(p)
Complete(p)  == Readable(p) /\ LengthOK(p) /\ End(p) <= Len(buffer)

\* DXPMessageData.c: which types a handler is called for.
TxPending == 1   \* dxf_ef_tx_pending
DataTypes         == {10, 15, 20}
SubscriptionTypes == {11, 12, 16, 17, 21, 22}
HandlerOf(type) == CASE type = 0 -> "heartbeat" [] type = 1 -> "protocol" [] type = 2 -> "describe"
                     [] type \in DataTypes -> "data" [] OTHER -> None

\* The message is not all there yet: wait for its rest at its first byte.
Incomplete ==
  /\ pc = "message" /\ ~Invalid(pos) /\ ~Complete(pos)
  /\ pc' = "idle"
  /\ UNCHANGED <<server, input, login, registry, parsing, history>>

BadLength ==
  /\ pc = "message" /\ Invalid(pos)
  /\ Fail
  /\ UNCHANGED <<server, buffer, capacity, limit, login, registry, parsing>>

\* Mutant of EmptyMessage: the loop stays at the message.
EmptyMessageStays ==
  /\ pc = "message" /\ Complete(pos) /\ End(pos) = Next1(pos)
  /\ limit' = End(pos) /\ GoOn(pos)
  /\ UNCHANGED <<server, buffer, capacity, login, registry, parsing, history>>

\* A message of length zero is a heartbeat without content.
EmptyMessage ==
  /\ pc = "message" /\ Complete(pos) /\ End(pos) = Next1(pos)
  /\ limit' = End(pos) /\ GoOn(End(pos))
  /\ UNCHANGED <<server, buffer, capacity, login, registry, parsing, history>>

\* dx_process_data_message: each message begins without a symbol.
StartContext(type) ==
  IF type \in DataTypes THEN symbol' = None /\ flags' = 0 /\ mru' = TxPending ELSE UNCHANGED context

\* dx_read_message_type and the dispatch of dx_process_message: a subscription
\* is an error, a message that is unknown or not supported is skipped.
Header ==
  /\ pc = "message" /\ Complete(pos) /\ End(pos) > Next1(pos)
  /\ limit' = End(pos)
  /\ LET p == Next1(pos)
     IN \/ Int32(p) \in SubscriptionTypes \cup {None} /\ Fail /\ UNCHANGED context
        \/ /\ HandlerOf(Int32(p)) # None
           /\ pos' = Next1(p) /\ pc' = HandlerOf(Int32(p))
           /\ StartContext(Int32(p))
           /\ UNCHANGED history
        \/ /\ HandlerOf(Int32(p)) = None /\ Int32(p) \notin SubscriptionTypes \cup {None}
           /\ GoOn(End(pos))
           /\ UNCHANGED <<context, history>>
  /\ UNCHANGED <<server, buffer, capacity, login, registry, name, values, todo>>

-----------------------------------------------------------------------------
\* dx_process_data_message and dx_process_describe_records end at the limit,
\* or behind it when the last record reached further.
Done ==
  /\ pc \in {"data", "describe"} /\ pos >= limit
  /\ GoOn(pos)
  /\ UNCHANGED <<server, buffer, capacity, limit, login, registry, parsing, history>>

\* dx_read_symbol and dx_codec_read_symbol: the flags, then the symbol or the
\* sign for the one before, which the first record of a message cannot use.
ReadFlagsAndSymbol ==
  /\ pc = "data" /\ pos < limit
  /\ \E f \in {ReadFlags(buffer, pos + 1, mru)} : \E s \in {ReadSymbol(buffer, pos + f.size + 1)} :
       LET sound == f.ok /\ s.ok /\ (s.void => symbol # None)
       IN \/ ~sound /\ Fail /\ UNCHANGED context
          \/ /\ sound
             /\ symbol' = IF s.void THEN symbol ELSE s.symbol
             /\ flags' = f.flags /\ mru' = f.mru
             /\ pos' = pos + f.size + s.size /\ pc' = "id"
             /\ UNCHANGED history
  /\ UNCHANGED <<server, buffer, capacity, limit, login, registry, name, values, todo>>

\* dx_get_record_id, and whether the record was described on this connection.
LocalId(id) == IF id \in Ids THEN idMap[id] ELSE None
InSync(id)  == LocalId(id) # None /\ digests[LocalId(id)].inSync

\* The record is removed: only its time follows (dx_read_qdtime_on_remove_event).
Removed == (flags \div 2) % 2 = 1
Locks   == IF Removed THEN 0 ELSE 1

\* dx_process_data_message: the id, then a record is read into a fresh buffer,
\* with the guard locked.
BeginRecord ==
  /\ pc = "id"
  /\ \/ ~InSync(Int32(pos)) /\ Fail /\ UNCHANGED <<locks, name, values, todo>>
     \/ /\ InSync(Int32(pos))
        /\ name' = LocalId(Int32(pos)) /\ values' = <<>>
        /\ todo' = IF Removed THEN 1 ELSE Len(digests[name'].types)
        /\ locks' = locks + Locks
        /\ pos' = Next1(pos) /\ pc' = "record"
        /\ UNCHANGED history
  /\ UNCHANGED <<server, buffer, capacity, limit, login, idMap, digests, context>>

\* dx_read_records: the type of the field that comes next (dx_fid_mask_serialization,
\* dx_fid_mask_representation), and the readers it has: a long or a time in
\* milliseconds or a wide decimal is read as a long, as is the time of a removed
\* record.  A byte, a char, a short, an int or an array, which have readers of
\* their own, are stood for by a compact number.
FieldType == IF Removed THEN 104 ELSE digests[name].types[Len(digests[name].types) - todo + 1]
IsLong(type)    == type % 16 = 8 /\ type \div 16 \in {6, 7, 9}
Supported(type) == type % 16 \in {1, 2, 3, 4, 8, 9, 10}


\* dx_read_records: a type that has no reader; the guard is unlocked.  (Type 0 is
\* the client's own mark for what the server does not send: it takes no bytes and
\* is left out.  A server that sent it would be answered by a call of NULL: no step.)
UnsupportedField ==
  /\ pc = "record" /\ todo > 0 /\ ~Supported(FieldType) /\ FieldType % 16 # 0
  /\ Fail
  /\ locks' = locks - Locks
  /\ UNCHANGED <<server, buffer, capacity, limit, login, idMap, digests, parsing>>

\* dx_read_records, dx_read_qdtime_on_remove_event: a field, one number each.  The
\* buffer may end before it; then the guard stays locked.
ReadField ==
  /\ pc = "record" /\ todo > 0 /\ Supported(FieldType)
  /\ \/ ~Readable(pos) /\ BreakOff(Consumed, ~Removed) /\ UNCHANGED parsing
     \/ /\ Readable(pos)
        /\ values' = Append(values, IF IsLong(FieldType) THEN Long64(pos) ELSE Long(Int32(pos)))
        /\ todo' = todo - 1
        /\ pos' = Next1(pos)
        /\ UNCHANGED <<pc, context, name, history>>
  /\ UNCHANGED <<server, buffer, capacity, limit, login, registry>>

Record == [name |-> name, symbol |-> symbol, flags |-> flags, values |-> values]

\* The guard is unlocked and the record passed to dx_transcode_record_data, which
\* may fail: then nobody is told of the record, and the rest is skipped.
Deliver ==
  /\ pc = "record" /\ todo = 0
  /\ \/ /\ delivered' = Append(delivered, Record)
        /\ pc' = "data"
        /\ UNCHANGED <<pos, lost, cut, clean, broken>>
     \/ BreakOff(Consumed - 1, FALSE)
  /\ locks' = locks - Locks
  /\ UNCHANGED <<server, buffer, capacity, limit, login, idMap, digests, parsing>>

-----------------------------------------------------------------------------
\* Mutant of Assigned: the id of an earlier record is kept.
AssignedOnce(id, r) == [i \in Ids |-> IF i = id /\ idMap[i] = None THEN r ELSE idMap[i]]

\* dx_assign_server_record_id.
Assigned(id, r) == [i \in Ids |-> IF i = id THEN r ELSE idMap[i]]

\* dx_process_describe_records: an id, a name (0 stands for none) and the number
\* of fields.  The digest of a record that the client has is cleared; another
\* record is read over.
DescribeRecord ==
  /\ pc = "describe" /\ pos < limit
  /\ LET end   == Step(Step(Step(pos)))
         r     == Int32(Step(pos))
         count == Int32(Step(Step(pos)))
         sound == end # None /\ r # 0 /\ count >= 0
     IN \/ /\ ~sound
           /\ Fail
           /\ UNCHANGED <<idMap, digests, name, todo>>
        \/ /\ sound
           /\ \/ /\ r \in Records
                 /\ idMap' = Assigned(Int32(pos), r)
                 /\ digests' = [digests EXCEPT ![r] = NewDigest]
                 /\ name' = r
              \/ /\ r \notin Records
                 /\ name' = None
                 /\ UNCHANGED <<idMap, digests>>
           /\ todo' = count
           /\ pos' = end /\ pc' = "fields"
           /\ UNCHANGED history
  /\ UNCHANGED <<server, buffer, capacity, limit, login, locks, context, values>>

\* dx_fill_record_digest: the fields, one number each, then the digest is in
\* sync with the server.
DescribeField ==
  /\ pc = "fields" /\ todo > 0
  /\ \/ Int32(pos) \notin FieldTypes /\ Fail /\ UNCHANGED <<digests, todo>>
     \/ /\ Int32(pos) \in FieldTypes
        /\ digests' = [r \in Records |-> IF r = name THEN [digests[r] EXCEPT !.types = Append(@, Int32(pos))] ELSE digests[r]]
        /\ pos' = Next1(pos) /\ todo' = todo - 1
        /\ UNCHANGED <<pc, history>>
  /\ UNCHANGED <<server, buffer, capacity, limit, login, idMap, locks, context, name, values>>

EndDescription ==
  /\ pc = "fields" /\ todo = 0
  /\ digests' = [r \in Records |-> IF r = name THEN [digests[r] EXCEPT !.inSync = TRUE] ELSE digests[r]]
  /\ pc' = "describe"
  /\ UNCHANGED <<server, input, login, idMap, locks, parsing, history>>

\* dx_process_describe_protocol: the properties are stood for by a number, 0
\* without "authentication", 1 for a required and 2 for a failed login.  What
\* follows is skipped to the limit.
DescribeProtocol ==
  /\ pc = "protocol"
  /\ \/ /\ Int32(pos) = 0
        /\ login' = FALSE
        /\ GoOn(IF Next1(pos) < limit THEN limit ELSE Next1(pos))
        /\ UNCHANGED history
     \/ /\ Int32(pos) \in {1, 2}
        /\ login' = (Int32(pos) = 1)
        /\ Fail
     \/ Int32(pos) \notin 0..2 /\ Fail /\ UNCHANGED login
  /\ UNCHANGED <<server, buffer, capacity, limit, registry, parsing>>

\* HeartbeatPayload: the marks that the content mask announces.
Marks(mask) == {b \in {1, 2, 4, 8} : (mask \div b) % 2 = 1}

\* BinaryQTPParser::parseHeartbeat: an error is not passed on, and the position
\* is left somewhere in the number that the buffer ends in.
Heartbeat ==
  /\ pc = "heartbeat"
  /\ \/ pos = limit /\ GoOn(pos) /\ UNCHANGED todo
     \/ /\ pos # limit /\ Readable(pos)
        /\ todo' = Cardinality(Marks(Int32(pos)))
        /\ pos' = Next1(pos) /\ pc' = "marks"
     \/ /\ pos # limit /\ ~Readable(pos)
        /\ \E p \in pos..Len(buffer) : GoOn(p)
        /\ UNCHANGED todo
  /\ UNCHANGED <<server, buffer, capacity, limit, login, registry, context, name, values, history>>

\* HeartbeatPayload::parseFrom, a mark a step, and back to the loop.
ReadMark ==
  /\ pc = "marks"
  /\ \/ todo = 0 /\ GoOn(pos) /\ UNCHANGED todo
     \/ /\ todo > 0 /\ Readable(pos)
        /\ pos' = Next1(pos) /\ todo' = todo - 1
        /\ UNCHANGED pc
     \/ /\ todo > 0 /\ ~Readable(pos)
        /\ \E p \in pos..Len(buffer) : GoOn(p)
        /\ UNCHANGED todo
  /\ UNCHANGED <<server, buffer, capacity, limit, login, registry, context, name, values, history>>

-----------------------------------------------------------------------------
\* dx_reestablish_connection when a login is required: the client describes
\* itself again, and reading goes on with the same socket and the same digests.
\* What the server described in the bytes that were skipped is not known.
Resume ==
  /\ pc = "failed" /\ login
  /\ pc' = "idle"
  /\ cut' = (cut \/ arrived \notin stream.starts
                 \/ \E k \in DOMAIN stream.names : stream.names[k].at \in lost)
  /\ clean' = (clean /\ ~cut')
  /\ UNCHANGED <<server, input, login, registry, parsing, delivered, lost, broken>>

\* The reader reconnects after a failure, or when the socket is lost:
\* dx_clear_server_info drops the digests, but the buffer and the ids stay.
\* When the socket is lost in the middle of a message the rest of it never
\* comes, and what did come precedes the new stream.
Reconnect ==
  /\ pc \in {"idle", "failed"} /\ ~login
  /\ nth < Len(streams) /\ nth' = nth + 1 /\ arrived' = 0
  /\ digests' = [r \in Records |-> NewDigest]
  /\ pc' = "idle" /\ delivered' = <<>> /\ lost' = {}
  /\ cut' = (pc = "idle" /\ (cut \/ ~stream.proper \/ arrived \notin stream.starts))
  /\ clean' = (clean /\ streams[nth'].proper /\ ~cut')
  /\ UNCHANGED <<streams, input, login, idMap, locks, parsing, broken>>

\* The application closes the connection: the reader thread ends at the top of
\* its loop, and the subsystem waits for the guard to free the digests.
BeginClose ==
  /\ pc \in {"idle", "failed"}
  /\ pc' = "closing"
  /\ UNCHANGED <<server, input, login, registry, parsing, history>>

Deinit ==
  /\ pc = "closing" /\ locks = 0
  /\ pc' = "closed" /\ digests' = [r \in Records |-> NewDigest]
  /\ UNCHANGED <<server, input, login, idMap, locks, parsing, history>>

-----------------------------------------------------------------------------
Process ==
  \/ Incomplete \/ BadLength \/ EmptyMessage \/ Header
  \/ Done \/ ReadFlagsAndSymbol \/ BeginRecord \/ UnsupportedField \/ ReadField \/ Deliver
  \/ DescribeRecord \/ DescribeField \/ EndDescription
  \/ DescribeProtocol \/ Heartbeat \/ ReadMark

Next == Receive \/ Process \/ Resume \/ Reconnect \/ BeginClose \/ Deinit

\* The reader thread runs on; the server may fall silent, and the application
\* may never close the connection.
Spec == Init /\ [][Next]_vars /\ WF_vars(Process) /\ WF_vars(Deinit)

-----------------------------------------------------------------------------
\* Between two messages the reader is at the first byte of a message, however
\* the stream was split, whatever it skipped, and after an earlier connection
\* that failed or was lost between two messages: what is left in the buffer is
\* the stream from there on (dx_append_new_data, dx_process_server_data).  Not
\* claimed of a stream that was cut: one whose bytes follow the rest of an
\* earlier one, or of which an error skipped part of a message or a description.
Framed ==
  ~cut /\ stream.proper /\ pc \in {"idle", "message"} =>
    /\ Consumed \in stream.starts
    /\ \A i \in 1..(Len(buffer) - pos) : buffer[pos + i] = stream.wire[Consumed + i]

\* The records passed on are, in order, those of the stream that the reader has
\* passed, each under the name that this connection gave its id, with the
\* symbol, the flags and the values the server wrote, repeated or not, but for
\* those in a buffer skipped by an error (dx_process_data_message,
\* dx_read_symbol, dx_assign_server_record_id, the compact numbers).  What became
\* of a value is said by AsLong and AsInt: a long that is written in two bytes
\* loses its sign (dx_read_compact_long), an int the bits above 32.  When what
\* was skipped holds a description, the ids after it are another matter: cut.
DeliveredExactly ==
  ~cut /\ stream.proper /\ pc # "record" =>
    LET passed == SelectSeq(stream.events, LAMBDA e : e.at <= Consumed /\ e.at \notin lost)
    IN /\ Len(delivered) = Len(passed)
       /\ \A i \in 1..Len(passed) :
            /\ \A f \in {"name", "symbol", "flags"} : delivered[i][f] = passed[i][f]
            /\ delivered[i].values = [j \in 1..Len(passed[i].values) |->
                 IF IsLong(passed[i].types[j]) THEN AsLong(passed[i].values[j]) ELSE AsInt(passed[i].values[j])]

\* A message of more than n bytes has been sent.
LongerSent(n) ==
  \E k \in 1..nth : \E a \in streams[k].starts \ {Len(streams[k].wire)} :
    \A b \in streams[k].starts : b > a => b > a + n

\* The buffer grows to a message without its last byte and a chunk, and no
\* further, however long the connection lasts (dx_append_new_data).
BufferBounded == clean => capacity <= Capacity \/ LongerSent(capacity - Chunk)

\* A chunk is dealt with in finitely many steps: no message, of whatever
\* length and type, keeps the loop of dx_process_server_data where it is.
LoopEnds == (pc \in Busy) ~> (pc \notin Busy)

=============================================================================
