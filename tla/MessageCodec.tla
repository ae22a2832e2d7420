---------------------------- MODULE MessageCodec ----------------------------
(***************************************************************************)
(* The byte encoding of binderd's messages and how a reader decodes it.   *)
(*                                                                         *)
(*  - BinaryWriter / BinaryReader (common/binary_writer.cpp,              *)
(*    common/binary_reader.cpp): little-endian fixed-width integers and   *)
(*    sized blobs, padded to 4 bytes unless padding is switched off;      *)
(*  - Message::Pack / Message::Unpack (message.cpp): the envelope         *)
(*    [type:u32][destination:u64][cookie:u64][sized data];                *)
(*  - MessageParser::Next (message_parser.cpp): the loop that splits one  *)
(*    received frame into envelopes;                                       *)
(*  - TransactionData::Pack and TransactionDataFromMessage: the           *)
(*    transaction payload [binder:u64][cookie:u64][code:u32][flags:u32]    *)
(*    [sized data][sized object offsets], unpadded;                        *)
(*  - the SocketMessenger frame header: a 2-byte big-endian body size.    *)
(*                                                                         *)
(* A buffer is a sequence of bytes (0..255).  A writer is its buffer and  *)
(* its padding mode; a reader is the buffer, the cursor and the padding   *)
(* mode.  A read that would pass the end throws std::out_of_range, which  *)
(* a result records as ok = FALSE.                                         *)
(*                                                                         *)
(* The state machine is the read path of one frame: a peer's frame        *)
(* arrives (ReceiveFrame) and the handler calls parser.Next() until it    *)
(* returns null (ParseNext), dispatching each envelope.                   *)
(***************************************************************************)
EXTENDS Integers, Sequences, Bitwise, TLC

CONSTANTS Envelope,      \* the envelopes a peer may send (records, see Msg)
          MaxFrameMsgs,  \* envelopes one frame may carry
          CutFrames      \* TRUE: a peer may send a frame body cut short

VARIABLES sent,       \* the envelopes of the frame the peer wrote (ghost)
          buf,        \* the received frame body (body_)
          consumed,   \* MessageParser::consumed
          parsed,     \* envelopes the parser returned, in order
          pc          \* "idle", "parse", "done" or "threw"

vars == <<sent, buf, consumed, parsed, pc>>

-----------------------------------------------------------------------------
(* Bytes                                                                   *)

Byte == 0..255

\* n zero bytes (the padding that pad_mask clears)
Zeros(n) == [i \in 1..n |-> 0]

\* Seeded-bug variant of LE: the value is stored without masking it to
\* a byte.
LEUnmasked(v, n) == IF n = 0 THEN <<>> ELSE <<v>> \o Zeros(n - 1)

\* v as n little-endian bytes; a negative v comes out in two's complement.
RECURSIVE LE(_, _)
LE(v, n) == IF n = 0 THEN <<>> ELSE <<v % 256>> \o LE(v \div 256, n - 1)

\* The unsigned value of little-endian bytes.
RECURSIVE FromLE(_)
FromLE(bs) == IF bs = <<>> THEN 0 ELSE Head(bs) + 256 * FromLE(Tail(bs))

\* pad_size: (s + 3) & ~3.  (Its throw above UINT32_MAX - 3 needs sizes
\* no reader or writer here reaches.)
PadSize(s) == ((s + 3) \div 4) * 4

Padded(pad, s) == IF pad THEN PadSize(s) ELSE s

-----------------------------------------------------------------------------
(* BinaryWriter                                                            *)

Writer(pad) == [buf |-> <<>>, pad |-> pad]

\* WriteValue<T>: the sizeof(T) bytes of value at the cursor.
WriteValue(w, v, n) == [w EXCEPT !.buf = @ \o LE(v, n)]

\* WriteData: the bytes, then zeros up to the padded size.
WriteData(w, d) == [w EXCEPT !.buf = @ \o d \o Zeros(Padded(w.pad, Len(d)) - Len(d))]

\* WriteSizedData: the size as an int32, then the data.
WriteSizedData(w, d) == WriteData(WriteValue(w, Len(d), 4), d)

-----------------------------------------------------------------------------
(* BinaryReader                                                            *)

\* BinaryReader(buffer, offset): the cursor starts at offset.
Reader(b, offset, pad) == [buf |-> b, cur |-> offset, pad |-> pad]

Threw(r) == [ok |-> FALSE, val |-> 0, rd |-> r]
Got(v, r) == [ok |-> TRUE, val |-> v, rd |-> r]

\* ReadValue<T>: checks that sizeof(T) bytes are left, then returns
\* static_cast<T>(*current), the one byte at the cursor, and moves the
\* cursor by sizeof(T).
ReadValue(r, n) ==
    IF r.cur + n > Len(r.buf) THEN Threw(r)
    ELSE Got(r.buf[r.cur + 1], [r EXCEPT !.cur = @ + n])

\* ReadData(size): empty for size <= 0; else size bytes, the cursor moved
\* by the padded size.
ReadData(r, size) ==
    IF size <= 0 THEN Got(<<>>, r)
    ELSE IF r.cur + Padded(r.pad, size) > Len(r.buf) THEN Threw(r)
    ELSE Got(SubSeq(r.buf, r.cur + 1, r.cur + size),
             [r EXCEPT !.cur = @ + Padded(r.pad, size)])

\* ReadSizedData: ReadInt32, then ReadData of that size.
ReadSizedData(r) ==
    LET s == ReadValue(r, 4) IN
    IF ~s.ok THEN s ELSE ReadData(s.rd, s.val)

\* Reads of fixed widths ws in order: their values, or the throw.
RECURSIVE ReadValues(_, _)
ReadValues(r, ws) ==
    IF ws = <<>> THEN Got(<<>>, r)
    ELSE LET h == ReadValue(r, Head(ws))
             t == ReadValues(h.rd, Tail(ws))
         IN IF ~h.ok THEN h ELSE IF ~t.ok THEN t ELSE Got(<<h.val>> \o t.val, t.rd)

-----------------------------------------------------------------------------
(* Message                                                                 *)

MsgTransaction == 1
MsgTransactionReply == 2
MsgStatus == 12

Msg(type, destination, cookie, data) ==
    [type |-> type, destination |-> destination, cookie |-> cookie, data |-> data]

\* Message::Pack: a padded writer.
Pack(m) ==
    WriteSizedData(WriteValue(WriteValue(WriteValue(Writer(TRUE), m.type, 4),
                                          m.destination, 8), m.cookie, 8),
                   m.data).buf

\* Message::Unpack(data, offset): the envelope and reader.GetBytesRead(),
\* the cursor's distance from the start of the buffer.
Unpack(b, offset) ==
    LET hdr == ReadValues(Reader(b, offset, TRUE), <<4, 8, 8>>)
        d == ReadSizedData(hdr.rd)
    IN IF ~hdr.ok \/ ~d.ok THEN [ok |-> FALSE]
       ELSE [ok |-> TRUE, msg |-> Msg(hdr.val[1], hdr.val[2], hdr.val[3], d.val),
             used |-> d.rd.cur]

-----------------------------------------------------------------------------
(* TransactionData                                                         *)

FlagOneWay == 1
FlagHasStatus == 8
FlagAcceptFds == 16

\* A transaction payload: offsets are the object offsets (binder_size_t).
TD(binder, cookie, code, oneWay, hasStatus, data, offsets) ==
    [binder |-> binder, cookie |-> cookie, code |-> code, oneWay |-> oneWay,
     hasStatus |-> hasStatus, data |-> data, offsets |-> offsets]

\* WritableTransactionData, what ParcelTransactionDataWriter::Finalize
\* returns: the fields as set, and HasStatus() false.
WritableTD(binder, cookie, code, oneWay, data, offsets) ==
    TD(binder, cookie, code, oneWay, FALSE, data, offsets)

\* TransactionStatus(status): binder, cookie and code 0, not one-way,
\* HasStatus() true, the 4 bytes of status_ as data, no objects.
TransactionStatus(st) == TD(0, 0, 0, FALSE, TRUE, LE(st, 4), <<>>)

RECURSIVE OffsetBytes(_)
OffsetBytes(os) == IF os = <<>> THEN <<>> ELSE LE(Head(os), 8) \o OffsetBytes(Tail(os))

\* TransactionData::Pack: an unpadded writer; AcceptFds is always set.
TDPack(td) ==
    LET flags == FlagAcceptFds + (IF td.oneWay THEN FlagOneWay ELSE 0)
                               + (IF td.hasStatus THEN FlagHasStatus ELSE 0)
        w == WriteValue(WriteValue(WriteValue(WriteValue(Writer(FALSE), td.binder, 8),
                                              td.cookie, 8), td.code, 4), flags, 4)
    IN WriteSizedData(WriteSizedData(w, td.data), OffsetBytes(td.offsets)).buf

\* The transaction written into a message: writer.WriteData(td.Pack())
\* on the message's (padded) writer.
TDMessageData(td) == WriteData(Writer(TRUE), TDPack(td)).buf

\* TransactionDataFromMessage: an unpadded reader over the message data;
\* the offsets are read in place as binder_size_t (GetObjectOffsets).
TDFromMessage(d) ==
    LET hdr == ReadValues(Reader(d, 0, FALSE), <<8, 8, 4, 4>>)
        data == ReadSizedData(hdr.rd)
        objs == ReadSizedData(data.rd)
        n == objs.val
    IN IF ~hdr.ok \/ ~data.ok \/ ~objs.ok THEN [ok |-> FALSE]
       ELSE [ok |-> TRUE,
             td |-> TD(hdr.val[1], hdr.val[2], hdr.val[3],
                       (hdr.val[4] & FlagOneWay) # 0, (hdr.val[4] & FlagHasStatus) # 0,
                       data.val,
                       [i \in 1..(Len(n) \div 8) |-> FromLE(SubSeq(n, 8 * i - 7, 8 * i))])]

\* TransactionDataFromMessage::GetStatus: the first 4 bytes of the data
\* read in place as an int32_t (two's complement).
GetStatus(td) ==
    LET b == SubSeq(td.data, 1, 4) IN
    IF b[4] < 128 THEN FromLE(b) ELSE -(FromLE([i \in 1..4 |-> 255 - b[i]]) + 1)

-----------------------------------------------------------------------------
(* SocketMessenger framing                                                 *)

\* WriteNext: header bytes (size >> 8) & 0xff and size & 0xff.
FrameHeader(size) == <<(size \div 256) % 256, size % 256>>

\* ReadMessageAsync: body_size = (header_[0] << 8) + header_[1].
FrameBodySize(h) == h[1] * 256 + h[2]

-----------------------------------------------------------------------------
(* The read path of one frame                                              *)

\* The bytes of a frame carrying envelopes ms, in order.
RECURSIVE FrameOf(_)
FrameOf(ms) == IF ms = <<>> THEN <<>> ELSE Pack(Head(ms)) \o FrameOf(Tail(ms))

\* The envelope as the peer meant it (Envelope records may carry ghost
\* fields, such as the transaction payload a message was built from).
Wire(e) == Msg(e.type, e.destination, e.cookie, e.data)

CodecInit ==
    /\ sent = <<>>
    /\ buf = <<>>
    /\ consumed = 0
    /\ parsed = <<>>
    /\ pc = "idle"

\* A frame arrives: the peer wrote the header and a body holding the
\* envelopes it packed, possibly cut short; ReadMessageAsync reads the
\* header and then body_size bytes into body_.
ReceiveFrame ==
    /\ pc = "idle"
    /\ \E n \in 1..MaxFrameMsgs : \E ms \in [1..n -> Envelope] :
         LET whole == FrameOf([i \in 1..n |-> Wire(ms[i])]) IN
         \E cut \in (IF CutFrames THEN 1..Len(whole) ELSE {Len(whole)}) :
            LET body == SubSeq(whole, 1, cut) IN
            /\ sent' = ms
            /\ buf' = SubSeq(body, 1, FrameBodySize(FrameHeader(Len(body))))
    /\ consumed' = 0
    /\ parsed' = <<>>
    /\ pc' = "parse"

\* One parser.Next(): null once consumed reaches the frame's size (the
\* loop ends and the read is re-armed); otherwise Unpack at consumed,
\* whose out_of_range escapes the handler; a message is dispatched and
\* consumed grows by what Unpack returned.
ParseNext ==
    /\ pc = "parse"
    /\ IF consumed >= Len(buf)
       THEN /\ pc' = "done"
            /\ UNCHANGED <<consumed, parsed>>
       ELSE LET u == Unpack(buf, consumed) IN
            IF ~u.ok
            THEN /\ pc' = "threw"
                 /\ UNCHANGED <<consumed, parsed>>
            ELSE IF u.used <= 0
            THEN /\ pc' = "done"
                 /\ UNCHANGED <<consumed, parsed>>
            ELSE /\ parsed' = Append(parsed, u.msg)
                 /\ consumed' = consumed + u.used
                 /\ UNCHANGED pc
    /\ UNCHANGED <<sent, buf>>

CodecNext == ReceiveFrame \/ ParseNext

CodecSpec == CodecInit /\ [][CodecNext]_vars

-----------------------------------------------------------------------------
(* Properties                                                              *)

CodecTypeOK ==
    /\ pc \in {"idle", "parse", "done", "threw"}
    /\ \A i \in DOMAIN buf : buf[i] \in Byte
    /\ consumed \in Nat

\* A whole frame never makes the parser throw, and it parses into exactly the envelopes that were packed into
\* it, in order: Pack and Unpack agree on field widths and padding and the
\* parser's consumed bookkeeping on where the next envelope starts, so
\* unpack(pack(m)) == m for every envelope of every frame.  The code
\* breaks it for a field of 256 or more (ReadValue reads one byte), so
\* no run checks it; see the hazard at binary_reader.cpp:83.
FrameParsesToItsMessages ==
    ~CutFrames =>
        /\ pc # "threw"
        /\ pc = "done" => parsed = [i \in DOMAIN sent |-> Wire(sent[i])]

\* A transaction payload survives the trip: what TransactionDataFromMessage
\* reads from a parsed Transaction or TransactionReply is the
\* TransactionData the sender packed (binder, cookie, code, flags, data
\* and object offsets), and the GetStatus of a TransactionStatus reply is
\* the (negative) status it was made with.  Like FrameParsesToItsMessages
\* it fails for values of 256 or more and no run checks it.
TransactionDataRoundTrip ==
    \A i \in DOMAIN parsed :
        sent[i].type \in {MsgTransaction, MsgTransactionReply} =>
            LET r == TDFromMessage(parsed[i].data) IN
            /\ r.ok
            /\ r.td = sent[i].td
            /\ r.td.hasStatus => GetStatus(r.td) = sent[i].status

=============================================================================
