------------------------------- MODULE Parcel -------------------------------
(***************************************************************************)
(* The parcel layer binderd's service manager talks in, on top of the     *)
(* byte encoding of MessageCodec:                                         *)
(*                                                                         *)
(*  - ParcelTransactionDataWriter (parcel_transaction_data_writer.cpp):   *)
(*    Int32, the interface token, String16 and flat_binder_object         *)
(*    entries written into a padded data buffer, each object's offset      *)
(*    appended to the object offsets, Finalize into a                      *)
(*    WritableTransactionData;                                             *)
(*  - ParcelTransactionDataReader (parcel_transaction_data_reader.cpp):   *)
(*    the same entries read back with a padded BinaryReader;              *)
(*  - BinaryWriter::WriteString(u16string) and BinaryReader::ReadString16 *)
(*    (common/binary_writer.cpp, common/binary_reader.cpp);               *)
(*  - the requests ServiceManagerProxy writes and ServiceManagerService   *)
(*    reads (AddService, GetService, ListServices), and the replies the   *)
(*    service writes and the proxy reads.                                 *)
(*                                                                         *)
(* A string is a sequence of UTF-16 code units.  For the ASCII names the  *)
(* programs use, utils::to_string16 and to_string8 map each character to  *)
(* the code unit of the same value.  An object as written or read is a    *)
(* record: [kind |-> "binder", cookie |-> c] for a LocalObject (the       *)
(* cookie the ObjectPool knows it by) or [kind |-> "handle", handle |-> h] *)
(* for a RemoteObject; a flat object of any other type reads as Null.     *)
(***************************************************************************)
EXTENDS MessageCodec

LOCAL SX == INSTANCE SequencesExt

CONSTANT kInterfaceName   \* ServiceManagerBase::kInterfaceName, as code units

-----------------------------------------------------------------------------
(* Constants of binder_api.h, constants.h and service_manager_base.h       *)

BINDER_TYPE_BINDER == 1935813253          \* B_PACK_CHARS('s','b','*',0x85)
BINDER_TYPE_HANDLE == 1936206469          \* B_PACK_CHARS('s','h','*',0x85)
FLAT_BINDER_FLAG_ACCEPTS_FDS == 256
kStrictModePenaltyGather == 4194304       \* 0x40 << 16

GetServiceTransaction == 1
CheckServiceTransaction == 2
AddServiceTransaction == 3
ListServicesTransaction == 4
AllowIsolated == 1

Null == [kind |-> "null"]

-----------------------------------------------------------------------------
(* ParcelTransactionDataWriter                                             *)

\* data_ behind a padded BinaryWriter, and objects_ as the list of
\* offsets objects_writer_ wrote.
ParcelWriter == [data |-> Writer(TRUE), offsets |-> <<>>]

WriteInt32(pw, v) == [pw EXCEPT !.data = WriteValue(@, v, 4)]

\* BinaryWriter::WriteString(u16string): the size as an int32; for a
\* non-empty string, the code units and the terminating NUL, two bytes
\* each, as padded data.
U16Bytes(s) == SX!FlattenSeq([i \in DOMAIN s |-> LE(s[i], 2)])

WriteString16(pw, s) ==
    LET w == WriteValue(pw.data, Len(s), 4) IN
    [pw EXCEPT !.data = IF Len(s) = 0 THEN w ELSE WriteData(w, U16Bytes(s \o <<0>>))]

\* WriteInterfaceToken: the strict mode policy with PENALTY_GATHER, then
\* the interface name.
WriteInterfaceToken(pw, name, policy) ==
    WriteString16(WriteInt32(pw, kStrictModePenaltyGather | policy), name)

\* The 24 bytes of the zero-initialised flat_binder_object WriteObject
\* fills: [type:u32][flags:u32][binder or handle:u64][cookie:u64].
FlatObject(obj) ==
    LET flags == LE(127 + FLAT_BINDER_FLAG_ACCEPTS_FDS, 4) IN
    IF obj.kind = "binder"
    THEN LE(BINDER_TYPE_BINDER, 4) \o flags \o LE(0, 8) \o LE(obj.cookie, 8)
    ELSE LE(BINDER_TYPE_HANDLE, 4) \o flags \o LE(obj.handle, 8) \o LE(0, 8)

\* WriteObject: the current data size is appended to the object offsets,
\* then the flat object is written as data.  (The adoption of a local
\* object into the client's ObjectPool is the pool's state, not the
\* parcel's.)
WriteObject(pw, obj) ==
    [data |-> WriteData(pw.data, FlatObject(obj)),
     offsets |-> Append(pw.offsets, Len(pw.data.buf))]

\* Finalize: a WritableTransactionData with the code, the data and the
\* object offsets; binder, cookie and flags keep their defaults.
Finalize(pw, code) == WritableTD(0, 0, code, FALSE, pw.data.buf, pw.offsets)

-----------------------------------------------------------------------------
(* ParcelTransactionDataReader                                             *)

\* A padded BinaryReader over the transaction's data.
ParcelReader(td) == Reader(td.data, 0, TRUE)

\* Seeded-bug variant of ReadString16: the terminating NUL is not counted
\* in the bytes the string takes.
ReadString16NoTerminator(r) ==
    LET s == ReadValue(r, 4)
        padded == Padded(r.pad, s.val * 2)
        at == s.rd.cur
    IN IF ~s.ok THEN s
       ELSE IF at + padded > Len(r.buf) THEN Threw(s.rd)
       ELSE Got([i \in 1..s.val |-> FromLE(SubSeq(r.buf, at + 2 * i - 1, at + 2 * i))],
                [s.rd EXCEPT !.cur = at + padded])

\* BinaryReader::ReadString16: size = ReadInt32(); (size + 1) * 2 bytes
\* are checked against the end with their padded size and copied; the
\* string is the first size code units; the cursor moves by the padded
\* size.
ReadString16(r) ==
    LET s == ReadValue(r, 4)
        dataSize == (s.val + 1) * 2
        padded == Padded(r.pad, dataSize)
        at == s.rd.cur
    IN IF ~s.ok THEN s
       ELSE IF at + padded > Len(r.buf) THEN Threw(s.rd)
       ELSE Got([i \in 1..s.val |-> FromLE(SubSeq(r.buf, at + 2 * i - 1, at + 2 * i))],
                [s.rd EXCEPT !.cur = at + padded])

\* EnforceInterface: ReadInt32 (the policy), then ReadString16; the value
\* is whether the name read is the one expected.
EnforceInterface(r, name) ==
    LET p == ReadValue(r, 4)
        s == ReadString16(p.rd)
    IN IF ~p.ok THEN p ELSE IF ~s.ok THEN s ELSE Got(s.val = name, s.rd)

\* ReadObject: ReadData(sizeof(flat_binder_object)), then a RemoteObject
\* for a handle, the pooled object for a binder's cookie, Null otherwise.
ReadObject(r) ==
    LET d == ReadData(r, 24)
        f == d.val
        type == FromLE(SubSeq(f, 1, 4))
    IN IF ~d.ok THEN d
       ELSE Got(IF type = BINDER_TYPE_HANDLE
                THEN [kind |-> "handle", handle |-> FromLE(SubSeq(f, 9, 12))]
                ELSE IF type = BINDER_TYPE_BINDER
                THEN [kind |-> "binder", cookie |-> FromLE(SubSeq(f, 17, 24))]
                ELSE Null, d.rd)

-----------------------------------------------------------------------------
(* ServiceManagerProxy requests and ServiceManagerService replies          *)

\* ServiceManagerProxy::AddService: token, name, object, and 1 if the
\* options ask for AllowIsolated, else 0.
AddServiceRequest(name, obj, options) ==
    Finalize(WriteInt32(WriteObject(WriteString16(
                 WriteInterfaceToken(ParcelWriter, kInterfaceName, 0), name), obj),
                 IF (options & AllowIsolated) # 0 THEN 1 ELSE 0),
             AddServiceTransaction)

\* ServiceManagerProxy::GetService: token and name.
GetServiceRequest(name) ==
    Finalize(WriteString16(WriteInterfaceToken(ParcelWriter, kInterfaceName, 0), name),
             GetServiceTransaction)

\* One request of the ServiceManagerProxy::ListServices loop: token and
\* the index n.
ListServicesRequest(n) ==
    Finalize(WriteInt32(WriteInterfaceToken(ParcelWriter, kInterfaceName, 0), n),
             ListServicesTransaction)

\* The replies OnTransact writes on success: Int32(OK) for AddService,
\* the object for GetService, the n-th name for ListServices.
AddServiceReply == Finalize(WriteInt32(ParcelWriter, 0), 0)
GetServiceReply(obj) == Finalize(WriteObject(ParcelWriter, obj), 0)
ListServicesReply(name) == Finalize(WriteString16(ParcelWriter, name), 0)

\* What ServiceManagerService::OnTransact reads from a request before it
\* calls the handler: per code, EnforceInterface (its result unused),
\* then the name, object and allow_isolated of AddService, the name of
\* Get/CheckService, the index of ListServices.  ok is FALSE when a read
\* throws out_of_range; an unknown code reads nothing.
OnTransactRead(td) ==
    LET t == EnforceInterface(ParcelReader(td), kInterfaceName) IN
    IF ~t.ok THEN [ok |-> FALSE]
    ELSE CASE td.code = AddServiceTransaction ->
                LET nm == ReadString16(t.rd)
                    ob == ReadObject(nm.rd)
                    al == ReadValue(ob.rd, 4)
                IN IF ~nm.ok \/ ~ob.ok \/ ~al.ok THEN [ok |-> FALSE]
                   ELSE [ok |-> TRUE, name |-> nm.val, obj |-> ob.val, allow |-> al.val]
           [] td.code \in {GetServiceTransaction, CheckServiceTransaction} ->
                LET nm == ReadString16(t.rd) IN
                IF ~nm.ok THEN [ok |-> FALSE] ELSE [ok |-> TRUE, name |-> nm.val]
           [] td.code = ListServicesTransaction ->
                LET n == ReadValue(t.rd, 4) IN
                IF ~n.ok THEN [ok |-> FALSE] ELSE [ok |-> TRUE, index |-> n.val]
           [] OTHER -> [ok |-> TRUE]

\* What the proxy reads from a successful reply: ReadObject for
\* GetService, ReadString16 for ListServices (AddService reads nothing).
GetServiceReplyRead(td) == ReadObject(ParcelReader(td))
ListServicesReplyRead(td) == ReadString16(ParcelReader(td))

-----------------------------------------------------------------------------
(* Properties                                                              *)

\* The service manager's parcels survive the wire.  Carried as the data
\* of a Transaction or TransactionReply through Message::Pack, a frame
\* and TransactionDataFromMessage, a request ServiceManagerProxy wrote
\* reads back in ServiceManagerService::OnTransact as the same name,
\* object, allow_isolated flag or index, and a reply the service wrote
\* reads back in the proxy as the same object or name, with no read
\* throwing: WriteString16 and ReadString16 agree on the terminator and
\* the padding, WriteObject and ReadObject on the flat_binder_object.
ServiceManagerParcelsRoundTrip ==
    \A i \in DOMAIN parsed :
        "call" \in DOMAIN sent[i] =>
            LET r == TDFromMessage(parsed[i].data)
                c == sent[i].call
            IN /\ r.ok
               /\ CASE c.op = "add" ->
                         OnTransactRead(r.td) =
                            [ok |-> TRUE, name |-> c.name, obj |-> c.obj, allow |-> c.allow]
                    [] c.op = "get" -> OnTransactRead(r.td) = [ok |-> TRUE, name |-> c.name]
                    [] c.op = "list" -> OnTransactRead(r.td) = [ok |-> TRUE, index |-> c.index]
                    [] c.op = "getReply" -> GetServiceReplyRead(r.td).ok
                                           /\ GetServiceReplyRead(r.td).val = c.obj
                    [] c.op = "listReply" -> ListServicesReplyRead(r.td).ok
                                            /\ ListServicesReplyRead(r.td).val = c.name
                    [] OTHER -> TRUE

====
