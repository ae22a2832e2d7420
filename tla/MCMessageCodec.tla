--------------------------- MODULE MCMessageCodec ---------------------------
(***************************************************************************)
(* The envelopes a peer sends: Transactions whose payload is a packed     *)
(* TransactionData (ClientImpl::Transact, ServerSession::PostTransaction) *)
(* and Status replies (SendStatus), and TransactionReplies carrying a    *)
(* TransactionStatus (HandleContextObjectMessage, ProcessAndExecuteCommand *)
(* on a failed Transact), over small sets of field values; and the       *)
(* service manager's request and reply parcels (Parcel).                  *)
(***************************************************************************)
EXTENDS Parcel

CONSTANTS FieldValue,   \* destinations, cookies and binders
          DataByte,     \* bytes of a transaction's data
          MaxData,      \* bytes of data per transaction
          OffsetValue,  \* object offsets a transaction may carry
          ObjectCookie, \* cookies of local objects written as binders
          ObjectHandle  \* handles of remote objects written as handles

\* Status codes a SendStatus may carry: OK and BadValue (-EINVAL).
MCStatus == {0, -22}

\* ServiceManagerBase::kInterfaceName, "android.os.IServiceManager": 26
\* code units.  Only its length changes the layout of what follows it.
MCInterfaceName == [i \in 1..26 |-> 97]

\* Service names: "Foo", the name cmds/client.cpp registers and looks
\* up, and a two-character one, so that both parities of (size + 1) * 2
\* against the 4-byte padding occur.
MCServiceName == {<<70, 111, 111>>, <<83, 77>>}

MCObject ==
    {[kind |-> "binder", cookie |-> c] : c \in ObjectCookie}
    \cup {[kind |-> "handle", handle |-> h] : h \in ObjectHandle}

\* A service manager parcel as the transaction payload of a message
\* (destination 0, the context manager's handle, and cookie 0).
ParcelEnvelope(type, td, call) ==
    [type |-> type, destination |-> 0, cookie |-> 0,
     data |-> TDMessageData(td), td |-> td, call |-> call]

MCParcelEnvelope ==
    {ParcelEnvelope(MsgTransaction, AddServiceRequest(nm, ob, opt),
                    [op |-> "add", name |-> nm, obj |-> ob, allow |-> opt]) :
        nm \in MCServiceName, ob \in MCObject, opt \in {0, AllowIsolated}}
    \cup {ParcelEnvelope(MsgTransaction, GetServiceRequest(nm), [op |-> "get", name |-> nm]) :
            nm \in MCServiceName}
    \cup {ParcelEnvelope(MsgTransaction, ListServicesRequest(n), [op |-> "list", index |-> n]) :
            n \in 0..1}
    \cup {ParcelEnvelope(MsgTransactionReply, AddServiceReply, [op |-> "addReply"])}
    \cup {ParcelEnvelope(MsgTransactionReply, GetServiceReply(ob), [op |-> "getReply", obj |-> ob]) :
            ob \in MCObject}
    \cup {ParcelEnvelope(MsgTransactionReply, ListServicesReply(nm),
                         [op |-> "listReply", name |-> nm]) :
            nm \in MCServiceName}

MCData == UNION {[1..n -> DataByte] : n \in 0..MaxData}

MCTransactionData ==
    {WritableTD(b, 1, 1, ow, d, os) :
        b \in FieldValue, ow \in BOOLEAN, d \in MCData,
        os \in {<<>>} \cup {<<o>> : o \in OffsetValue}}

MCEnvelope ==
    {[type |-> MsgTransaction, destination |-> dst, cookie |-> ck,
      data |-> TDMessageData(td), td |-> td] :
        dst \in FieldValue, ck \in FieldValue, td \in MCTransactionData}
    \cup
    {[type |-> MsgTransactionReply, destination |-> 0, cookie |-> ck,
      data |-> TDMessageData(TransactionStatus(st)), td |-> TransactionStatus(st),
      status |-> st] :
        ck \in FieldValue, st \in MCStatus}
    \cup
    {[type |-> MsgStatus, destination |-> 0, cookie |-> ck,
      data |-> LE(st, 4)] :
        ck \in FieldValue, st \in MCStatus}
    \cup
    MCParcelEnvelope

=============================================================================
