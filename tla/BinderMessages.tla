--------------------------- MODULE BinderMessages ---------------------------
(***************************************************************************)
(* The wire vocabulary shared by the broker (ServerSession) and the       *)
(* endpoints (ClientImpl): message types, status codes, flat object       *)
(* descriptors and the message envelope of src/binderd/message.h.         *)
(*                                                                         *)
(* Data is abstracted to what the properties distinguish: a transaction   *)
(* payload keeps the target object cookie, at most one embedded flat      *)
(* object and the status of a status-only reply; code and data bytes are  *)
(* dropped.  Every message carries one auxiliary (ghost) field, re, that  *)
(* the code does not have: the call <<client, cookie>> the message        *)
(* answers, or NoCall.  It is copied wherever the code echoes a cookie    *)
(* back, and is only read by properties.                                  *)
(***************************************************************************)
EXTENDS Integers, Sequences

CONSTANTS Client,    \* the connected endpoints, one broker session each
          NoClient   \* model value: a null ServerSessionPtr

\* Message::Type (message.h).  Version, LogEntry and Unknown are only ever
\* handled by the broker's default branch.
MsgType == {"Transaction", "TransactionReply", "Acquire", "Release",
            "RequestDeathNotification", "ClearDeathNotification",
            "DeadBinder", "SetContextMgr", "SetMonitor", "Status", "Version"}

\* The Status values (status.h) the modelled paths can produce.
StatusCode == {"OK", "AlreadyExists", "NameNotFound", "DeadObject",
               "BadValue", "InvalidOperation", "UnknownTransaction"}

\* flat_binder_object types a descriptor can carry (binder_api.h); FD
\* descriptors are passed through untouched everywhere and are left out.
ObjType == {"Binder", "Handle", "WeakBinder", "None"}

\* A real in-process address, relative to the process that owns it: an
\* endpoint's local object lives at LocalAddress, the RemoteObject it holds
\* for handle h at ProxyAddress(h).  Opaque ids (ObjectTranslator) start at
\* 1 and broker cookies are ids, so a negative cookie is a real address; it
\* must never appear on the wire.
LocalAddress == -1
ProxyAddress(h) == -2 - h

\* kContextManagerHandle (constants.h)
ContextManagerHandle == 0

NoCall == <<NoClient, 0>>

\* A flat object: for Binder/WeakBinder the cookie names the object in its
\* owner's address space; for Handle the broker handle.  owner is ghost.
Obj(type, cookie, handle, owner) ==
    [type |-> type, cookie |-> cookie, handle |-> handle, owner |-> owner]
NoObj == Obj("None", 0, 0, NoClient)

\* TransactionData: target object cookie, embedded object, status (a
\* TransactionStatus has HasStatus set, "none" otherwise).
TrData(cookie, obj, status) == [cookie |-> cookie, obj |-> obj, status |-> status]
NoTr == TrData(0, NoObj, "none")

\* Message envelope (message.cpp Implementation): type, cookie,
\* destination and a payload that is, depending on type, a TransactionData,
\* a handle, a handle and an object id, or a status.
Msg(type, cookie, dest, handle, id, status, tr, re) ==
    [type |-> type, cookie |-> cookie, dest |-> dest, handle |-> handle,
     id |-> id, status |-> status, tr |-> tr, re |-> re]

StatusMsg(cookie, status, re) == Msg("Status", cookie, 0, 0, 0, status, NoTr, re)
TxMsg(type, cookie, dest, tr, re) == Msg(type, cookie, dest, 0, 0, "none", tr, re)
RefMsg(type, cookie, handle) == Msg(type, cookie, 0, handle, 0, "none", NoTr, NoCall)
DeathMsg(type, cookie, handle, id) == Msg(type, cookie, 0, handle, id, "none", NoTr, NoCall)
PlainMsg(type, cookie) == Msg(type, cookie, 0, 0, 0, "none", NoTr, NoCall)

IsReply(m) == m.type \in {"Status", "TransactionReply"}
=============================================================================
