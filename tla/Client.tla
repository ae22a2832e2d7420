------------------------------- MODULE Client -------------------------------
(***************************************************************************)
(* An endpoint: ClientImpl (client_impl.cpp) with the RemoteObject proxies *)
(* its application holds (remote_object.cpp).  Four kinds of thread act   *)
(* on one client:                                                          *)
(*   - the application thread, which makes blocking calls (Transact,      *)
(*     AddReference, LinkToDeath, ...): StartCall, QueueMessage, then a    *)
(*     wait on the call's promise; one call at a time;                     *)
(*   - the read path OnNewMessage, which demultiplexes every inbound       *)
(*     message by cookie: resolve a pending call, post the message to the  *)
(*     context object on the strand, or queue it for the worker pool;      *)
(*   - the strand, which runs FinishCall and HandleContextObjectMessage in *)
(*     the order they were posted;                                         *)
(*   - the worker pool, whose ProcessAndExecuteCommand handles queued      *)
(*     transactions and DeadBinder notifications.                          *)
(* Each client has one local object, at LocalAddress, and at most one    *)
(* RemoteObject per handle.                                                *)
(***************************************************************************)
EXTENDS BinderMessages, Integers, Sequences, SequencesExt, FiniteSets, TLC

CONSTANTS MaxHandle   \* handles the application may name: 0..MaxHandle

VARIABLES
    up, down, open,   \* the connections (shared with the broker)
    shouldExit,       \* ClientImpl::should_exit_
    reading,          \* an async read is outstanding (ReadNextMessage re-armed)
    nextCookie,       \* ClientImpl::next_cookie_
    pending,          \* ClientImpl::pending_calls_: cookie -> [type, oneWay, done]
    strand,           \* handlers posted to ClientImpl::strand_, in order
    inMsgs,           \* ClientImpl::in_messages_
    ctxObj,           \* ClientImpl::context_obj_ is set
    xlate,            \* ObjectTranslator::objects_: id -> address
    nextObjectId,     \* ObjectTranslator::next_object_id_
    deadRecipients,   \* ClientImpl::dead_recipients_: id -> list of handles
    proxy,            \* the RemoteObject for a handle: "none", "live", "released"
    obitSent,         \* RemoteObject::obituaries_sent_
    linked,           \* size of RemoteObject::obituaries_
    notified,         \* recipients that got OnObjectDied
    app,              \* the application thread
    known             \* handles the application has been given

clientVars == <<shouldExit, reading, nextCookie, pending, strand, inMsgs, ctxObj,
                xlate, nextObjectId, deadRecipients, proxy, obitSent, linked,
                notified, app, known>>

AppHandle == 0..MaxHandle

NoMsg == Msg("Unknown", 0, 0, 0, 0, "none", NoTr, NoCall)

Idle == [op |-> "idle", cookie |-> 0, handle |-> 0, oneWay |-> FALSE, value |-> NoMsg]

\* The blocking calls the application thread makes.
CallOp == {"Transact", "Acquire", "Release", "Link", "Unlink",
           "BecomeContextManager", "BecomeMonitor"}
AppOp == CallOp \cup {"idle", "SetContextObject"}

\* ObjectTranslator::next_object_id_{1}: ids start after Invalid.
FirstObjectId == 1

ClientInit ==
    /\ shouldExit = [c \in Client |-> FALSE]
    /\ reading = [c \in Client |-> TRUE]
    /\ nextCookie = [c \in Client |-> 0]
    /\ pending = [c \in Client |-> <<>>]
    /\ strand = [c \in Client |-> <<>>]
    /\ inMsgs = [c \in Client |-> <<>>]
    /\ ctxObj = [c \in Client |-> FALSE]
    /\ xlate = [c \in Client |-> <<>>]
    /\ nextObjectId = [c \in Client |-> FirstObjectId]
    /\ deadRecipients = [c \in Client |-> <<>>]
    /\ proxy = [c \in Client |-> [h \in AppHandle |-> "none"]]
    /\ obitSent = [c \in Client |-> [h \in AppHandle |-> FALSE]]
    /\ linked = [c \in Client |-> [h \in AppHandle |-> 0]]
    /\ notified = [c \in Client |-> [h \in AppHandle |-> 0]]
    /\ app = [c \in Client |-> Idle]
    /\ known = [c \in Client |-> {}]

-----------------------------------------------------------------------------
(* ObjectTranslator                                                        *)

\* TranslateObject: the id of address a, or Invalid (0).
IdOf(c, a) ==
    IF \E id \in DOMAIN xlate[c] : xlate[c][id] = a
    THEN CHOOSE id \in DOMAIN xlate[c] : xlate[c][id] = a
    ELSE 0

\* TranslateOrAddObject, as the new table, next id and the id.
TranslateOrAdd(c, a) ==
    IF IdOf(c, a) # 0
    THEN [table |-> xlate[c], next |-> nextObjectId[c], id |-> IdOf(c, a)]
    ELSE [table |-> xlate[c] @@ (nextObjectId[c] :> a),
          next |-> nextObjectId[c] + 1, id |-> nextObjectId[c]]

\* ProcessTransaction(Out) on a payload with object o: a Binder's real
\* address becomes its opaque id; every other kind passes.
OutTranslate(c, o) ==
    IF o.type = "Binder"
    THEN LET r == TranslateOrAdd(c, o.cookie)
         IN [r EXCEPT !.id = [o EXCEPT !.cookie = r.id]]
    ELSE [table |-> xlate[c], next |-> nextObjectId[c], id |-> o]

\* The objects a handler of client c may put into a request or a reply:
\* nothing, its local object (by its real address), or a handle it holds.
Writable(c) ==
    {NoObj, Obj("Binder", LocalAddress, 0, c)} \cup {Obj("Handle", 0, h, NoClient) : h \in known[c]}

\* The handles an incoming payload hands to the application (a Handle
\* descriptor becomes a RemoteObject when the parcel is read).
Learned(c, o) == IF o.type = "Handle" /\ o.handle \in AppHandle
                 THEN known[c] \cup {o.handle} ELSE known[c]

-----------------------------------------------------------------------------
(* The application thread: StartCall + QueueMessage, then wait.            *)

Ready(c) ==
    /\ ~shouldExit[c]
    /\ app[c].op = "idle"

\* Register the pending call for cookie k and write m.
Call(c, m, k, oneWay) ==
    /\ pending' = [pending EXCEPT ![c] = @ @@ (k :> [type |-> m.type, oneWay |-> oneWay,
                                                      done |-> FALSE])]
    /\ up' = [up EXCEPT ![c] = Append(@, m)]

\* Transact(handle, request, reply): the message takes one cookie from
\* NewCookie and StartCall takes another; the request is Out-translated.
StartTransact(c) ==
    /\ Ready(c)
    /\ \E h \in AppHandle, oneWay \in BOOLEAN, o \in Writable(c) :
         LET k == nextCookie[c] + 1
             r == OutTranslate(c, o)
         IN /\ Call(c, TxMsg("Transaction", k, h, TrData(0, r.id, "none"), <<c, k>>), k, oneWay)
            /\ xlate' = [xlate EXCEPT ![c] = r.table]
            /\ nextObjectId' = [nextObjectId EXCEPT ![c] = r.next]
            /\ nextCookie' = [nextCookie EXCEPT ![c] = @ + 2]
            /\ app' = [app EXCEPT ![c] = [Idle EXCEPT !.op = "Transact", !.cookie = k,
                                                      !.handle = h, !.oneWay = oneWay]]
    /\ UNCHANGED <<down, open, shouldExit, reading, strand, inMsgs, ctxObj,
                   deadRecipients, proxy, obitSent, linked, notified, known>>

\* RemoteObject::Create and ~RemoteObject: the constructor's
\* AddReference brings the proxy of handle h to life, the destructor's
\* release closure (ReleaseReference) releases it.
ProxyAfter(c, op, h) ==
    CASE op = "Acquire" -> [proxy EXCEPT ![c][h] = "live"]
      [] op = "Release" -> [proxy EXCEPT ![c][h] = "released"]
      [] OTHER -> proxy

\* A call carried by a message of its own: BecomeContextManager, BecomeMonitor,
\* AddReference (RemoteObject constructor) and ReleaseReference (its
\* destructor, through the release closure).
StartSimpleCall(c, op) ==
    /\ Ready(c)
    /\ \E h \in AppHandle :
         LET k == nextCookie[c]
             m == CASE op = "BecomeContextManager" -> PlainMsg("SetContextMgr", k)
                    [] op = "BecomeMonitor" -> PlainMsg("SetMonitor", k)
                    [] OTHER -> RefMsg(op, k, h)
         IN /\ op = "Acquire" => proxy[c][h] = "none" /\ h \in known[c] \cup {0}
            /\ op = "Release" => proxy[c][h] = "live"
            /\ op \in {"BecomeContextManager", "BecomeMonitor"} => h = 0
            /\ Call(c, m, k, FALSE)
            /\ nextCookie' = [nextCookie EXCEPT ![c] = @ + 1]
            /\ proxy' = ProxyAfter(c, op, h)
            /\ app' = [app EXCEPT ![c] = [Idle EXCEPT !.op = op, !.cookie = k, !.handle = h]]
    /\ UNCHANGED <<down, open, shouldExit, reading, strand, inMsgs, ctxObj, xlate,
                   nextObjectId, deadRecipients, obitSent, linked, notified, known>>

\* Seeded-bug variant of ProxyId: TranslateObject instead of
\* TranslateOrAddObject, so a proxy never sent before gets Invalid (0).
ProxyIdLookupOnly(c, h) ==
    [table |-> xlate[c], next |-> nextObjectId[c], id |-> IdOf(c, ProxyAddress(h))]

\* The opaque id RequestDeathNotification gives the proxy for handle h.
ProxyId(c, h) == TranslateOrAdd(c, ProxyAddress(h))

\* RemoteObject::LinkToDeath -> ClientImpl::RequestDeathNotification: the
\* proxy's address is given an id and recorded as a dead recipient before
\* the request is sent.
StartLink(c) ==
    /\ Ready(c)
    /\ \E h \in AppHandle :
         LET k == nextCookie[c]
             r == ProxyId(c, h)
         IN /\ proxy[c][h] = "live"
            /\ ~obitSent[c][h]
            /\ Call(c, DeathMsg("RequestDeathNotification", k, h, r.id), k, FALSE)
            /\ xlate' = [xlate EXCEPT ![c] = r.table]
            /\ nextObjectId' = [nextObjectId EXCEPT ![c] = r.next]
            /\ deadRecipients' = [deadRecipients EXCEPT ![c] =
                 IF r.id \in DOMAIN @ THEN [@ EXCEPT ![r.id] = Append(@, h)]
                 ELSE @ @@ (r.id :> <<h>>)]
            /\ nextCookie' = [nextCookie EXCEPT ![c] = @ + 1]
            /\ app' = [app EXCEPT ![c] = [Idle EXCEPT !.op = "Link", !.cookie = k, !.handle = h]]
    /\ UNCHANGED <<down, open, shouldExit, reading, strand, inMsgs, ctxObj, proxy,
                   obitSent, linked, notified, known>>

\* RemoteObject::UnlinkToDeath -> ClientImpl::ClearDeathNotification: the
\* local registration is dropped before the broker is asked.  Its early
\* DeadObject returns (no id, no registration) need a registration lost
\* without an obituary, which no modelled step produces.
StartUnlink(c) ==
    /\ Ready(c)
    /\ \E h \in AppHandle :
         LET k == nextCookie[c]
             id == IdOf(c, ProxyAddress(h))
         IN /\ proxy[c][h] = "live"
            /\ ~obitSent[c][h]
            /\ linked[c][h] > 0
            /\ id # 0 /\ id \in DOMAIN deadRecipients[c]
            /\ LET rest == RemoveFirst(deadRecipients[c][id], h) IN
               deadRecipients' = [deadRecipients EXCEPT ![c] =
                 IF rest = <<>> THEN [x \in DOMAIN @ \ {id} |-> @[x]]
                 ELSE [@ EXCEPT ![id] = rest]]
            /\ Call(c, DeathMsg("ClearDeathNotification", k, h, id), k, FALSE)
            /\ nextCookie' = [nextCookie EXCEPT ![c] = @ + 1]
            /\ app' = [app EXCEPT ![c] = [Idle EXCEPT !.op = "Unlink", !.cookie = k, !.handle = h]]
    /\ UNCHANGED <<down, open, shouldExit, reading, strand, inMsgs, ctxObj, xlate,
                   nextObjectId, proxy, obitSent, linked, notified, known>>

\* RemoteObject::SendObituary: the first call tells every recipient in
\* obituaries_ and sets obituaries_sent_; later calls do nothing.
SendObituary(c, h) ==
    /\ obitSent' = [obitSent EXCEPT ![c][h] = TRUE]
    /\ notified' = IF obitSent[c][h] THEN notified
                   ELSE [notified EXCEPT ![c][h] = linked[c][h]]

\* The promise is fulfilled: the application thread returns and acts on
\* the result.
Status(v) == IF v.type = "Status" THEN v.status ELSE "BadValue"

TransactResult(v, oneWay) ==
    CASE oneWay /\ v.type = "Status" -> v.status
      [] v.type # "TransactionReply" -> "BadValue"
      [] v.tr.status # "none" -> v.tr.status
      [] OTHER -> "OK"

\* RemoteObject::LinkToDeath and UnlinkToDeath after the broker answered:
\* the recipient is pushed to (erased from) obituaries_ only if the
\* request returned OK.
LinkedAfter(c, a, st) ==
    CASE a.op = "Link" /\ st = "OK" -> [linked EXCEPT ![c][a.handle] = @ + 1]
      [] a.op = "Unlink" /\ st = "OK" -> [linked EXCEPT ![c][a.handle] = @ - 1]
      [] OTHER -> linked

FinishAppCall(c) ==
    LET a == app[c]
        st == IF a.op = "Transact" THEN TransactResult(a.value, a.oneWay) ELSE Status(a.value)
    IN
    /\ ~shouldExit[c]
    /\ a.op \notin {"idle", "SetContextObject"}
    /\ a.value # NoMsg
    /\ app' = [app EXCEPT ![c] = IF a.op = "BecomeContextManager" /\ st = "OK"
                                 THEN [Idle EXCEPT !.op = "SetContextObject"] ELSE Idle]
    /\ linked' = LinkedAfter(c, a, st)
    /\ known' = IF a.op = "Transact" /\ st = "OK" THEN [known EXCEPT ![c] = Learned(c, a.value.tr.obj)]
                ELSE known
    /\ UNCHANGED <<up, down, open, shouldExit, reading, nextCookie, pending, strand,
                   inMsgs, ctxObj, xlate, nextObjectId, deadRecipients, proxy,
                   obitSent, notified>>

\* service_manager.cpp: SetContextObject right after BecomeContextManager.
SetContextObject(c) ==
    /\ ~shouldExit[c]
    /\ app[c].op = "SetContextObject"
    /\ ctxObj' = [ctxObj EXCEPT ![c] = TRUE]
    /\ app' = [app EXCEPT ![c] = Idle]
    /\ UNCHANGED <<up, down, open, shouldExit, reading, nextCookie, pending, strand,
                   inMsgs, xlate, nextObjectId, deadRecipients, proxy, obitSent,
                   linked, notified, known>>

-----------------------------------------------------------------------------
(* The read path: OnNewMessage, one message at a time.                     *)

OnNewMessage(c) ==
    LET m == Head(down[c]) IN
    /\ reading[c]
    /\ open[c]
    /\ down[c] # <<>>
    /\ down' = [down EXCEPT ![c] = Tail(@)]
    /\ IF m.cookie \in DOMAIN pending[c]
       THEN LET call == pending[c][m.cookie] IN
            /\ UNCHANGED inMsgs
            /\ IF m.type = "Status" /\ call.type = "Transaction" /\ ~call.oneWay /\ m.status = "OK"
               THEN \* the delivery ack of a two-way transaction
                    UNCHANGED <<reading, pending, strand, app>>
               ELSE IF call.done
               THEN \* promise already satisfied: std::future_error escapes the
                    \* handler and the read is never re-armed
                    /\ reading' = [reading EXCEPT ![c] = FALSE]
                    /\ UNCHANGED <<pending, strand, app>>
               ELSE /\ pending' = [pending EXCEPT ![c][m.cookie].done = TRUE]
                    /\ app' = [app EXCEPT ![c].value = m]
                    /\ strand' = [strand EXCEPT ![c] = Append(@, [kind |-> "finish", msg |-> m])]
                    /\ UNCHANGED reading
       ELSE /\ IF m.type = "Transaction" /\ ctxObj[c]
               THEN /\ strand' = [strand EXCEPT ![c] = Append(@, [kind |-> "context", msg |-> m])]
                    /\ UNCHANGED inMsgs
               ELSE /\ inMsgs' = [inMsgs EXCEPT ![c] = Append(@, m)]
                    /\ UNCHANGED strand
            /\ UNCHANGED <<reading, pending, app>>
    /\ UNCHANGED <<up, open, shouldExit, nextCookie, ctxObj, xlate, nextObjectId,
                   deadRecipients, proxy, obitSent, linked, notified, known>>

-----------------------------------------------------------------------------
(* The strand                                                              *)

\* FinishCall: the pending entry is erased.
FinishCall(c) ==
    /\ strand[c] # <<>>
    /\ Head(strand[c]).kind = "finish"
    /\ pending' = [pending EXCEPT ![c] = [k \in DOMAIN @ \ {Head(strand[c]).msg.cookie} |-> @[k]]]
    /\ strand' = [strand EXCEPT ![c] = Tail(@)]
    /\ UNCHANGED <<up, down, open, shouldExit, reading, nextCookie, inMsgs, ctxObj, xlate,
                   nextObjectId, deadRecipients, proxy, obitSent, linked, notified,
                   app, known>>

\* HandleContextObjectMessage: the context object's Transact; its reply is
\* written as it comes back, without an Out translation.
HandleContextObjectMessage(c) ==
    LET m == Head(strand[c]).msg IN
    /\ strand[c] # <<>>
    /\ Head(strand[c]).kind = "context"
    /\ strand' = [strand EXCEPT ![c] = Tail(@)]
    /\ \E st \in {"OK", "UnknownTransaction"}, o \in Writable(c) :
         /\ st # "OK" => o = NoObj
         /\ up' = [up EXCEPT ![c] = Append(@,
                     TxMsg("TransactionReply", m.cookie, 0,
                           TrData(0, o, IF st = "OK" THEN "none" ELSE st), m.re))]
    /\ known' = [known EXCEPT ![c] = Learned(c, m.tr.obj)]
    /\ UNCHANGED <<down, open, shouldExit, reading, nextCookie, pending, inMsgs, ctxObj,
                   xlate, nextObjectId, deadRecipients, proxy, obitSent, linked,
                   notified, app>>

-----------------------------------------------------------------------------
(* The worker pool: ProcessAndExecuteCommand                               *)

\* A queued Transaction: the target is the object whose id the payload
\* cookie names, else the context object; the reply is Out-translated.
ExecuteTransaction(c) ==
    LET m == Head(inMsgs[c])
        target == IF m.tr.cookie \in DOMAIN xlate[c]
                  THEN IF xlate[c][m.tr.cookie] = LocalAddress THEN "local" ELSE "none"
                  ELSE IF ctxObj[c] THEN "context" ELSE "none"
    IN
    /\ ~shouldExit[c]
    /\ inMsgs[c] # <<>>
    /\ m.type = "Transaction"
    /\ inMsgs' = [inMsgs EXCEPT ![c] = Tail(@)]
    /\ known' = [known EXCEPT ![c] = Learned(c, m.tr.obj)]
    /\ IF target = "none"
       THEN /\ up' = [up EXCEPT ![c] = Append(@, StatusMsg(m.cookie, "UnknownTransaction", m.re))]
            /\ UNCHANGED <<xlate, nextObjectId>>
       ELSE \E st \in {"OK", "UnknownTransaction"}, o \in Writable(c) :
              LET r == OutTranslate(c, o) IN
              /\ st # "OK" => o = NoObj
              /\ up' = [up EXCEPT ![c] = Append(@,
                          TxMsg("TransactionReply", m.cookie, 0,
                                TrData(0, r.id, IF st = "OK" THEN "none" ELSE st), m.re))]
              /\ xlate' = [xlate EXCEPT ![c] = r.table]
              /\ nextObjectId' = [nextObjectId EXCEPT ![c] = r.next]
    /\ UNCHANGED <<down, open, shouldExit, reading, nextCookie, pending, strand, ctxObj,
                   deadRecipients, proxy, obitSent, linked, notified, app>>

\* A queued DeadBinder: the recipient entry with the message's object id
\* gets its obituary sent (RemoteObject::SendObituary, once) and is erased.
ExecuteDeadBinder(c) ==
    LET m == Head(inMsgs[c])
        found == m.id \in DOMAIN deadRecipients[c]
        h == Head(deadRecipients[c][m.id])
    IN
    /\ ~shouldExit[c]
    /\ inMsgs[c] # <<>>
    /\ m.type = "DeadBinder"
    /\ inMsgs' = [inMsgs EXCEPT ![c] = Tail(@)]
    /\ IF found
       THEN /\ deadRecipients' = [deadRecipients EXCEPT ![c] = [x \in DOMAIN @ \ {m.id} |-> @[x]]]
            /\ SendObituary(c, h)
       ELSE UNCHANGED <<deadRecipients, obitSent, notified>>
    /\ up' = [up EXCEPT ![c] = Append(@, StatusMsg(m.cookie, IF found THEN "OK" ELSE "DeadObject", m.re))]
    /\ UNCHANGED <<down, open, shouldExit, reading, nextCookie, pending, strand, ctxObj,
                   xlate, nextObjectId, proxy, linked, app, known>>

\* Any other queued message falls through the switch and is dropped.
DropUnsolicited(c) ==
    /\ ~shouldExit[c]
    /\ inMsgs[c] # <<>>
    /\ Head(inMsgs[c]).type \notin {"Transaction", "DeadBinder"}
    /\ inMsgs' = [inMsgs EXCEPT ![c] = Tail(@)]
    /\ UNCHANGED <<up, down, open, shouldExit, reading, nextCookie, pending, strand, ctxObj,
                   xlate, nextObjectId, deadRecipients, proxy, obitSent, linked,
                   notified, app, known>>

-----------------------------------------------------------------------------

\* The process exits or crashes: its socket closes (ClientImpl::Terminate
\* on destruction); nothing it had not read is seen any more.
Exit(c) ==
    /\ open[c]
    /\ open' = [open EXCEPT ![c] = FALSE]
    /\ shouldExit' = [shouldExit EXCEPT ![c] = TRUE]
    /\ down' = [down EXCEPT ![c] = <<>>]
    /\ UNCHANGED <<up, reading, nextCookie, pending, strand, inMsgs, ctxObj, xlate,
                   nextObjectId, deadRecipients, proxy, obitSent, linked, notified,
                   app, known>>

\* A call the application thread starts.
StartCall(c, op) ==
    CASE op = "Transact" -> StartTransact(c)
      [] op = "Link" -> StartLink(c)
      [] op = "Unlink" -> StartUnlink(c)
      [] OTHER -> StartSimpleCall(c, op)

AppStep(c) == \E op \in CallOp : StartCall(c, op)

\* The steps that follow from what the client has started or received:
\* the application thread returning, the read path, the strand, the pool.
Progress(c) ==
    \/ FinishAppCall(c)
    \/ SetContextObject(c)
    \/ OnNewMessage(c)
    \/ FinishCall(c)
    \/ HandleContextObjectMessage(c)
    \/ ExecuteTransaction(c)
    \/ ExecuteDeadBinder(c)
    \/ DropUnsolicited(c)

ClientNext == \E c \in Client : AppStep(c) \/ Progress(c) \/ Exit(c)

=============================================================================
