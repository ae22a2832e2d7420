------------------------------- MODULE Broker -------------------------------
(***************************************************************************)
(* The broker: one ServerSession per connected client (server_session.cpp) *)
(* sharing one Registry (registry.cpp).  A session reads its client's     *)
(* messages in order (one outstanding async read per connection) and      *)
(* handles each one in ProcessMessage; handlers of different sessions     *)
(* interleave.  up[c] is the byte stream from client c to its session,    *)
(* down[c] the stream back; open[c] is the state of client c's end of the *)
(* socket, owned by the client side.                                      *)
(***************************************************************************)
EXTENDS BinderMessages, Integers, Sequences, SequencesExt, FiniteSets, TLC

VARIABLES
    up, down, open,    \* the connections (shared with the endpoints)
    active,            \* session is between Start and Terminate
    nextTrCookie,      \* ServerSession::next_transaction_cookie_
    pendingTr,         \* ServerSession::pending_transactions_: cookie -> record
    objects,           \* ServerSession::objects_: handle -> object cookie
    deathNotif,        \* ServerSession::death_notifications_: handle -> object id
    contextMgr,        \* Registry::context_mgr_
    monitor,           \* Registry::monitor_
    handles,           \* Registry::handles_: handle -> owning session
    references,        \* Registry::references_: handle -> list of sessions
    nextObjectHandle   \* Registry::next_object_handle_

chanVars == <<up, down, open>>
brokerVars == <<active, nextTrCookie, pendingTr, objects, deathNotif,
                contextMgr, monitor, handles, references, nextObjectHandle>>

\* Writes of a session to a client whose socket is closed are lost.
Deliver(ch, c, m) == IF open[c] THEN [ch EXCEPT ![c] = Append(@, m)] ELSE ch

\* Drop the key k from function f.
Forget(f, k) == [x \in DOMAIN f \ {k} |-> f[x]]

\* Seeded-bug variant of FirstObjectHandle: the counter starts at 0, the
\* context manager's handle.
FirstObjectHandleZero == 0

\* Registry's constructor: next_object_handle_{1}.
FirstObjectHandle == 1

BrokerInit ==
    /\ active = [c \in Client |-> TRUE]
    /\ nextTrCookie = [c \in Client |-> 0]
    /\ pendingTr = [c \in Client |-> <<>>]
    /\ objects = [c \in Client |-> <<>>]
    /\ deathNotif = [c \in Client |-> <<>>]
    /\ contextMgr = NoClient
    /\ monitor = NoClient
    /\ handles = <<>>
    /\ references = <<>>
    /\ nextObjectHandle = FirstObjectHandle

-----------------------------------------------------------------------------
(* Registry                                                                *)

FindSessionByHandle(hs, h) ==
    IF h = ContextManagerHandle THEN contextMgr
    ELSE IF h \in DOMAIN hs THEN hs[h] ELSE NoClient

AddReferenceForHandle(s, h) ==
    IF h \notin DOMAIN handles THEN [refs |-> references, status |-> "DeadObject"]
    ELSE IF h \notin DOMAIN references
         THEN [refs |-> references @@ (h :> <<s>>), status |-> "OK"]
         ELSE [refs |-> [references EXCEPT ![h] = Append(@, s)], status |-> "OK"]

\* RemoveReferenceForHandle: erases the first occurrence of s.
RemoveReferenceForHandle(s, h) ==
    IF h \notin DOMAIN handles THEN [refs |-> references, status |-> "DeadObject"]
    ELSE IF h \notin DOMAIN references \/ ~Contains(references[h], s)
         THEN [refs |-> references, status |-> "BadValue"]
         ELSE [refs |-> [references EXCEPT ![h] = RemoveFirst(@, s)], status |-> "OK"]

\* The DeadBinder messages RemoveHandle(h) sends: one per entry of the
\* reference list whose session asked for a notification on h
\* (ServerSession::SendDeathNotification).
Obituaries(h) ==
    IF h \notin DOMAIN references THEN <<>>
    ELSE LET refs == SelectSeq(references[h], LAMBDA r : h \in DOMAIN deathNotif[r])
         IN [i \in 1..Len(refs) |->
               <<refs[i], DeathMsg("DeadBinder", 0, h, deathNotif[refs[i]][h])>>]

-----------------------------------------------------------------------------
(* ServerSession handlers.  Each reads the head of up[s].                  *)

Receive(s) ==
    /\ active[s]
    /\ up[s] # <<>>

Reply(s, m, status) == Deliver(down, s, StatusMsg(m.cookie, status, <<s, m.cookie>>))

OnSetContextManager(s) ==
    LET m == Head(up[s]) IN
    /\ Receive(s)
    /\ m.type = "SetContextMgr"
    /\ up' = [up EXCEPT ![s] = Tail(@)]
    /\ contextMgr' = IF contextMgr = NoClient THEN s ELSE contextMgr
    /\ down' = Reply(s, m, IF contextMgr = NoClient THEN "OK" ELSE "AlreadyExists")
    /\ UNCHANGED <<open, active, nextTrCookie, pendingTr, objects, deathNotif,
                   monitor, handles, references, nextObjectHandle>>

OnSetMonitor(s) ==
    LET m == Head(up[s]) IN
    /\ Receive(s)
    /\ m.type = "SetMonitor"
    /\ up' = [up EXCEPT ![s] = Tail(@)]
    /\ monitor' = IF monitor = NoClient THEN s ELSE monitor
    /\ down' = Reply(s, m, IF monitor = NoClient THEN "OK" ELSE "AlreadyExists")
    /\ UNCHANGED <<open, active, nextTrCookie, pendingTr, objects, deathNotif,
                   contextMgr, handles, references, nextObjectHandle>>

CallerTranslated(s, o) ==
    CASE o.type = "Binder" -> Obj("Handle", 0, nextObjectHandle, o.owner)
      [] o.type = "Handle" /\ o.handle \in DOMAIN objects[s] ->
             Obj("WeakBinder", objects[s][o.handle], 0, s)
      [] OTHER -> o

\* TranslateObjects run again by the target session t in PostTransaction,
\* against t's (possibly just extended) object table objs.
TargetTranslated(objs, o, t) ==
    IF o.type = "Handle" /\ o.handle \in DOMAIN objs
    THEN Obj("WeakBinder", objs[o.handle], 0, t)
    ELSE o

\* OnTransaction: translate, resolve the target, PostTransaction to it, and
\* SendStatus to the caller with PostTransaction's result.
OnTransaction(s) ==
    LET m == Head(up[s])
        o == m.tr.obj
        isBinder == o.type = "Binder"
        h == nextObjectHandle
        objs1 == IF isBinder THEN [objects EXCEPT ![s] = @ @@ (h :> o.cookie)] ELSE objects
        handles1 == IF isBinder THEN handles @@ (h :> s) ELSE handles
        o1 == CallerTranslated(s, o)
        t == FindSessionByHandle(handles1, m.dest)
        k == nextTrCookie[t]
        destKnown == m.dest \in DOMAIN objs1[t]
        o2 == TargetTranslated(objs1[t], o1, t)
        fwd == TxMsg("Transaction", k, m.dest,
                     TrData(IF destKnown THEN objs1[t][m.dest] ELSE 0, o2, "none"),
                     <<s, m.cookie>>)
    IN
    /\ Receive(s)
    /\ m.type = "Transaction"
    /\ up' = [up EXCEPT ![s] = Tail(@)]
    /\ objects' = objs1
    /\ handles' = handles1
    /\ nextObjectHandle' = IF isBinder THEN h + 1 ELSE h
    /\ IF t = NoClient
       THEN /\ down' = Reply(s, m, "NameNotFound")
            /\ UNCHANGED <<nextTrCookie, pendingTr>>
       ELSE /\ nextTrCookie' = [nextTrCookie EXCEPT ![t] = @ + 1]
            /\ IF destKnown \/ m.dest = ContextManagerHandle
               THEN /\ pendingTr' = [pendingTr EXCEPT ![t] =
                                       @ @@ (k :> [caller |-> s, cookie |-> m.cookie])]
                    /\ down' = Deliver(Deliver(down, t, fwd), s,
                                       StatusMsg(m.cookie, "OK", <<s, m.cookie>>))
               ELSE /\ down' = Reply(s, m, "InvalidOperation")
                    /\ UNCHANGED pendingTr
    /\ UNCHANGED <<open, active, deathNotif, contextMgr, monitor, references>>

\* OnReply: a Status or TransactionReply whose cookie names a pending
\* transaction is re-cookied and written to the caller; any other is dropped.
OnReply(s) ==
    LET m == Head(up[s]) IN
    /\ Receive(s)
    /\ IsReply(m)
    /\ up' = [up EXCEPT ![s] = Tail(@)]
    /\ IF m.cookie \in DOMAIN pendingTr[s]
       THEN LET rec == pendingTr[s][m.cookie] IN
            /\ pendingTr' = [pendingTr EXCEPT ![s] = Forget(@, m.cookie)]
            /\ down' = Deliver(down, rec.caller, [m EXCEPT !.cookie = rec.cookie])
       ELSE UNCHANGED <<pendingTr, down>>
    /\ UNCHANGED <<open, active, nextTrCookie, objects, deathNotif,
                   contextMgr, monitor, handles, references, nextObjectHandle>>

OnReference(s) ==
    LET m == Head(up[s])
        r == IF m.type = "Acquire" THEN AddReferenceForHandle(s, m.handle)
                                   ELSE RemoveReferenceForHandle(s, m.handle)
    IN
    /\ Receive(s)
    /\ m.type \in {"Acquire", "Release"}
    /\ up' = [up EXCEPT ![s] = Tail(@)]
    /\ references' = r.refs
    /\ down' = Reply(s, m, r.status)
    /\ UNCHANGED <<open, active, nextTrCookie, pendingTr, objects, deathNotif,
                   contextMgr, monitor, handles, nextObjectHandle>>

OnDeathNotification(s) ==
    LET m == Head(up[s])
        known == m.handle \in DOMAIN deathNotif[s]
        status == CASE m.type = "RequestDeathNotification" /\ known -> "AlreadyExists"
                    [] m.type = "ClearDeathNotification" /\ ~known -> "BadValue"
                    [] OTHER -> "OK"
    IN
    /\ Receive(s)
    /\ m.type \in {"RequestDeathNotification", "ClearDeathNotification"}
    /\ up' = [up EXCEPT ![s] = Tail(@)]
    /\ deathNotif' =
         CASE status # "OK" -> deathNotif
           [] m.type = "RequestDeathNotification" ->
                [deathNotif EXCEPT ![s] = @ @@ (m.handle :> m.id)]
           [] OTHER -> [deathNotif EXCEPT ![s] = Forget(@, m.handle)]
    /\ down' = Reply(s, m, status)
    /\ UNCHANGED <<open, active, nextTrCookie, pendingTr, objects,
                   contextMgr, monitor, handles, references, nextObjectHandle>>

\* ProcessMessage's default branch.
OnUnsupported(s) ==
    LET m == Head(up[s]) IN
    /\ Receive(s)
    /\ m.type \in {"DeadBinder", "Version"}
    /\ up' = [up EXCEPT ![s] = Tail(@)]
    /\ down' = Reply(s, m, "InvalidOperation")
    /\ UNCHANGED <<open, active, nextTrCookie, pendingTr, objects, deathNotif,
                   contextMgr, monitor, handles, references, nextObjectHandle>>

\* The session's read fails once the client has closed its end and every
\* byte it sent has been read (and the last handler has returned).
ReadFails(s) ==
    /\ active[s]
    /\ ~open[s]
    /\ up[s] = <<>>

\* Seeded-bug variant of RemoveHandles: nothing is erased.
KeepHandles(owned) == UNCHANGED <<handles, references>>

\* Registry::RemoveHandle for every handle in owned: the handle and its
\* reference list are erased.
RemoveHandles(owned) ==
    /\ handles' = [h \in DOMAIN handles \ owned |-> handles[h]]
    /\ references' = [h \in DOMAIN references \ owned |-> references[h]]

\* Seeded-bug variant of ReleaseRoles: the roles are kept.
KeepRoles(s) == UNCHANGED <<contextMgr, monitor>>

\* Registry::UnsetContextManager / UnsetMonitor for a terminating session.
ReleaseRoles(s) ==
    /\ contextMgr' = IF contextMgr = s THEN NoClient ELSE contextMgr
    /\ monitor' = IF monitor = s THEN NoClient ELSE monitor

\* ServerSession::Terminate: removes every handle the session owns (with
\* RemoveHandle's death notification fan-out, in handle order) and gives
\* up the context manager and monitor roles.
Terminate(s) ==
    LET owned == {h \in DOMAIN objects[s] : h \in DOMAIN handles}
        sends == FlattenSeq([i \in 1..Cardinality(owned) |->
                               Obituaries(SetToSortSeq(owned, <)[i])])
    IN
    /\ ReadFails(s)
    /\ active' = [active EXCEPT ![s] = FALSE]
    /\ down' = FoldLeft(LAMBDA ch, p : Deliver(ch, p[1], p[2]), down, sends)
    /\ RemoveHandles(owned)
    /\ ReleaseRoles(s)
    /\ UNCHANGED <<up, open, nextTrCookie, pendingTr, objects, deathNotif,
                   nextObjectHandle>>

BrokerNext ==
    \E s \in Client :
        \/ OnSetContextManager(s)
        \/ OnSetMonitor(s)
        \/ OnTransaction(s)
        \/ OnReply(s)
        \/ OnReference(s)
        \/ OnDeathNotification(s)
        \/ OnUnsupported(s)
        \/ Terminate(s)

-----------------------------------------------------------------------------
(* Properties                                                              *)

BrokerTypeOK ==
    /\ active \in [Client -> BOOLEAN]
    /\ nextTrCookie \in [Client -> Nat]
    /\ \A s \in Client :
         /\ DOMAIN pendingTr[s] \subseteq Nat
         /\ \A k \in DOMAIN pendingTr[s] : pendingTr[s][k].caller \in Client
         /\ DOMAIN objects[s] \subseteq Nat \ {ContextManagerHandle}
         /\ DOMAIN deathNotif[s] \subseteq Nat
    /\ contextMgr \in Client \cup {NoClient}
    /\ monitor \in Client \cup {NoClient}
    /\ \A h \in DOMAIN handles : handles[h] \in Client
    /\ \A h \in DOMAIN references : references[h] \in Seq(Client)
    /\ nextObjectHandle \in Nat \ {0}

\* Registry::handles_ names exactly the objects that live sessions expose:
\* a handle resolves to a session iff that session is still active and
\* holds the object in its objects_ table, no handle is owned twice, and a
\* reference list only exists for such a handle.  Broken when a terminated
\* session's handles stay routable (RemoveHandle skipped in Terminate), when
\* the handle counter hands out a handle twice, or when a reference is taken
\* on an unknown handle.
RegistryConsistent ==
    /\ \A h \in DOMAIN handles :
         active[handles[h]] /\ h \in DOMAIN objects[handles[h]]
    /\ \A s \in Client : active[s] =>
         \A h \in DOMAIN objects[s] : h \in DOMAIN handles /\ handles[h] = s
    /\ \A s1, s2 \in Client :
         s1 # s2 => DOMAIN objects[s1] \cap DOMAIN objects[s2] = {}
    /\ DOMAIN references \subseteq DOMAIN handles

\* The context manager and the monitor, when claimed, are live sessions, so
\* that after the holder disconnects another session can claim the role
\* (Terminate releases it).  Broken if Terminate keeps a role.
RolesHeldByLiveSessions ==
    /\ contextMgr # NoClient => active[contextMgr]
    /\ monitor # NoClient => active[monitor]

\* Every Status or TransactionReply written to a client answers a call that
\* client made: its cookie is the client's own cookie for that call.  The
\* broker re-cookies a callee's reply with the caller's cookie in OnReply;
\* the question is whether everything OnReply routes is such a reply.
RepliesReachTheirCaller ==
    \A c \in Client : \A i \in 1..Len(down[c]) :
        IsReply(down[c][i]) => down[c][i].re = <<c, down[c][i].cookie>>

=============================================================================
