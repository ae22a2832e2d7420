--------------------------- MODULE ServiceManager ---------------------------
(***************************************************************************)
(* The service manager (cmds/service_manager.cpp): an endpoint that is    *)
(* the context manager, with a ServiceManagerService as context object,   *)
(* and the processes that register services with it.                      *)
(*                                                                         *)
(* A process p calls ServiceManagerProxy::AddService(name, its object);   *)
(* its session's OnTransaction gives the object a fresh broker handle and *)
(* forwards the transaction to the service manager's session.  There     *)
(* OnNewMessage first matches the message's cookie against the calls the *)
(* strand is waiting on (the session's transaction cookies and the        *)
(* endpoint's call cookies share one namespace); an unmatched transaction *)
(* goes to the strand, where OnTransact runs AddService:                  *)
(* ReadObject makes a RemoteObject (whose constructor makes the blocking  *)
(* AddReference call), the name is checked and inserted, and LinkToDeath  *)
(* makes the blocking RequestDeathNotification call and then pushes the   *)
(* death handler.  When p's session ends, Registry::RemoveHandle sends a  *)
(* DeadBinder to the sessions holding a reference whose death_notifications_*)
(* names the handle; a pool worker runs SendObituary, whose OnObjectDied  *)
(* erases the service.                                                     *)
(*                                                                         *)
(* Each process registers at most once, so a process also names its      *)
(* handle and the RemoteObject the service manager makes for it.  The    *)
(* broker's handling of one message is one step.                          *)
(*                                                                         *)
(* A lister process walks ServiceManagerProxy::ListServices: one          *)
(* ListServicesTransaction per index until the service manager answers   *)
(* BadValue.  services_ is an unordered_map; its iteration order is kept  *)
(* as the sequence table, an insert landing at any position.             *)
(*                                                                         *)
(* A getter process calls ServiceManagerProxy::GetService (CheckService  *)
(* takes the same case of OnTransact): the service manager answers with  *)
(* the service's handle, and the getter's ReadObject makes a RemoteObject *)
(* whose constructor takes a broker reference (AddReference) and whose   *)
(* destructor gives it back.  One client thread is both the lister and  *)
(* the getter: it makes one ListServices walk and one GetService call,   *)
(* in either order, each blocking until it returns.                       *)
(***************************************************************************)
EXTENDS Integers, SequencesExt, FiniteSets, TLC

CONSTANTS Proc,   \* processes offering a service
          Name    \* service names

VARIABLES handle,          \* p's object handle in Registry::handles_: "none", "live", "dead"
          refs,            \* Registry::references_: handles the service manager holds
          deathReg,        \* the service manager session's death_notifications_
          down,            \* broker -> service manager stream
          up,              \* service manager -> broker stream
          strandQ,         \* context transactions posted to the strand
          sm,              \* the strand's AddService: [pc, proc, name, reply]
          table,           \* ServiceManagerService::services_ in iteration order: [name, proc]
          deadRecipients,  \* ClientImpl::dead_recipients_ (proxies)
          recipients,      \* RemoteObject::obituaries_: death handlers pushed
          inMsgs,          \* ClientImpl::in_messages_ (DeadBinders)
          lister,          \* the ListServices caller: [pc, n, got, since, reply]
          getter,          \* the GetService caller: [pc, name, reply, proxy]
          getterRefs,      \* Registry::references_ held by the getter's session
          changes,         \* ghost: inserts and erases of services_ so far
          pending,         \* the endpoint's pending_calls_: cookie -> "waiting" or "resolved"
          nextCookie,      \* the endpoint's next_cookie_ (NewCookie)
          txCookie,        \* its session's next_transaction_cookie_ (PostTransaction)
          reading          \* the endpoint's read handler is still re-armed

vars == <<handle, refs, deathReg, down, up, strandQ, sm, table, deadRecipients,
          recipients, inMsgs, lister, getter, getterRefs, changes,
          pending, nextCookie, txCookie, reading>>

\* services_ as a map from name to the process whose proxy it holds.
services == [n \in {e.name : e \in ToSet(table)} |->
                (CHOOSE e \in ToSet(table) : e.name = n).proc]

NoReply == "none"
NoProc == "noproc"
BadValue == "BadValue"
Idle == [pc |-> "idle", proc |-> CHOOSE p \in Proc : TRUE, name |-> CHOOSE n \in Name : TRUE,
         reply |-> NoReply]

\* The strand's FinishCall(cookie), posted when a call's reply arrives.
Finish(c) == [kind |-> "Finish", cookie |-> c]

\* The service manager is running: BecomeContextManager (the endpoint's
\* call with cookie 0) has returned and SetContextObject is done; the
\* FinishCall(0) its reply posted may not have run on the strand yet.
\* No service is registered and the session has forwarded nothing.
SMInit ==
    /\ handle = [p \in Proc |-> "none"]
    /\ refs = {}
    /\ deathReg = {}
    /\ down = <<>>
    /\ up = <<>>
    /\ strandQ = <<Finish(0)>>
    /\ sm = Idle
    /\ table = <<>>
    /\ deadRecipients = {}
    /\ recipients = [p \in Proc |-> 0]
    /\ inMsgs = <<>>
    /\ lister = [pc |-> "idle", n |-> 0, got |-> <<>>, since |-> 0, reply |-> NoReply]
    /\ getter = [pc |-> "idle", name |-> CHOOSE n \in Name : TRUE, reply |-> NoReply,
                 proxy |-> NoProc]
    /\ getterRefs = {}
    /\ changes = 0
    /\ pending = (0 :> "resolved")
    /\ nextCookie = 1
    /\ txCookie = 0
    /\ reading = TRUE

\* The endpoint's blocking call of the given type (AddReference,
\* ReleaseReference, RequestDeathNotification) from the strand: StartCall
\* takes NewCookie() and records the call in pending_calls_, and the
\* request goes up to the session.
StrandCall(type, p) ==
    /\ up' = Append(up, [type |-> type, proc |-> p, cookie |-> nextCookie])
    /\ pending' = pending @@ (nextCookie :> "waiting")
    /\ nextCookie' = nextCookie + 1

\* A transaction forwarded to the service manager's session:
\* PostTransaction gives it the session's next transaction cookie.
Forward(m) ==
    /\ down' = Append(down, [m EXCEPT !.cookie = txCookie])
    /\ txCookie' = txCookie + 1

-----------------------------------------------------------------------------
(* Service processes, the lister, and their sessions                      *)

\* ServiceManagerProxy::AddService, as p's session's OnTransaction handles
\* it: NewObjectHandle for the Binder, PostTransaction to the context
\* manager's session.
AddServiceCall(p) ==
    /\ handle[p] = "none"
    /\ \E n \in Name :
         Forward([type |-> "Transaction", kind |-> "Add", proc |-> p, name |-> n, cookie |-> 0])
    /\ handle' = [handle EXCEPT ![p] = "live"]
    /\ UNCHANGED <<refs, deathReg, up, strandQ, sm, table, deadRecipients,
                   recipients, inMsgs, lister, getter, getterRefs, changes,
                   pending, nextCookie, reading>>

\* p exits and its session's Terminate runs Registry::RemoveHandle: every
\* session holding a reference is sent a DeadBinder if its
\* death_notifications_ has the handle (SendDeathNotification leaves the
\* message's cookie 0); the references are erased.
SessionTerminate(p) ==
    /\ handle[p] # "dead"
    /\ handle' = [handle EXCEPT ![p] = "dead"]
    /\ down' = IF handle[p] = "live" /\ p \in refs /\ p \in deathReg
               THEN Append(down, [type |-> "DeadBinder", proc |-> p, cookie |-> 0]) ELSE down
    /\ refs' = refs \ {p}
    /\ getterRefs' = getterRefs \ {p}
    /\ UNCHANGED <<deathReg, up, strandQ, sm, table, deadRecipients, recipients,
                   inMsgs, lister, getter, changes, pending, nextCookie, txCookie, reading>>

ListRequest(n) == [type |-> "Transaction", kind |-> "List", index |-> n, cookie |-> 0]

\* ServiceManagerProxy::ListServices starts: services.clear() and the
\* transaction for index 0.
ListServicesCall ==
    /\ lister.pc = "idle"
    /\ getter.pc \notin {"wait", "acquire"}
    /\ Forward(ListRequest(0))
    /\ lister' = [pc |-> "wait", n |-> 0, got |-> <<>>, since |-> changes, reply |-> NoReply]
    /\ UNCHANGED <<handle, refs, deathReg, up, strandQ, sm, table, deadRecipients,
                   recipients, inMsgs, changes, getter, getterRefs, pending, nextCookie, reading>>

\* One turn of ListServices' do-while loop once Transact returned: a reply
\* adds its name and the next index is asked for; BadValue ends the walk.
ListServicesReply ==
    /\ lister.pc = "wait"
    /\ lister.reply # NoReply
    /\ IF lister.reply = BadValue
       THEN /\ lister' = [lister EXCEPT !.pc = "done", !.reply = NoReply]
            /\ UNCHANGED <<down, txCookie>>
       ELSE /\ lister' = [lister EXCEPT !.got = Append(@, lister.reply), !.n = @ + 1,
                                        !.reply = NoReply]
            /\ Forward(ListRequest(lister.n + 1))
    /\ UNCHANGED <<handle, refs, deathReg, up, strandQ, sm, table, deadRecipients,
                   recipients, inMsgs, changes, getter, getterRefs, pending, nextCookie, reading>>


GetRequest(n) == [type |-> "Transaction", kind |-> "Get", name |-> n, cookie |-> 0]

\* ServiceManagerProxy::GetService(name), or CheckService: the transaction
\* to the context manager, forwarded by the getter's session.
GetServiceCall ==
    /\ getter.pc = "idle"
    /\ lister.pc # "wait"
    /\ \E n \in Name :
         /\ Forward(GetRequest(n))
         /\ getter' = [pc |-> "wait", name |-> n, reply |-> NoReply, proxy |-> NoProc]
    /\ UNCHANGED <<handle, refs, deathReg, up, strandQ, sm, table, deadRecipients,
                   recipients, inMsgs, lister, getterRefs, changes, pending, nextCookie, reading>>

\* Transact returned.  A status (BadValue) is returned as it is; a reply
\* is read by ReadObject, whose RemoteObject constructor calls
\* AddReference for the handle and waits.
GetServiceReply ==
    /\ getter.pc = "wait"
    /\ getter.reply # NoReply
    /\ getter' = IF getter.reply = BadValue
                 THEN [getter EXCEPT !.pc = "done", !.reply = NoReply]
                 ELSE [getter EXCEPT !.pc = "acquire", !.proxy = getter.reply, !.reply = NoReply]
    /\ UNCHANGED <<handle, refs, deathReg, down, up, strandQ, sm, table, deadRecipients,
                   recipients, inMsgs, lister, getterRefs, changes,
                   pending, nextCookie, txCookie, reading>>

\* The getter's session answers the Acquire (OnReference,
\* Registry::AddReferenceForHandle: DeadObject for a handle no longer
\* known).  The constructor ignores the status and GetService returns OK
\* with the proxy.
GetterAcquire ==
    /\ getter.pc = "acquire"
    /\ getterRefs' = IF handle[getter.proxy] = "live" THEN getterRefs \cup {getter.proxy}
                     ELSE getterRefs
    /\ getter' = [getter EXCEPT !.pc = "hold"]
    /\ UNCHANGED <<handle, refs, deathReg, down, up, strandQ, sm, table, deadRecipients,
                   recipients, inMsgs, lister, changes,
                   pending, nextCookie, txCookie, reading>>

\* The getter drops the proxy: ~RemoteObject's release closure calls
\* ReleaseReference, answered by RemoveReferenceForHandle (DeadObject
\* once the handle is gone).
GetterRelease ==
    /\ getter.pc = "hold"
    /\ getterRefs' = getterRefs \ {getter.proxy}
    /\ getter' = [getter EXCEPT !.pc = "released"]
    /\ UNCHANGED <<handle, refs, deathReg, down, up, strandQ, sm, table, deadRecipients,
                   recipients, inMsgs, lister, changes,
                   pending, nextCookie, txCookie, reading>>

-----------------------------------------------------------------------------
(* The service manager's session                                          *)

\* Seeded-bug variant of BrokerReceive: a request naming a handle that is
\* no longer known is dropped without a Status.
BrokerReceiveDropDead ==
    /\ up # <<>>
    /\ handle[Head(up).proc] = "dead"
    /\ up' = Tail(up)
    /\ deathReg' = IF Head(up).type = "RequestDeath" THEN deathReg \cup {Head(up).proc}
                   ELSE deathReg
    /\ UNCHANGED <<handle, refs, down, strandQ, sm, table, deadRecipients, recipients,
                   inMsgs, lister, getter, getterRefs, changes, pending, nextCookie, txCookie,
                   reading>>

\* OnReference (Registry::AddReferenceForHandle, RemoveReferenceForHandle)
\* and OnDeathNotification, each answered with a Status.  A death
\* registration is stored whether or not the handle is still known.
BrokerReceive ==
    LET m == Head(up)
        live == handle[m.proc] = "live"
        st == CASE m.type = "Acquire" -> IF live THEN "OK" ELSE "DeadObject"
                [] m.type = "Release" -> IF ~live THEN "DeadObject"
                                         ELSE IF m.proc \in refs THEN "OK" ELSE BadValue
                [] OTHER -> IF m.proc \in deathReg THEN "AlreadyExists" ELSE "OK"
    IN
    /\ up # <<>>
    /\ up' = Tail(up)
    /\ refs' = CASE m.type = "Acquire" /\ live -> refs \cup {m.proc}
                 [] m.type = "Release" /\ st = "OK" -> refs \ {m.proc}
                 [] OTHER -> refs
    /\ deathReg' = IF m.type = "RequestDeath" THEN deathReg \cup {m.proc} ELSE deathReg
    /\ down' = Append(down, [type |-> "Status", proc |-> m.proc, status |-> st,
                              cookie |-> m.cookie])
    /\ UNCHANGED <<handle, strandQ, sm, table, deadRecipients, recipients, inMsgs,
                   lister, getter, getterRefs, changes, pending, nextCookie, txCookie, reading>>

-----------------------------------------------------------------------------
(* The service manager endpoint                                           *)

\* OnNewMessage: the message's cookie is looked up in pending_calls_
\* first, whatever its type.  A match whose promise is still waiting is
\* resolved with the message (the strand's blocked call returns it; a
\* Transaction read as a status gives the low byte of its binder, 0 for
\* the context manager, so OK) and FinishCall is posted to the strand.  A
\* match already resolved makes set_value throw std::future_error out of
\* the handler, which then never calls ReadNextMessage.  (The skip of an
\* OK Status acknowledging a Transaction call never applies: this
\* endpoint makes no Transaction calls.)  Without a match, a Transaction
\* goes to the context object on the strand and anything else to
\* in_messages_ for the pool.
OnNewMessage ==
    LET m == Head(down) IN
    /\ reading
    /\ down # <<>>
    /\ down' = Tail(down)
    /\ IF m.cookie \in DOMAIN pending
       THEN IF pending[m.cookie] = "resolved"
            THEN /\ reading' = FALSE
                 /\ UNCHANGED <<pending, sm, strandQ, inMsgs>>
            ELSE /\ pending' = [pending EXCEPT ![m.cookie] = "resolved"]
                 /\ sm' = [sm EXCEPT !.reply = IF m.type = "Status" THEN m.status ELSE "OK"]
                 /\ strandQ' = Append(strandQ, Finish(m.cookie))
                 /\ UNCHANGED <<inMsgs, reading>>
       ELSE /\ IF m.type = "Transaction"
               THEN /\ strandQ' = Append(strandQ, m)
                    /\ UNCHANGED inMsgs
               ELSE /\ inMsgs' = Append(inMsgs, m)
                    /\ UNCHANGED strandQ
            /\ UNCHANGED <<pending, sm, reading>>
    /\ UNCHANGED <<handle, refs, deathReg, up, table, deadRecipients, recipients,
                   lister, getter, getterRefs, changes, nextCookie, txCookie>>

\* FinishCall(cookie) on the strand: the call leaves pending_calls_.
StrandFinishCall ==
    LET t == Head(strandQ) IN
    /\ sm.pc = "idle"
    /\ strandQ # <<>>
    /\ t.kind = "Finish"
    /\ strandQ' = Tail(strandQ)
    /\ pending' = [c \in DOMAIN pending \ {t.cookie} |-> pending[c]]
    /\ UNCHANGED <<handle, refs, deathReg, down, up, sm, table, deadRecipients, recipients,
                   inMsgs, lister, getter, getterRefs, changes, nextCookie, txCookie, reading>>

\* HandleContextObjectMessage -> OnTransact(AddServiceTransaction):
\* ReadObject makes the RemoteObject, whose constructor calls
\* AddReference and waits.
StartAddService ==
    LET t == Head(strandQ) IN
    /\ sm.pc = "idle"
    /\ strandQ # <<>>
    /\ t.kind = "Add"
    /\ strandQ' = Tail(strandQ)
    /\ StrandCall("Acquire", t.proc)
    /\ sm' = [pc |-> "acquire", proc |-> t.proc, name |-> t.name, reply |-> NoReply]
    /\ UNCHANGED <<handle, refs, deathReg, down, table, deadRecipients, recipients,
                   inMsgs, lister, getter, getterRefs, changes, txCookie, reading>>

\* Seeded-bug variant of ListAt: the bound check lets n equal the size,
\* and services[n] reads past the vector's end.
ListAtPastEnd(n) ==
    IF n < Len(table) THEN table[n + 1].name
    ELSE IF n = Len(table) THEN CHOOSE x \in Name : TRUE
    ELSE BadValue

\* ListServices builds the vector of names in iteration order; the
\* transaction answers the n-th or BadValue when n is out of range.
ListAt(n) == IF n < Len(table) THEN table[n + 1].name ELSE BadValue

\* HandleContextObjectMessage -> OnTransact(ListServicesTransaction),
\* its reply (a name or a TransactionStatus) delivered to the lister.
ListServicesTransaction ==
    LET t == Head(strandQ) IN
    /\ sm.pc = "idle"
    /\ strandQ # <<>>
    /\ t.kind = "List"
    /\ strandQ' = Tail(strandQ)
    /\ lister' = [lister EXCEPT !.reply = ListAt(t.index)]
    /\ UNCHANGED <<handle, refs, deathReg, down, up, sm, table, deadRecipients,
                   recipients, inMsgs, changes, getter, getterRefs,
                   pending, nextCookie, txCookie, reading>>


\* GetService: the entry for the name, or BadValue.
LookupService(n) == IF n \in DOMAIN services THEN services[n] ELSE BadValue

\* HandleContextObjectMessage -> OnTransact(GetServiceTransaction or
\* CheckServiceTransaction): GetService, then WriteObject writes the
\* stored RemoteObject's handle into the reply, which reaches the getter.
\* (services_ never holds a null object: the DeadObject return is dead code.)
GetServiceTransaction ==
    LET t == Head(strandQ) IN
    /\ sm.pc = "idle"
    /\ strandQ # <<>>
    /\ t.kind = "Get"
    /\ strandQ' = Tail(strandQ)
    /\ getter' = [getter EXCEPT !.reply = LookupService(t.name)]
    /\ UNCHANGED <<handle, refs, deathReg, down, up, sm, table, deadRecipients,
                   recipients, inMsgs, lister, getterRefs, changes,
                   pending, nextCookie, txCookie, reading>>

\* ServiceManagerService::AddService, once AddReference returned (its
\* status is ignored).  A taken name returns BadValue and the RemoteObject
\* is destroyed, its release closure calling ReleaseReference; otherwise
\* the service is inserted, at a place in the iteration order the
\* unordered_map chooses, and LinkToDeath calls RequestDeathNotification,
\* which records the proxy in dead_recipients_ before it waits.
AddService ==
    LET p == sm.proc IN
    /\ sm.pc = "acquire"
    /\ sm.reply # NoReply
    /\ IF sm.name \in DOMAIN services
       THEN /\ StrandCall("Release", p)
            /\ sm' = [sm EXCEPT !.pc = "release", !.reply = NoReply]
            /\ UNCHANGED <<table, deadRecipients, changes>>
       ELSE /\ \E i \in 1..Len(table) + 1 :
                 table' = InsertAt(table, i, [name |-> sm.name, proc |-> p])
            /\ changes' = changes + 1
            /\ StrandCall("RequestDeath", p)
            /\ deadRecipients' = deadRecipients \cup {p}
            /\ sm' = [sm EXCEPT !.pc = "link", !.reply = NoReply]
    /\ UNCHANGED <<handle, refs, deathReg, down, strandQ, recipients, inMsgs, lister, getter,
                   getterRefs, txCookie, reading>>

\* LinkToDeath after RequestDeathNotification returned: the death handler
\* is pushed to obituaries_ if the status is OK.  AddService returns OK.
FinishLink ==
    /\ sm.pc = "link"
    /\ sm.reply # NoReply
    /\ recipients' = IF sm.reply = "OK" THEN [recipients EXCEPT ![sm.proc] = @ + 1]
                     ELSE recipients
    /\ sm' = Idle
    /\ UNCHANGED <<handle, refs, deathReg, down, up, strandQ, table, deadRecipients,
                   inMsgs, lister, getter, getterRefs, changes,
                   pending, nextCookie, txCookie, reading>>

\* The release closure returned; OnTransact returns BadValue.
FinishRelease ==
    /\ sm.pc = "release"
    /\ sm.reply # NoReply
    /\ sm' = Idle
    /\ UNCHANGED <<handle, refs, deathReg, down, up, strandQ, table, deadRecipients,
                   recipients, inMsgs, lister, getter, getterRefs, changes,
                   pending, nextCookie, txCookie, reading>>

\* Seeded-bug variant of OnObjectDied: the entry's object is reset
\* instead of the entry being erased.
OnObjectDiedReset(p) ==
    [i \in 1..Len(table) |-> IF table[i].proc = p THEN [table[i] EXCEPT !.proc = NoProc]
                             ELSE table[i]]

\* Seeded-bug variant of OnObjectDied: the loop erases the first entry
\* without comparing its object with the one that died.
OnObjectDiedFirst(p) == Tail(table)

\* ServiceManagerService::OnObjectDied: the first entry in iteration
\* order whose object is the dead proxy is erased, and the loop breaks.
OnObjectDied(p) == RemoveFirstMatch(table, LAMBDA e : e.proc = p)

\* A pool worker's ProcessAndExecuteCommand on a DeadBinder: the proxy
\* found in dead_recipients_ gets SendObituary, where every death handler
\* pushed so far runs OnObjectDied; the entry leaves dead_recipients_.
\* (The proxy's release closure then targets a dead handle and changes
\* nothing.  The SendStatus that acknowledges the DeadBinder carries its
\* cookie 0; how the broker routes it is Broker's OnReply.)
ExecuteDeadBinder ==
    LET p == Head(inMsgs).proc IN
    /\ inMsgs # <<>>
    /\ Head(inMsgs).type = "DeadBinder"
    /\ inMsgs' = Tail(inMsgs)
    /\ table' = IF p \in deadRecipients /\ recipients[p] > 0
                THEN OnObjectDied(p) ELSE table
    /\ changes' = IF table' = table THEN changes ELSE changes + 1
    /\ deadRecipients' = deadRecipients \ {p}
    /\ UNCHANGED <<handle, refs, deathReg, down, up, strandQ, sm, recipients, lister, getter,
                   getterRefs, pending, nextCookie, txCookie, reading>>

\* A pool worker's ProcessAndExecuteCommand on a Status whose call had
\* already left pending_calls_: the default case drops it.
ExecuteStatus ==
    /\ inMsgs # <<>>
    /\ Head(inMsgs).type = "Status"
    /\ inMsgs' = Tail(inMsgs)
    /\ UNCHANGED <<handle, refs, deathReg, down, up, strandQ, sm, table, deadRecipients,
                   recipients, lister, getter, getterRefs, changes, pending, nextCookie,
                   txCookie, reading>>

SMNext ==
    \/ \E p \in Proc : AddServiceCall(p) \/ SessionTerminate(p)
    \/ ListServicesCall \/ ListServicesReply
    \/ GetServiceCall \/ GetServiceReply \/ GetterAcquire \/ GetterRelease
    \/ BrokerReceive
    \/ OnNewMessage
    \/ StartAddService \/ ListServicesTransaction \/ GetServiceTransaction
    \/ AddService \/ FinishLink \/ FinishRelease \/ StrandFinishCall
    \/ ExecuteDeadBinder \/ ExecuteStatus

\* The broker, the endpoint's I/O threads, its strand and its pool keep
\* running; processes need not register, list or exit.
SMSpec ==
    /\ SMInit /\ [][SMNext]_vars
    /\ WF_vars(BrokerReceive) /\ WF_vars(OnNewMessage)
    /\ WF_vars(StartAddService \/ ListServicesTransaction \/ GetServiceTransaction
               \/ AddService \/ FinishLink \/ FinishRelease \/ StrandFinishCall)
    /\ WF_vars(ExecuteDeadBinder \/ ExecuteStatus)

-----------------------------------------------------------------------------
(* Properties                                                              *)

Registered(n, p) == n \in DOMAIN services /\ services[n] = p

SMTypeOK ==
    /\ handle \in [Proc -> {"none", "live", "dead"}]
    /\ refs \subseteq Proc /\ deathReg \subseteq Proc /\ deadRecipients \subseteq Proc
    /\ table \in Seq([name : Name, proc : Proc])
    /\ recipients \in [Proc -> Nat]
    /\ sm.pc \in {"idle", "acquire", "link", "release"}
    /\ lister.pc \in {"idle", "wait", "done"}
    /\ getter.pc \in {"idle", "wait", "acquire", "hold", "released", "done"}
    /\ getterRefs \subseteq Proc
    /\ DOMAIN pending \subseteq 0..(nextCookie - 1)
    /\ \A c \in DOMAIN pending : pending[c] \in {"waiting", "resolved"}
    /\ txCookie \in Nat /\ reading \in BOOLEAN

\* The service manager implements ServiceTable: mapping each process's
\* handle to its status and services_ to the table, every step is a step
\* of the abstract specification or leaves it unchanged.  AddService only
\* fills a free name for a process that sent AddService, no entry is
\* replaced, and OnObjectDied only drops the entry of an exited process.
Abstract == INSTANCE ServiceTable WITH
    status <- [p \in Proc |-> CASE handle[p] = "none" -> "idle"
                                [] handle[p] = "live" -> "offering"
                                [] OTHER -> "exited"],
    registered <- services,
    answer <- getter.reply

SMImplementsServiceTable == Abstract!TableSpec

\* A ListServices walk that no AddService or OnObjectDied overlapped
\* returns every registered name exactly once: the index protocol (one
\* transaction per index, BadValue at the end) over an unchanged
\* unordered_map neither skips nor repeats a name.
StableWalkListsEveryService ==
    [][lister.pc = "wait" /\ lister'.pc = "done" /\ changes = lister.since =>
         /\ Len(lister.got) = Cardinality(DOMAIN services)
         /\ ToSet(lister.got) = DOMAIN services]_vars

\* Every call the strand makes to the broker (AddReference,
\* ReleaseReference, RequestDeathNotification) is answered, so the
\* context object's OnTransact returns and the strand takes the next
\* transaction: the broker answers requests even for dead handles.  The
\* endpoint's reader stopping on a cookie collision (a second set_value
\* in OnNewMessage) ends every call and is set aside.
StrandCallsReturn == sm.pc # "idle" ~> (sm.pc = "idle" \/ ~reading)

\* The service manager forgets a service whose process has gone: once
\* p's handle is dead, the name it registered is eventually erased
\* (OnObjectDied, reached through the DeadBinder and SendObituary), so
\* GetService stops handing out a dead object.
DeadServicesForgotten ==
    \A n \in Name, p \in Proc :
        Registered(n, p) /\ handle[p] = "dead" ~> ~Registered(n, p)

=============================================================================
