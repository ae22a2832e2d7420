------------------------------- MODULE Binder -------------------------------
(***************************************************************************)
(* The whole system: the broker (Broker) and its endpoints (Client),     *)
(* connected by per-client ordered streams up[c] (client to session) and  *)
(* down[c] (session to client).  Each endpoint's application runs a      *)
(* script: its i-th call is any call of the set Script[c][i], with any    *)
(* arguments.  Everything else (the broker's handlers, the endpoints'     *)
(* read paths, strands and pools, process exits) is unconstrained.        *)
(***************************************************************************)
EXTENDS BinderMessages, Naturals, Sequences, SequencesExt

CONSTANTS MaxHandle,
          Script     \* Client -> sequence of sets of call names (Client!CallOp)

VARIABLES
    up, down, open,
    active, nextTrCookie, pendingTr, objects, deathNotif,
    contextMgr, monitor, handles, references, nextObjectHandle,
    shouldExit, reading, nextCookie, pending, strand, inMsgs, ctxObj,
    xlate, nextObjectId, deadRecipients, proxy, obitSent, linked, notified,
    app, known,
    step       \* step[c]: calls of its script endpoint c has started

B == INSTANCE Broker
C == INSTANCE Client

chanVars == <<up, down, open>>
brokerVars == <<active, nextTrCookie, pendingTr, objects, deathNotif,
                contextMgr, monitor, handles, references, nextObjectHandle>>
clientVars == <<shouldExit, reading, nextCookie, pending, strand, inMsgs, ctxObj,
                xlate, nextObjectId, deadRecipients, proxy, obitSent, linked,
                notified, app, known>>
vars == <<chanVars, brokerVars, clientVars, step>>

Init ==
    /\ up = [c \in Client |-> <<>>]
    /\ down = [c \in Client |-> <<>>]
    /\ open = [c \in Client |-> TRUE]
    /\ B!BrokerInit
    /\ C!ClientInit
    /\ step = [c \in Client |-> 0]

BrokerStep ==
    /\ B!BrokerNext
    /\ UNCHANGED <<clientVars, step>>

AppCall(c) ==
    /\ step[c] < Len(Script[c])
    /\ \E op \in Script[c][step[c] + 1] : C!StartCall(c, op)
    /\ step' = [step EXCEPT ![c] = @ + 1]
    /\ UNCHANGED brokerVars

EndpointStep(c) ==
    /\ C!Progress(c)
    /\ UNCHANGED <<brokerVars, step>>

Exit(c) ==
    /\ C!Exit(c)
    /\ UNCHANGED <<brokerVars, step>>

Next ==
    \/ BrokerStep
    \/ \E c \in Client : AppCall(c) \/ EndpointStep(c) \/ Exit(c)

\* The broker's I/O workers keep draining completions and every endpoint's
\* reader, strand and pool threads keep running; applications and process
\* exits are not forced.
Spec == Init /\ [][Next]_vars /\ WF_vars(BrokerStep)
                              /\ \A c \in Client : WF_vars(EndpointStep(c))

-----------------------------------------------------------------------------
(* Properties                                                              *)

\* The application thread's call is resolved by the answer to that call:
\* the message OnNewMessage hands to a waiting promise (matched on the
\* cookie alone) answers the request the application sent with that
\* cookie.  A message that carries the same cookie for another reason (a
\* transaction the broker forwards with its own cookie counter, a
\* DeadBinder with cookie 0) must not complete the call.
CallResolvedByItsAnswer ==
    \A c \in Client :
        app[c].value # C!NoMsg => app[c].value.re = <<c, app[c].cookie>>

\* The object id a session keeps for a death notification
\* (death_notifications_) names, in its endpoint's ObjectTranslator, that
\* endpoint's RemoteObject for the same handle, so that the DeadBinder
\* carrying it reaches the proxy's recipients.  The id is made by
\* RequestDeathNotification, carried in the message and stored by
\* OnDeathNotification; it stays valid until ClearDeathNotification.
DeathRegistrationsNameTheProxy ==
    \A s \in Client : \A h \in DOMAIN deathNotif[s] :
        LET id == deathNotif[s][h] IN
        id \in DOMAIN xlate[s] /\ xlate[s][id] = ProxyAddress(h)

CallsReturn ==
    \A c \in Client : app[c].op \in C!CallOp ~>
            (app[c].op \notin C!CallOp \/ shouldExit[c] \/ \E d \in Client : ~reading[d])

=============================================================================
