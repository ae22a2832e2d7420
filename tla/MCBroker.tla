------------------------------ MODULE MCBroker ------------------------------
(***************************************************************************)
(* The broker against an environment of endpoints that may send any      *)
(* request a ClientImpl can send, naming the context manager or a handle  *)
(* learned from a forwarded transaction, and answer what the broker       *)
(* delivers to them the way ClientImpl does: a TransactionReply (with no   *)
(* object) or an UnknownTransaction Status echoing a forwarded            *)
(* transaction's cookie, and a Status echoing a DeadBinder's cookie.  A   *)
(* reply carrying a handle, which OnReply forwards untranslated and which  *)
(* can hand an endpoint its own object's handle, is left out (see the     *)
(* README).  Each endpoint sends at most MaxSends messages and may close  *)
(* its connection at any time.                                             *)
(***************************************************************************)
EXTENDS Broker

CONSTANTS MaxSends

VARIABLES peerCookie,  \* the endpoint's next request cookie
          inbox,       \* transactions and obituaries received, not yet answered
          known,       \* handles learned from delivered Handle descriptors
          budget       \* requests left, for all endpoints together

envVars == <<peerCookie, inbox, known, budget>>
vars == <<chanVars, brokerVars, envVars>>

\* The requests endpoint c can write with cookie ck, naming the context
\* manager or a handle it has learned.  Its only local object has opaque id
\* 1 in its ObjectTranslator.
Requests(c, ck) ==
    {PlainMsg(t, ck) : t \in {"SetContextMgr", "SetMonitor", "Version"}}
    \cup {TxMsg("Transaction", ck, d, TrData(0, o, "none"), <<c, ck>>) :
            d \in {ContextManagerHandle} \cup known[c],
            o \in {NoObj, Obj("Binder", 1, 0, c)}
                  \cup {Obj("Handle", 0, h, NoClient) : h \in known[c]}}
    \cup {RefMsg(t, ck, h) : t \in {"Acquire", "Release"}, h \in known[c]}
    \cup {DeathMsg(t, ck, h, 1) : t \in {"RequestDeathNotification",
                                        "ClearDeathNotification"},
                                   h \in known[c]}

\* What ClientImpl writes back for a message it received.
Answers(m) ==
    IF m.type = "Transaction"
    THEN {TxMsg("TransactionReply", m.cookie, 0, TrData(0, NoObj, "OK"), m.re),
          StatusMsg(m.cookie, "UnknownTransaction", m.re)}
    ELSE {StatusMsg(m.cookie, st, m.re) : st \in {"OK", "DeadObject"}}

Init ==
    /\ up = [c \in Client |-> <<>>]
    /\ down = [c \in Client |-> <<>>]
    /\ open = [c \in Client |-> TRUE]
    /\ BrokerInit
    /\ peerCookie = [c \in Client |-> 0]
    /\ inbox = [c \in Client |-> {}]
    /\ known = [c \in Client |-> {}]
    /\ budget = MaxSends

PeerRequest(c) ==
    /\ open[c]
    /\ budget > 0
    /\ \E m \in Requests(c, peerCookie[c]) : up' = [up EXCEPT ![c] = Append(@, m)]
    /\ peerCookie' = [peerCookie EXCEPT ![c] = @ + 1]
    /\ budget' = budget - 1
    /\ UNCHANGED <<down, open, brokerVars, inbox, known>>

PeerAnswer(c) ==
    /\ open[c]
    /\ \E m \in inbox[c] : \E a \in Answers(m) :
         /\ up' = [up EXCEPT ![c] = Append(@, a)]
         /\ inbox' = [inbox EXCEPT ![c] = @ \ {m}]
    /\ UNCHANGED <<down, open, brokerVars, peerCookie, known, budget>>

PeerReceive(c) ==
    /\ open[c]
    /\ down[c] # <<>>
    /\ down' = [down EXCEPT ![c] = Tail(@)]
    /\ inbox' = IF Head(down[c]).type \in {"Transaction", "DeadBinder"}
                THEN [inbox EXCEPT ![c] = @ \cup {Head(down[c])}]
                ELSE inbox
    /\ known' = IF Head(down[c]).tr.obj.type = "Handle"
                THEN [known EXCEPT ![c] = @ \cup {Head(down[c]).tr.obj.handle}]
                ELSE known
    /\ UNCHANGED <<up, open, brokerVars, peerCookie, budget>>

\* The endpoint process exits; what it had not read is gone.
PeerClose(c) ==
    /\ open[c]
    /\ open' = [open EXCEPT ![c] = FALSE]
    /\ down' = [down EXCEPT ![c] = <<>>]
    /\ inbox' = [inbox EXCEPT ![c] = {}]
    /\ UNCHANGED <<up, brokerVars, peerCookie, known, budget>>

Environment ==
    \E c \in Client : PeerRequest(c) \/ PeerAnswer(c) \/ PeerReceive(c) \/ PeerClose(c)

Next ==
    \/ BrokerNext /\ UNCHANGED envVars
    \/ Environment

\* Every session handler is weakly fair: the broker's I/O workers keep
\* draining completions.  The endpoints are not.
Spec == Init /\ [][Next]_vars /\ WF_vars(BrokerNext /\ UNCHANGED envVars)

Symmetry == Permutations(Client)

=============================================================================
