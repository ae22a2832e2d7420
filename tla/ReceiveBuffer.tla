---------------------------- MODULE ReceiveBuffer ----------------------------
(***************************************************************************)
(* An endpoint's receive path and the memory a received message's payload *)
(* lives in.                                                               *)
(*                                                                         *)
(* SocketMessenger keeps one body buffer (body_) per connection and reads *)
(* every frame into it, after body_->Resize(body_size), a realloc that    *)
(* may or may not move the block.  MessageParser / Message::Unpack give   *)
(* each envelope a payload made by BinaryReader::ReadData, which is      *)
(* Buffer::Create(current, size): an immutable buffer pointing into       *)
(* body_, not a copy.                                                      *)
(*                                                                         *)
(* ClientImpl::OnNewMessage queues a Transaction in in_messages_, wakes a *)
(* pool worker (can_read_.notify_one) and calls ReadNextMessage, which    *)
(* reads the next frame into body_.  A worker's DequeueMessage takes the  *)
(* message; TransactionDataFromMessage reads it, ProcessTransaction(In)   *)
(* rewrites its object cookies in place, and the object's Transact reads  *)
(* the data.                                                               *)
(*                                                                         *)
(* body_'s content is abstracted to which frame's bytes it holds, whether *)
(* a worker's in-place translation has been applied to them, and whether *)
(* they were overwritten by a translation meant for another frame.  A     *)
(* payload is a block id: memory of a block realloc has moved away from  *)
(* is freed, and what a read of it returns is undefined: the old bytes or *)
(* anything (Garbage).                                                     *)
(***************************************************************************)
EXTENDS Integers, Sequences, FiniteSets

CONSTANTS Worker,      \* pool threads (ClientImpl::StartThreadPool)
          MaxFrames    \* frames the peer sends

VARIABLES body,       \* body_: [block, content]
          nextBlock,  \* block id the next moving realloc returns
          rd,         \* the read handler: "read" (a read is armed) or "parse"
          frames,     \* frames received so far (ghost: frame i has id i)
          queue,      \* in_messages_: [frame, block] per message
          wk,         \* each worker: [pc, msg]
          handled     \* handlers run: [frame, seen] (ghost)

vars == <<body, nextBlock, rd, frames, queue, wk, handled>>

\* Bytes of frame f, translated in place or not, overwritten or not.
Content(f, translated, corrupt) == [frame |-> f, translated |-> translated, corrupt |-> corrupt]

\* What a read of freed memory may return.
Garbage == Content(0, FALSE, TRUE)

NoMsg == [frame |-> 0, block |-> 0]

ReceiveInit ==
    /\ body = [block |-> 1, content |-> Content(0, FALSE, FALSE)]
    /\ nextBlock = 2
    /\ rd = "read"
    /\ frames = 0
    /\ queue = <<>>
    /\ wk = [w \in Worker |-> [pc |-> "idle", msg |-> NoMsg]]
    /\ handled = {}

-----------------------------------------------------------------------------
(* The read handler (asio thread)                                          *)

\* ReadMessageAsync completes: body_->Resize(body_size) (realloc keeps or
\* moves the block) and the frame's bytes are read into body_.
ReadFrame ==
    /\ rd = "read"
    /\ frames < MaxFrames
    /\ \E moved \in BOOLEAN :
         /\ body' = [block |-> IF moved THEN nextBlock ELSE body.block,
                     content |-> Content(frames + 1, FALSE, FALSE)]
         /\ nextBlock' = IF moved THEN nextBlock + 1 ELSE nextBlock
    /\ frames' = frames + 1
    /\ rd' = "parse"
    /\ UNCHANGED <<queue, wk, handled>>

\* Seeded-bug variant of OnNewMessage: the message is queued without
\* can_read_.notify_one().
OnNewMessageNoNotify ==
    /\ rd = "parse"
    /\ queue' = Append(queue, [frame |-> frames, block |-> body.block])
    /\ rd' = "read"
    /\ UNCHANGED <<body, nextBlock, frames, wk, handled>>

\* OnNewMessage: parser.Next() yields the Transaction, whose payload is
\* an alias of body_; it is pushed on in_messages_ with one waiting worker
\* woken (notify_one), and ReadNextMessage re-arms the read.
OnNewMessage ==
    LET waiting == {w \in Worker : wk[w].pc = "waiting"} IN
    /\ rd = "parse"
    /\ queue' = Append(queue, [frame |-> frames, block |-> body.block])
    /\ IF waiting = {} THEN UNCHANGED wk
       ELSE \E w \in waiting : wk' = [wk EXCEPT ![w].pc = "idle"]
    /\ rd' = "read"
    /\ UNCHANGED <<body, nextBlock, frames, handled>>

-----------------------------------------------------------------------------
(* Pool workers: ProcessAndExecuteCommand                                  *)

\* DequeueMessage: under read_lock_, take the front message, or wait on
\* can_read_ while in_messages_ is empty.
DequeueMessage(w) ==
    /\ wk[w].pc = "idle"
    /\ IF queue = <<>>
       THEN /\ wk' = [wk EXCEPT ![w].pc = "waiting"]
            /\ UNCHANGED queue
       ELSE /\ wk' = [wk EXCEPT ![w] = [pc |-> "translate", msg |-> Head(queue)]]
            /\ queue' = Tail(queue)
    /\ UNCHANGED <<body, nextBlock, rd, frames, handled>>

\* TransactionDataFromMessage and ProcessTransaction(In): the cookies of
\* the payload's objects are rewritten where the payload lies.  If the
\* block is still body_'s, the write lands in whatever frame body_ holds
\* now; a write to a freed block changes nothing body_ holds.
TranslateInPlace(w) ==
    LET m == wk[w].msg IN
    /\ wk[w].pc = "translate"
    /\ body' = IF m.block # body.block THEN body
               ELSE IF body.content.frame = m.frame
               THEN [body EXCEPT !.content.translated = TRUE]
               ELSE [body EXCEPT !.content.corrupt = TRUE]
    /\ wk' = [wk EXCEPT ![w].pc = "execute"]
    /\ UNCHANGED <<nextBlock, rd, frames, queue, handled>>

\* The object's Transact reads the payload: body_'s bytes if the block is
\* still body_'s, the old bytes or anything if it was freed.
Execute(w) ==
    LET m == wk[w].msg IN
    /\ wk[w].pc = "execute"
    /\ \E seen \in IF m.block = body.block THEN {body.content}
                   ELSE {Content(m.frame, TRUE, FALSE), Garbage} :
          handled' = handled \cup {[frame |-> m.frame, seen |-> seen]}
    /\ wk' = [wk EXCEPT ![w] = [pc |-> "idle", msg |-> NoMsg]]
    /\ UNCHANGED <<body, nextBlock, rd, frames, queue>>

ReceiveNext ==
    \/ ReadFrame
    \/ OnNewMessage
    \/ \E w \in Worker : DequeueMessage(w) \/ TranslateInPlace(w) \/ Execute(w)

\* The asio thread runs the read handler and the pool threads keep
\* running ProcessAndExecuteCommand; the peer need not send anything.
ReceiveSpec ==
    /\ ReceiveInit /\ [][ReceiveNext]_vars
    /\ WF_vars(OnNewMessage)
    /\ \A w \in Worker : WF_vars(DequeueMessage(w) \/ TranslateInPlace(w) \/ Execute(w))

-----------------------------------------------------------------------------
(* Properties                                                              *)

\* The handler of a transaction reads the payload its frame carried, with
\* its own object cookies translated: not the bytes of a later frame read
\* into body_ meanwhile, not freed memory, and not bytes another worker's
\* in-place translation overwrote.
HandlersReadTheirFrame ==
    \A h \in handled : h.seen = Content(h.frame, TRUE, FALSE)

\* Every frame that arrived is eventually handled by a pool worker: a
\* queued message never sits in in_messages_ while all workers wait on
\* can_read_.
FramesEventuallyHandled ==
    \A f \in 1..MaxFrames : f <= frames ~> \E h \in handled : h.frame = f

=============================================================================
