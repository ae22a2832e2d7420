---------------------------- MODULE SocketWriter ----------------------------
(***************************************************************************)
(* The write path of SocketMessenger (socket_messenger.cpp).              *)
(*                                                                         *)
(* WriteData appends a packed message to write_queue_ and starts a write  *)
(* only when the queue was empty; OnMessageSent, the completion handler   *)
(* of asio::async_write wrapped in write_strand_, pops the written        *)
(* message and starts the next one.  write_queue_ is a plain std::deque   *)
(* with no lock: WriteData runs on whichever thread calls it, and         *)
(* OnMessageSent on an io thread.  write_strand_ only keeps two           *)
(* OnMessageSent handlers apart.                                           *)
(*                                                                         *)
(* Each deque call (push_back, size, front, pop_front) is one step, so    *)
(* the model only has the interleavings in which those calls do not       *)
(* overlap; overlapping calls on a std::deque are undefined.  A front()   *)
(* or pop_front() on an empty deque is undefined too: the thread stops in *)
(* pc "undefined".                                                         *)
(*                                                                         *)
(* The broker runs every handler on one io thread (ServerImpl::Run), so   *)
(* there Thread = IoThread = one thread.  A ClientImpl calls WriteData    *)
(* from the application thread (Transact), the strand and its io threads. *)
(***************************************************************************)
EXTENDS Integers, Sequences, SequencesExt

CONSTANTS Thread,     \* threads that call WriteData
          IoThread,   \* threads that run asio handlers, OnMessageSent included
          Msg         \* the packed messages written, each by one WriteData call

ASSUME IoThread \subseteq Thread

VARIABLES writeQueue,  \* write_queue_
          pc,          \* where each thread is in WriteData / OnMessageSent
          inflight,    \* messages of started async_writes, not yet done
          completions, \* results of finished async_writes, handler not yet run
          wire,        \* what the peer reads, in order
          pushed,      \* the messages in the order WriteData queued them (ghost)
          exit,        \* exit_ (SocketMessenger::Close)
          closed,      \* the socket was shut down and closed by OnMessageSent
          broken       \* the peer went away: writes fail

vars == <<writeQueue, pc, inflight, completions, wire, pushed, exit, closed, broken>>

\* The labels of OnMessageSent; write_strand_ admits one thread at a time.
HandlerPc == {"ms_check", "ms_next", "ms_exit"}

Pc == {"idle", "wd_check", "wd_next", "undefined"} \cup HandlerPc

WriterInit ==
    /\ writeQueue = <<>>
    /\ pc = [t \in Thread |-> "idle"]
    /\ inflight = <<>>
    /\ completions = <<>>
    /\ wire = <<>>
    /\ pushed = <<>>
    /\ exit = FALSE
    /\ closed = FALSE
    /\ broken = FALSE

\* WriteData(data): write_queue_.push_back(data).
WriteData(t) ==
    /\ pc[t] = "idle"
    /\ \E m \in Msg \ ToSet(pushed) :
         /\ writeQueue' = Append(writeQueue, m)
         /\ pushed' = Append(pushed, m)
    /\ pc' = [pc EXCEPT ![t] = "wd_check"]
    /\ UNCHANGED <<inflight, completions, wire, exit, closed, broken>>

WriteDataCheckFirstLate(t) ==
    /\ pc[t] = "wd_check"
    /\ pc' = [pc EXCEPT ![t] = IF Len(writeQueue) > 2 THEN "idle" ELSE "wd_next"]
    /\ UNCHANGED <<writeQueue, inflight, completions, wire, pushed, exit, closed, broken>>

\* if (write_queue_.size() > 1) return; WriteNext();
WriteDataCheckFirst(t) ==
    /\ pc[t] = "wd_check"
    /\ pc' = [pc EXCEPT ![t] = IF Len(writeQueue) > 1 THEN "idle" ELSE "wd_next"]
    /\ UNCHANGED <<writeQueue, inflight, completions, wire, pushed, exit, closed, broken>>

\* WriteNext: unless exit_, frame write_queue_.front() and start an
\* async_write of the copy.  Called from WriteData and OnMessageSent;
\* front() on an empty write_queue_ is undefined.
WriteNext(t) ==
    /\ pc[t] \in {"wd_next", "ms_next"}
    /\ LET after == IF pc[t] = "wd_next" THEN "idle" ELSE "ms_exit" IN
       CASE exit ->
              /\ pc' = [pc EXCEPT ![t] = after]
              /\ UNCHANGED inflight
         [] writeQueue = <<>> ->
              /\ pc' = [pc EXCEPT ![t] = "undefined"]
              /\ UNCHANGED inflight
         [] OTHER ->
              /\ inflight' = Append(inflight, Head(writeQueue))
              /\ pc' = [pc EXCEPT ![t] = after]
    /\ UNCHANGED <<writeQueue, completions, wire, pushed, exit, closed, broken>>

\* One started async_write finishes.  Two writes outstanding at once may
\* reach the socket in either order.  On a closed or broken socket the
\* write fails (bad_descriptor, broken pipe).
WriteDone ==
    /\ inflight # <<>>
    /\ \E i \in 1..Len(inflight) :
         /\ inflight' = RemoveAt(inflight, i)
         /\ IF closed \/ broken
            THEN /\ completions' = Append(completions, "error")
                 /\ UNCHANGED wire
            ELSE /\ completions' = Append(completions, "ok")
                 /\ wire' = Append(wire, inflight[i])
    /\ UNCHANGED <<writeQueue, pc, pushed, exit, closed, broken>>

\* An io thread runs the next OnMessageSent through write_strand_.
StrandFree == \A u \in Thread : pc[u] \notin HandlerPc

\* OnMessageSent(err) with err set: return, leaving write_queue_ as it is.
OnMessageSentError(t) ==
    /\ t \in IoThread
    /\ pc[t] = "idle"
    /\ StrandFree
    /\ completions # <<>>
    /\ Head(completions) = "error"
    /\ completions' = Tail(completions)
    /\ UNCHANGED <<writeQueue, pc, inflight, wire, pushed, exit, closed, broken>>

\* OnMessageSent without error: write_queue_.pop_front().
OnMessageSent(t) ==
    /\ t \in IoThread
    /\ pc[t] = "idle"
    /\ StrandFree
    /\ completions # <<>>
    /\ Head(completions) = "ok"
    /\ completions' = Tail(completions)
    /\ IF writeQueue = <<>>
       THEN /\ pc' = [pc EXCEPT ![t] = "undefined"]
            /\ UNCHANGED writeQueue
       ELSE /\ writeQueue' = Tail(writeQueue)
            /\ pc' = [pc EXCEPT ![t] = "ms_check"]
    /\ UNCHANGED <<inflight, wire, pushed, exit, closed, broken>>

OnMessageSentCheckMoreAlways(t) ==
    /\ pc[t] = "ms_check"
    /\ pc' = [pc EXCEPT ![t] = IF Len(writeQueue) >= 0 THEN "ms_next" ELSE "ms_exit"]
    /\ UNCHANGED <<writeQueue, inflight, completions, wire, pushed, exit, closed, broken>>

OnMessageSentCheckMoreNever(t) ==
    /\ pc[t] = "ms_check"
    /\ pc' = [pc EXCEPT ![t] = "ms_exit"]
    /\ UNCHANGED <<writeQueue, inflight, completions, wire, pushed, exit, closed, broken>>

\* if (write_queue_.size() > 0) WriteNext();
OnMessageSentCheckMore(t) ==
    /\ pc[t] = "ms_check"
    /\ pc' = [pc EXCEPT ![t] = IF Len(writeQueue) > 0 THEN "ms_next" ELSE "ms_exit"]
    /\ UNCHANGED <<writeQueue, inflight, completions, wire, pushed, exit, closed, broken>>

\* if (exit_) { socket_.shutdown(...); socket_.close(); }
OnMessageSentExit(t) ==
    /\ pc[t] = "ms_exit"
    /\ closed' = (closed \/ exit)
    /\ pc' = [pc EXCEPT ![t] = "idle"]
    /\ UNCHANGED <<writeQueue, inflight, completions, wire, pushed, exit, broken>>

\* SocketMessenger::Close (ServerSession::Terminate, ClientImpl::Terminate).
\* Flush, called before it by ServerSession::Terminate, is empty.  A
\* thread calls it between two calls of its own.
Close(t) ==
    /\ pc[t] = "idle"
    /\ ~exit
    /\ exit' = TRUE
    /\ UNCHANGED <<writeQueue, pc, inflight, completions, wire, pushed, closed, broken>>

\* The peer closes its end; every later write fails.
PeerGone ==
    /\ ~broken
    /\ broken' = TRUE
    /\ UNCHANGED <<writeQueue, pc, inflight, completions, wire, pushed, exit, closed>>

ThreadStep(t) ==
    \/ WriteDataCheckFirst(t) \/ WriteNext(t)
    \/ OnMessageSentError(t) \/ OnMessageSent(t)
    \/ OnMessageSentCheckMore(t) \/ OnMessageSentExit(t)

WriterNext ==
    \/ \E t \in Thread : WriteData(t) \/ ThreadStep(t) \/ Close(t)
    \/ WriteDone
    \/ PeerGone

\* Threads that are inside WriteData or have a handler to run keep going,
\* and the kernel finishes every started write.  Callers of WriteData,
\* Close and the peer are not obliged to act.
WriterSpec == WriterInit /\ [][WriterNext]_vars
                         /\ \A t \in Thread : WF_vars(ThreadStep(t))
                         /\ WF_vars(WriteDone)

-----------------------------------------------------------------------------
(* Properties                                                              *)

\* The peer reads the queued messages in the order WriteData queued them,
\* each once and none skipped: what WriteData's "start a write only if
\* the queue was empty" and OnMessageSent's pop-then-continue promise.
FramesWrittenInOrder == IsPrefix(wire, pushed)

\* No thread calls front() or pop_front() on an empty write_queue_.
QueueNeverAccessedEmpty == \A t \in Thread : pc[t] # "undefined"

\* Every queued message reaches the peer unless the messenger was closed
\* or the peer went away: no WriteData leaves its message in write_queue_
\* with no write outstanding to carry it on.
QueuedFramesWritten ==
    \A m \in Msg : m \in ToSet(pushed) ~> (m \in ToSet(wire) \/ exit \/ broken)

=============================================================================
