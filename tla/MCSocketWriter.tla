--------------------------- MODULE MCSocketWriter ---------------------------
(***************************************************************************)
(* SocketWriter instantiated for TLC: three messages, enough for one to   *)
(* be in flight, one queued behind it and one queued while OnMessageSent *)
(* pops.  The thread sets are those of the broker (one io thread) and of *)
(* a ClientImpl (an application thread and an io thread).                 *)
(***************************************************************************)
EXTENDS SocketWriter

CONSTANTS io, app, m1, m2, m3

=============================================================================
