--------------------------- MODULE MCReceiveBuffer ---------------------------
(* ReceiveBuffer with two pool workers. *)
EXTENDS ReceiveBuffer

CONSTANTS w1, w2

=============================================================================
