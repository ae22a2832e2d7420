------------------------------ MODULE MCBinder ------------------------------
(***************************************************************************)
(* Binder instantiated for TLC: two endpoints c1 and c2 and the           *)
(* application scripts the runs use.                                       *)
(***************************************************************************)
EXTENDS Binder, TLC

CONSTANTS c1, c2

AnyCall == {"Transact", "Acquire", "Release", "Link", "Unlink",
            "BecomeContextManager", "BecomeMonitor"}

\* Each endpoint makes any one call.
FreeScript == [c \in Client |-> <<AnyCall>>]

\* c2 serves as the context manager and watches an object c1 hands it.
DeathScript == (c1 :> <<{"Transact"}>>) @@
               (c2 :> <<{"BecomeContextManager"}, {"Acquire"}, {"Link"}, {"Unlink", "Release"}>>)

\* c1 hands its object to the context manager c2 and waits for the
\* answer; c2 calls that object twice.
CallbackScript == (c1 :> <<{"Transact"}>>) @@
                  (c2 :> <<{"BecomeContextManager"}, {"Transact"}, {"Transact"}>>)

\* c2 becomes the context manager and makes no other call; c1 transacts
\* with it.  No call of c2 waits while a transaction is forwarded to it.
HangScript == (c1 :> <<{"Transact"}>>) @@ (c2 :> <<{"BecomeContextManager"}>>)

Symmetry == Permutations(Client)

=============================================================================
