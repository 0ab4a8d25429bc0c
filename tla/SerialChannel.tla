---------------------------- MODULE SerialChannel ----------------------------
(***************************************************************************)
(* What a lock around an exchange promises: a shared channel serves one    *)
(* request at a time, so that the replies on it need no name.  Only who is *)
(* between a request and the end of its wait is visible here; ToolServer   *)
(* shows that the locks of the transports implement it.                    *)
(***************************************************************************)
EXTENDS Naturals

CONSTANT Users

VARIABLE talking  \* who is between a request and the end of its wait for it

Init == talking = {}

\* The channel is free: somebody takes it with a request.
Take(u) == talking = {} /\ talking' = {u}

\* The reply came, or the wait for it is over.
Release(u) == u \in talking /\ talking' = talking \ {u}

Next == \E u \in Users : Take(u) \/ Release(u)

Spec == Init /\ [][Next]_talking
=============================================================================
