------------------------------ MODULE ConnLife ------------------------------
(* What a program that uses a websocketpp server sees of one connection: the    *)
(* state its own calls find it in and the handlers that are called for it.       *)
(* Either open or fail is called for an attempt, never both; close is called     *)
(* once for a connection that was opened and for no other, when it can no longer *)
(* send (connection.hpp, lines 52-83).  An attempt is decided and a closing       *)
(* handshake ends whatever the peer does, since both are timed.                  *)
VARIABLE conn   \* "none", "trying", "failed"; "open", "closing", "closed", and
                \* "gone" once the close handler was called

(* What a connection may be next.                                              *)
Becomes == [none    |-> {"trying"},
            trying  |-> {"open", "failed"},
            failed  |-> {},
            open    |-> {"closing", "closed"},
            closing |-> {"closed"},
            closed  |-> {"gone"},
            gone    |-> {}]

Init == conn = "none"

Step(from) == conn = from /\ conn' \in Becomes[from]
Next == \E from \in DOMAIN Becomes : Step(from)

Spec == /\ Init /\ [][Next]_conn
        /\ \A from \in {"trying", "closing", "closed"} : WF_conn(Step(from))
=============================================================================
