----------------------------- MODULE RpcPromise -----------------------------
(***************************************************************************)
(* What a caller of the b-CAP client library may rely on, whatever the     *)
(* network does: a call that comes back with the answer of the remote      *)
(* function was really performed by the server, and the answer is the one  *)
(* of this very call.  Nothing is promised about how often it was          *)
(* performed, and a call that comes back with a communication error may or *)
(* may not have been performed, possibly later.                            *)
(***************************************************************************)
EXTENDS Naturals

CONSTANT Clients    \* the users of the client library

VARIABLES
    current,    \* the call a client made last (0: none yet)
    waiting,    \* the clients blocked in a call
    performed,  \* the calls <<client, call>> the server has performed
    outcome     \* what the last call came back with: "none", "answer", "error"

vars == <<current, waiting, performed, outcome>>

Init ==
    /\ current = [c \in Clients |-> 0]
    /\ waiting = {}
    /\ performed = {}
    /\ outcome = [c \in Clients |-> "none"]

\* A call gets a number larger than those before it.
Invoke(c) ==
    /\ c \notin waiting
    /\ current' \in [Clients -> Nat]
    /\ \A d \in Clients : IF d = c THEN current'[d] > current[d]
                                   ELSE current'[d] = current[d]
    /\ waiting' = waiting \cup {c}
    /\ outcome' = [outcome EXCEPT ![c] = "none"]
    /\ UNCHANGED performed

\* The server performs a call that was made: the current one, or one whose
\* caller has already given up.
Perform(c) ==
    /\ \E n \in 1..current[c] : performed' = performed \cup {<<c, n>>}
    /\ UNCHANGED <<current, waiting, outcome>>

Answer(c) ==
    /\ c \in waiting
    /\ <<c, current[c]>> \in performed
    /\ outcome' = [outcome EXCEPT ![c] = "answer"]
    /\ waiting' = waiting \ {c}
    /\ UNCHANGED <<current, performed>>

GiveUp(c) ==
    /\ c \in waiting
    /\ outcome' = [outcome EXCEPT ![c] = "error"]
    /\ waiting' = waiting \ {c}
    /\ UNCHANGED <<current, performed>>

Next == \E c \in Clients : Invoke(c) \/ Perform(c) \/ Answer(c) \/ GiveUp(c)

Spec == Init /\ [][Next]_vars
=============================================================================
