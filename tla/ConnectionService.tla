------------------------- MODULE ConnectionService -------------------------
(***************************************************************************)
(* What the HTTP layer of QRInspectorServer promises about every TCP       *)
(* connection, whatever number of threads serves it: a connection is       *)
(* admitted or refused, a complete request that was received is answered   *)
(* on the connection it came from, and the server hangs up only when it    *)
(* owes no answer and has nothing left to send, unless the client is gone  *)
(* or the server is being stopped.                                         *)
(*                                                                         *)
(* HttpPool implements this specification (see HttpPoolRefinement).        *)
(***************************************************************************)
CONSTANT Connections

VARIABLES
    up,       \* TRUE until the service is told to stop
    status,   \* status[c]: how far connection c has come
    left,     \* left[c]: the client of c has closed its end
    owed,     \* owed[c]: a complete request of c awaits its answer
    outbox    \* outbox[c]: bytes of an answer to c are not sent yet

vars == <<up, status, left, owed, outbox>>

Status == {"away", "backlog", "accepted", "refused", "closed", "dropped"}

TypeOK ==
    /\ up \in BOOLEAN
    /\ status \in [Connections -> Status]
    /\ left \in [Connections -> BOOLEAN]
    /\ owed \in [Connections -> BOOLEAN]
    /\ outbox \in [Connections -> BOOLEAN]

Init ==
    /\ up = TRUE
    /\ status = [c \in Connections |-> "away"]
    /\ left = [c \in Connections |-> FALSE]
    /\ owed = [c \in Connections |-> FALSE]
    /\ outbox = [c \in Connections |-> FALSE]

Move(c, from, to) ==
    /\ status[c] = from
    /\ status' = [status EXCEPT ![c] = to]

Connect(c) ==
    /\ up
    /\ Move(c, "away", "backlog")
    /\ UNCHANGED <<up, left, owed, outbox>>

Admit(c) ==
    /\ Move(c, "backlog", "accepted")
    /\ UNCHANGED <<up, left, owed, outbox>>

\* Refused (503) or dropped without a word: only before anything was received.
TurnAway(c) ==
    /\ Move(c, "accepted", "refused") \/ Move(c, "accepted", "dropped")
    /\ ~owed[c] /\ ~outbox[c]
    /\ UNCHANGED <<up, left, owed, outbox>>

Receive(c) ==
    /\ status[c] = "accepted" /\ ~owed[c]
    /\ owed' = [owed EXCEPT ![c] = TRUE]
    /\ UNCHANGED <<up, status, left, outbox>>

Answer(c) ==
    /\ status[c] = "accepted" /\ owed[c]
    /\ owed' = [owed EXCEPT ![c] = FALSE]
    /\ outbox' = [outbox EXCEPT ![c] = ~left[c]]
    /\ UNCHANGED <<up, status, left>>

\* The error answer to a request that was too large: nothing was owed.
Object(c) ==
    /\ status[c] = "accepted" /\ ~owed[c]
    /\ outbox' = [outbox EXCEPT ![c] = ~left[c]]
    /\ UNCHANGED <<up, status, left, owed>>

Transmit(c) ==
    /\ outbox[c]
    /\ outbox' = [outbox EXCEPT ![c] = FALSE]
    /\ UNCHANGED <<up, status, left, owed>>

Leave(c) ==
    /\ status[c] \in {"backlog", "accepted"}
    /\ left' = [left EXCEPT ![c] = TRUE]
    /\ outbox' = [outbox EXCEPT ![c] = FALSE]
    /\ UNCHANGED <<up, status, owed>>

\* The client is gone: whatever was owed is forgotten.
Lose(c) ==
    /\ left[c]
    /\ Move(c, "accepted", "closed")
    /\ owed' = [owed EXCEPT ![c] = FALSE]
    /\ UNCHANGED <<up, left, outbox>>

HangUp(c) ==
    /\ Move(c, "accepted", "closed")
    /\ ~owed[c]
    /\ outbox[c] => ~up
    /\ UNCHANGED <<up, left, owed, outbox>>

Shutdown ==
    /\ up
    /\ up' = FALSE
    /\ UNCHANGED <<status, left, owed, outbox>>

Next ==
    \/ Shutdown
    \/ \E c \in Connections :
         \/ Connect(c) \/ Admit(c) \/ TurnAway(c)
         \/ Receive(c) \/ Answer(c) \/ Object(c) \/ Transmit(c)
         \/ Leave(c) \/ Lose(c) \/ HangUp(c)

Spec == Init /\ [][Next]_vars
=============================================================================
