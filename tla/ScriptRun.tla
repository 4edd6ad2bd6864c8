----------------------------- MODULE ScriptRun ------------------------------
(***************************************************************************)
(* What one client run promises to the author of a script, in the terms of *)
(* src/README.md: the requests of the file reach the server in that order, *)
(* each once, the session is closed normally only when the server has them *)
(* all, and then nothing more is sent.  How far a run gets, and with which *)
(* status it ends, is up to the network and the server.                    *)
(***************************************************************************)
EXTENDS Naturals, Sequences

CONSTANT Requests     \* the numbers of the requests to send, 1 to some n

VARIABLES
    delivered,        \* the requests the server has been sent, in order
    closed,           \* the server has been sent the end of the session
    result            \* "running", or the exit status

run == <<delivered, closed, result>>

Init == delivered = <<>> /\ closed = FALSE /\ result = "running"

Deliver ==
    /\ result = "running" /\ ~closed
    /\ Len(delivered) + 1 \in Requests
    /\ delivered' = Append(delivered, Len(delivered) + 1)
    /\ UNCHANGED <<closed, result>>

Close ==
    /\ result = "running" /\ ~closed
    /\ \A k \in Requests : k <= Len(delivered)
    /\ closed' = TRUE
    /\ UNCHANGED <<delivered, result>>

Finish ==
    /\ result = "running"
    /\ result' \in {"success", "failure"}
    /\ UNCHANGED <<delivered, closed>>

Next == Deliver \/ Close \/ Finish

Spec == Init /\ [][Next]_run

=============================================================================
