-------------------------- MODULE WsHandlerFailures --------------------------
(***************************************************************************)
(* WsHandler with a history variable: how many wrong passwords the         *)
(* connection that a slot serves has sent so far.  The history only        *)
(* watches; it restricts no step of WsHandler.                             *)
(***************************************************************************)
EXTENDS WsHandler

VARIABLE ownFailures

RecordFailures ==
    ownFailures' = [c \in Conn |->
        IF pc'[c] = "idle" THEN 0
        ELSE IF pc[c] = "loop" /\ pc'[c] = "checkMax" /\ ownFailures[c] <= MaxFailures
               THEN ownFailures[c] + 1
        ELSE ownFailures[c]]

FailuresSpec ==
    /\ Init /\ ownFailures = [c \in Conn |-> 0]
    /\ [][Next /\ RecordFailures]_<<vars, ownFailures>>

\* max_auth_failures is "the number of authentication failures of one
\* connection after which it is closed" (config.rs:34, README.md:162): a
\* connection that is closed for wrong passwords has sent that many itself.
ClosedForOwnFailures ==
    [][\A c \in Conn : pc[c] = "checkMax" /\ pc'[c] = "sendClose"
                          => ownFailures[c] >= MaxFailures]_<<vars, ownFailures>>
=============================================================================
