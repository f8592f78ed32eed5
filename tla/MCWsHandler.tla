----------------------------- MODULE MCWsHandler -----------------------------
(* The instances of WsHandler that TLC checks for liveness and resuming. *)
EXTENDS WsHandler, TLC

CONSTANTS c1, c2, c3, i1
MCIpOf == [c \in Conn |-> i1]
=============================================================================
