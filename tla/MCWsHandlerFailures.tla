------------------------- MODULE MCWsHandlerFailures -------------------------
(* The instance of WsHandler that TLC checks about a connection's failures. *)
EXTENDS WsHandlerFailures, TLC

CONSTANTS c1, c2, i1
MCIpOf == [c \in Conn |-> i1]
=============================================================================
