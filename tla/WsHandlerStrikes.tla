-------------------------- MODULE WsHandlerStrikes --------------------------
(***************************************************************************)
(* WsHandler with a history variable: how many wrong passwords each slot   *)
(* got in, without a login, since its address reached max_auth_failures.   *)
(* The history only watches; it restricts no step of WsHandler.            *)
(***************************************************************************)
EXTENDS WsHandler

VARIABLE strikes

\* This step records a wrong password of c (only AuthFails takes this way).
Failed(c) == pc[c] = "loop" /\ pc'[c] = "checkMax"

RecordStrikes ==
    strikes' = [c \in Conn |->
        IF ~ShouldDisconnect(IpOf[c])' THEN 0
        ELSE IF Failed(c) /\ ShouldDisconnect(IpOf[c]) /\ ~authenticated[c] /\ strikes[c] < 2
               THEN strikes[c] + 1
        ELSE strikes[c]]

StrikesSpec ==
    /\ Init /\ strikes = [c \in Conn |-> 0]
    /\ [][Next /\ RecordStrikes]_<<vars, strikes>>

\* Once an address has reached max_auth_failures, a slot gets at most one more
\* wrong password in, over all the requests it makes without a login, until
\* the address is forgotten: requests are refused at the door, and those that
\* were already in are closed at their next failure.
OneStrikeWhenLocked == \A c \in Conn : strikes[c] <= 1
=============================================================================
