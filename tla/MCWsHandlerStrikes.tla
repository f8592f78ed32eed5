------------------------- MODULE MCWsHandlerStrikes -------------------------
(* The instance of WsHandler that TLC checks for safety. *)
EXTENDS WsHandlerStrikes, TLC

CONSTANTS c1, c2, c3, i1, i2

\* Two slots behind one address, the others behind another.
MCIpOf == [c \in Conn |-> IF c \in {c1, c2} THEN i1 ELSE i2]

\* Tokens and ControllerIds are only compared with each other, and the two slots
\* of one address are alike.
MCSymmetry == Permutations({c1, c2}) \cup Permutations(Token) \cup Permutations(Controller)
=============================================================================
