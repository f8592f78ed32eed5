--------------------------- MODULE MCSocketClock ---------------------------
\* Two connections of one address and one of another.
EXTENDS SocketClock, TLC

CONSTANTS c1, c2, c3, i1, i2
MCConn == {c1, c2, c3}
MCIpOf == (c1 :> i1) @@ (c2 :> i1) @@ (c3 :> i2)
SameAddress == Permutations({c1, c2})
=============================================================================
