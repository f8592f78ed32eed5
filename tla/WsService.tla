------------------------------ MODULE WsService ------------------------------
(***************************************************************************)
(* What the /ws endpoint promises, without permits, tokens or tasks: how   *)
(* many connections it serves, how many of them nobody has logged in, and  *)
(* that only a connection that is logged in ever drives a controller.      *)
(***************************************************************************)
EXTENDS Naturals, FiniteSets

CONSTANTS Conn, MaxTotal, MaxUnauth

VARIABLES
    open,     \* connections that are served
    players,  \* those that are logged in
    driving   \* those that have a virtual controller

svars == <<open, players, driving>>

Init == open = {} /\ players = {} /\ driving = {}

\* A connection is opened, perhaps logged in at once by an earlier session.
Open(c) ==
    /\ c \notin open
    /\ open' = open \cup {c}
    /\ players' \in {players, players \cup {c}}
    /\ Cardinality(open') <= MaxTotal
    /\ Cardinality(open' \ players') <= MaxUnauth
    /\ UNCHANGED driving

Login(c) ==
    /\ c \in open \ players
    /\ players' = players \cup {c}
    /\ UNCHANGED <<open, driving>>

PlugIn(c) ==
    /\ c \in players \ driving
    /\ driving' = driving \cup {c}
    /\ UNCHANGED <<open, players>>

Unplug(c) ==
    /\ c \in driving
    /\ driving' = driving \ {c}
    /\ UNCHANGED <<open, players>>

\* Only a connection whose controller is gone ends.
Close(c) ==
    /\ c \in open \ driving
    /\ open' = open \ {c}
    /\ players' = players \ {c}
    /\ UNCHANGED driving

Next == \E c \in Conn : Open(c) \/ Login(c) \/ PlugIn(c) \/ Unplug(c) \/ Close(c)

Spec == Init /\ [][Next]_svars
=============================================================================
