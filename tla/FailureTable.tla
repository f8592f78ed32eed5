--------------------------- MODULE FailureTable ---------------------------
(***************************************************************************)
(* What a reader of IpBackoffManager may rely on, with time left out and   *)
(* nothing said of how an entry is stored: failures are never lost but by  *)
(* a login or by the entry's own expiry, and an expired entry does not     *)
(* outlive the next failure of any address.  SocketClock, where time       *)
(* passes, implements it.                                                  *)
(***************************************************************************)
EXTENDS Naturals

CONSTANT IP
VARIABLES ipFailures,    \* failures counted against each address
          aged           \* addresses whose entry has expired

table == <<ipFailures, aged>>

TableInit == ipFailures = [i \in IP |-> 0] /\ aged = {}

\* Any other address keeps its failures, or has expired and is forgotten.
Fail(ip) ==
    /\ ipFailures' \in [IP -> Nat]
    /\ ipFailures'[ip] = ipFailures[ip] + 1
    /\ \A i \in IP \ {ip} : \/ ipFailures'[i] = ipFailures[i]
                            \/ ipFailures'[i] = 0 /\ i \in aged
    /\ aged' = {}

\* A login forgets its own address only.
Reset(ip) ==
    /\ ipFailures' = [ipFailures EXCEPT ![ip] = 0]
    /\ aged' = aged \ {ip}

\* Entries expire, alone or together, and are still counted.
Expire ==
    /\ aged \subseteq aged' /\ aged' \subseteq {i \in IP : ipFailures[i] > 0}
    /\ UNCHANGED ipFailures

TableNext == (\E ip \in IP : Fail(ip) \/ Reset(ip)) \/ Expire

TableSpec == TableInit /\ [][TableNext]_table
=============================================================================
