---------------------------- MODULE ServerFront ----------------------------
(***************************************************************************)
(* The protocol-sniffing server (run_server and handle_connection) on top  *)
(* of Startup: browsers dial the port, the accept loop hands each to a     *)
(* task of its own, and the task looks at the bytes that have arrived to   *)
(* tell TLS from plain HTTP.                                               *)
(***************************************************************************)
EXTENDS Startup

CONSTANTS TlsClient, HttpClient   \* who dials: with a ClientHello, or in plain text
ASSUME FrontAssumption == TlsClient \cap HttpClient = {}

VARIABLES conn,     \* each client's connection
          arrived   \* how many of its first two bytes have arrived

Client == TlsClient \cup HttpClient
frontVars == <<conn, arrived>>
vars == <<startVars, frontVars>>

\* The argument that run_server calls enable_tls: main passes enable_upnp.
EnableTls == config.upnp

FrontInit ==
    /\ Init
    /\ conn = [c \in Client |-> "away"] /\ arrived = [c \in Client |-> 0]
----------------------------------------------------------------------------
Dial(c) ==
    /\ At("serve") /\ conn[c] = "away"
    /\ conn' = [conn EXCEPT ![c] = "dialled"]
    /\ UNCHANGED <<startVars, arrived>>

\* The network delivers the first bytes one at a time.
Deliver(c) ==
    /\ conn[c] \in {"dialled", "open"} /\ arrived[c] < 2
    /\ arrived' = [arrived EXCEPT ![c] = @ + 1]
    /\ UNCHANGED <<startVars, conn>>

Gone(c) ==
    /\ conn' = [conn EXCEPT ![c] = "away"]
    /\ arrived' = [arrived EXCEPT ![c] = 0]
    /\ UNCHANGED startVars

BugAccept(c) ==
    /\ At("serve") /\ conn[c] = "dialled"
    /\ \A d \in Client : conn[d] # "open"
    /\ conn' = [conn EXCEPT ![c] = "open"]
    /\ UNCHANGED <<startVars, arrived>>

\* The accept loop spawns a task for every connection and goes on.
Accept(c) ==
    /\ At("serve") /\ conn[c] = "dialled"
    /\ conn' = [conn EXCEPT ![c] = "open"]
    /\ UNCHANGED <<startVars, arrived>>

\* An accept that fails is logged; the loop goes on.
AcceptFails(c) == At("serve") /\ conn[c] = "dialled" /\ Gone(c)

\* peek returns 0 bytes: the client closed without a word.
HangUp(c) == conn[c] = "open" /\ arrived[c] = 0 /\ Gone(c)

IsClientHello(c) == c \in TlsClient /\ arrived[c] >= 2

\* peek returns what has arrived, one byte at least.
Sniff(c) ==
    /\ conn[c] = "open" /\ arrived[c] > 0
    /\ conn' = [conn EXCEPT ![c] =
           IF IsClientHello(c)
           THEN IF acceptor THEN "tls" ELSE "closed"
           ELSE IF EnableTls THEN "redirected" ELSE "plain"]
    /\ UNCHANGED <<startVars, arrived>>

Answer == {"tls", "closed", "redirected", "plain"}

\* The answer is sent and the connection ends.
Finish(c) == conn[c] \in Answer /\ Gone(c)

\* All connections end with the process.
HangUpAll ==
    /\ conn' = [c \in Client |-> "away"]
    /\ arrived' = [c \in Client |-> 0]

Next ==
    \/ Edit /\ UNCHANGED frontVars
    \/ Start /\ UNCHANGED frontVars
    \/ Load /\ UNCHANGED frontVars
    \/ CreateDefault /\ UNCHANGED frontVars
    \/ LoadFails /\ UNCHANGED frontVars
    \/ MigrateTls /\ UNCHANGED frontVars
    \/ MigratePort /\ UNCHANGED frontVars
    \/ Truncate /\ UNCHANGED frontVars
    \/ WriteOut /\ UNCHANGED frontVars
    \/ SaveFails /\ UNCHANGED frontVars
    \/ Override /\ UNCHANGED frontVars
    \/ HashConfig /\ UNCHANGED frontVars
    \/ NewMapper /\ UNCHANGED frontVars
    \/ BuildTlsAcceptor /\ UNCHANGED frontVars
    \/ Probe /\ UNCHANGED frontVars
    \/ Listen /\ UNCHANGED frontVars
    \/ BindFails /\ UNCHANGED frontVars
    \/ CtrlC /\ HangUpAll
    \/ Crash /\ HangUpAll
    \/ \E c \in Client : \/ Dial(c) \/ Deliver(c) \/ Accept(c) \/ AcceptFails(c)
                         \/ HangUp(c) \/ Sniff(c) \/ Finish(c)

Spec == FrontInit /\ [][Next]_vars

\* The runtime runs every task that can go on: the accept loop, and the task
\* of a connection whose bytes have arrived.
FairSpec == Spec /\ \A c \in Client : WF_vars(Accept(c)) /\ WF_vars(Sniff(c))
----------------------------------------------------------------------------
TypeOK ==
    /\ StartTypeOK
    /\ conn \in [Client -> {"away", "dialled", "open"} \cup Answer]
    /\ arrived \in [Client -> 0..2]

(***************************************************************************)
(* A client that has sent something gets its answer, as long as the        *)
(* process runs and the client stays: a peer that connects and says        *)
(* nothing (peek waits for it without a limit) holds up nobody else.       *)
(***************************************************************************)
ClientAnswered ==
    \A c \in Client :
        (conn[c] \in {"dialled", "open"} /\ arrived[c] > 0) ~>
            (conn[c] \notin {"dialled", "open"})

(***************************************************************************)
(* server.rs:119 says of plain HTTP: redirected with 301 if TLS is         *)
(* enabled, else served.  The answer follows enable_upnp instead.          *)
(***************************************************************************)
RedirectsIfTls ==
    \A c \in HttpClient :
        /\ conn[c] = "redirected" => config.tls
        /\ conn[c] = "plain" => ~config.tls
=============================================================================
