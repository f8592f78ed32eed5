------------------------------ MODULE WsHandler ------------------------------
(***************************************************************************)
(* The /ws endpoint of WebPad: ws_upgrade admits a request against the     *)
(* two connection semaphores, handle_socket then owns the connection until *)
(* it ends, and handle_auth_request logs it in (src/web/handler.rs).  The  *)
(* requests run on a multi-threaded runtime and share, under one lock or   *)
(* one atomic each,                                                        *)
(*   - the session tokens of AuthManager            (sessions),            *)
(*   - the failures per address of IpBackoffManager (ipFailures, aged),    *)
(*   - the permits of ConnectionLimiter             (totalFree, unauthFree)*)
(*   - the controllers of GamepadManager            (controllers).         *)
(* An action is the code of one task from one access to that shared state  *)
(* up to the next one, so every interleaving of the accesses is explored.  *)
(* A message to the client is part of the action that follows its send:    *)
(* the action waits until the client has taken the message.                *)
(*                                                                         *)
(* A request that validate_origin refuses, and a message that handle_socket*)
(* ignores, change nothing here: they are stuttering steps.                *)
(***************************************************************************)
EXTENDS Integers, FiniteSets

CONSTANTS
    Conn,         \* connection slots; a slot serves one request after another
    IP,           \* client addresses
    IpOf,         \* the address each slot's requests come from
    Token,        \* session tokens
    Controller,   \* ControllerIds
    MaxTotal,     \* Config::max_connections
    MaxUnauth,    \* Config::max_unauth_connections
    MaxFailures,  \* Config::max_auth_failures
    None          \* Option::None

ASSUME ConnAssumption == IsFiniteSet(Conn) /\ IpOf \in [Conn -> IP]
ASSUME LimitAssumption ==
    MaxTotal \in Nat /\ MaxUnauth \in Nat /\ MaxFailures \in Nat
ASSUME NoneAssumption == None \notin Token /\ None \notin Controller

VARIABLES
    pc,            \* where the request of each slot is
    authenticated, \* `authenticated` of handle_socket
    wasAuth,       \* `was_authenticated`, while a password is handled
    token,         \* `pre_auth_token` of ws_upgrade, then `session_token`
    unauthPermit,  \* is `unauth_permit` Some(_)?
    controllerId,  \* `controller_id` of handle_socket
    sessions,      \* AuthManager::sessions
    ipFailures,    \* `failures` of each address, 0 without an entry
    aged,          \* addresses whose entry retain() would drop now
    totalFree,     \* available permits of ConnectionLimiter::total
    unauthFree,    \* available permits of ConnectionLimiter::unauth
    controllers    \* keys of GamepadManager::controllers

locals == <<authenticated, wasAuth, token, unauthPermit, controllerId>>
failureTable == <<ipFailures, aged>>
permits == <<totalFree, unauthFree>>
vars == <<pc, locals, sessions, failureTable, permits, controllers>>

-----------------------------------------------------------------------------
(* The places at which a task can be preempted. *)

UpgradePlaces == {"checkIp", "acquireTotal", "acquireUnauth", "upgrade", "abandon"}
LoopPlaces == {"loop", "removeOld", "newSession", "sendSuccess",
               "checkMax", "backoff", "update"}
CleanupPlaces == {"sendClose", "destroy", "removeSession", "dropUnauth"}
\* Inside handle_socket.
SocketPlaces == {"create"} \cup LoopPlaces \cup CleanupPlaces
Places == {"idle", "dropTotal"} \cup UpgradePlaces \cup SocketPlaces

\* Where `total_permit` is owned.
HoldingPlaces == SocketPlaces \cup {"acquireUnauth", "upgrade", "dropTotal"}

\* The counter saturates one above the limit: nothing tells larger values apart.
FailureCount == 0 .. MaxFailures + 1

TypeOK ==
    /\ pc \in [Conn -> Places]
    /\ authenticated \in [Conn -> BOOLEAN]
    /\ wasAuth \in [Conn -> BOOLEAN]
    /\ token \in [Conn -> Token \cup {None}]
    /\ unauthPermit \in [Conn -> BOOLEAN]
    /\ controllerId \in [Conn -> Controller \cup {None}]
    /\ sessions \subseteq Token
    /\ ipFailures \in [IP -> FailureCount]
    /\ aged \subseteq IP
    /\ totalFree \in Nat
    /\ unauthFree \in Nat
    /\ controllers \subseteq Controller

Init ==
    /\ pc = [c \in Conn |-> "idle"]
    /\ authenticated = [c \in Conn |-> FALSE]
    /\ wasAuth = [c \in Conn |-> FALSE]
    /\ token = [c \in Conn |-> None]
    /\ unauthPermit = [c \in Conn |-> FALSE]
    /\ controllerId = [c \in Conn |-> None]
    /\ sessions = {}
    /\ ipFailures = [i \in IP |-> 0]
    /\ aged = {}
    /\ totalFree = MaxTotal
    /\ unauthFree = MaxUnauth
    /\ controllers = {}

-----------------------------------------------------------------------------
(* Names.  generate_token draws 32 random bytes and next_id counts up, so a *)
(* new token or id differs from every one in use.  A name nothing refers to *)
(* any more may be used again: no step can tell it from a new one.          *)

FreshTokens == Token \ (sessions \cup {token[c] : c \in Conn})
FreshIds == Controller \ (controllers \cup {controllerId[c] : c \in Conn})

GoTo(c, from, to) ==
    /\ pc[c] = from
    /\ pc' = [pc EXCEPT ![c] = to]

\* IpBackoffManager::should_disconnect
ShouldDisconnect(ip) == ipFailures[ip] > 0 /\ ipFailures[ip] >= MaxFailures

-----------------------------------------------------------------------------
(* ws_upgrade and acquire_connection_permits *)

\* A request arrives with the token t of its query string; validate_token
\* knows no empty token and every token of `sessions`.
ValidateToken(c, t) ==
    /\ IF t \in sessions
         THEN GoTo(c, "idle", "acquireTotal") /\ token' = [token EXCEPT ![c] = t]
         ELSE GoTo(c, "idle", "checkIp") /\ UNCHANGED token
    /\ UNCHANGED <<authenticated, wasAuth, unauthPermit, controllerId,
                   sessions, failureTable, permits, controllers>>

\* Mutant: the failure table is not consulted at the door.
BugNoDoorCheck(c) ==
    /\ GoTo(c, "checkIp", "acquireTotal")
    /\ UNCHANGED <<locals, sessions, failureTable, permits, controllers>>

\* Without a token, an address with too many failures gets 403.
CheckIp(c) ==
    /\ GoTo(c, "checkIp", IF ShouldDisconnect(IpOf[c]) THEN "idle" ELSE "acquireTotal")
    /\ UNCHANGED <<locals, sessions, failureTable, permits, controllers>>

\* Mutant: the result of try_acquire_total is not looked at.
BugAcquireUnchecked(c) ==
    /\ GoTo(c, "acquireTotal", IF token[c] = None THEN "acquireUnauth" ELSE "upgrade")
    /\ totalFree' = totalFree - 1
    /\ UNCHANGED <<locals, sessions, failureTable, unauthFree, controllers>>

AcquireTotal(c) ==
    /\ totalFree > 0
    /\ GoTo(c, "acquireTotal", IF token[c] = None THEN "acquireUnauth" ELSE "upgrade")
    /\ totalFree' = totalFree - 1
    /\ UNCHANGED <<locals, sessions, failureTable, unauthFree, controllers>>

\* Mutant: a request waits for a total permit, as acquire().await would.
BugRefuseWaits(c) == c \notin Conn /\ UNCHANGED vars

\* 503: all total permits are taken.  A validated token is forgotten.
RefuseTotal(c) ==
    /\ totalFree = 0
    /\ GoTo(c, "acquireTotal", "idle")
    /\ token' = [token EXCEPT ![c] = None]
    /\ UNCHANGED <<authenticated, wasAuth, unauthPermit, controllerId,
                   sessions, failureTable, permits, controllers>>

AcquireUnauth(c) ==
    /\ unauthFree > 0
    /\ GoTo(c, "acquireUnauth", "upgrade")
    /\ unauthFree' = unauthFree - 1
    /\ unauthPermit' = [unauthPermit EXCEPT ![c] = TRUE]
    /\ UNCHANGED <<authenticated, wasAuth, token, controllerId,
                   sessions, failureTable, totalFree, controllers>>

\* Mutants: the refusal forgets the total permit, or lets the request in.
BugRefuseKeepsTotal(c) ==
    /\ unauthFree = 0
    /\ GoTo(c, "acquireUnauth", "idle")
    /\ UNCHANGED <<locals, sessions, failureTable, permits, controllers>>
BugRefuseLetsIn(c) ==
    /\ unauthFree = 0
    /\ GoTo(c, "acquireUnauth", "upgrade")
    /\ UNCHANGED <<locals, sessions, failureTable, permits, controllers>>

\* 503: all unauthenticated permits are taken; drop(total_permit) follows.
RefuseUnauth(c) ==
    /\ unauthFree = 0
    /\ GoTo(c, "acquireUnauth", "dropTotal")
    /\ UNCHANGED <<locals, sessions, failureTable, permits, controllers>>

\* The protocol switch fails: the on_upgrade closure is dropped uncalled, and
\* with it the values it captured, total_permit before unauth_permit.
UpgradeFails(c) ==
    /\ GoTo(c, "upgrade", "abandon")
    /\ totalFree' = totalFree + 1
    /\ token' = [token EXCEPT ![c] = None]
    /\ UNCHANGED <<authenticated, wasAuth, unauthPermit, controllerId,
                   sessions, failureTable, unauthFree, controllers>>

\* Gives back unauth_permit if it is Some, as take() and drop do.
ReleaseUnauth(c) ==
    /\ unauthFree' = IF unauthPermit[c] THEN unauthFree + 1 ELSE unauthFree
    /\ unauthPermit' = [unauthPermit EXCEPT ![c] = FALSE]

Abandon(c) ==
    /\ GoTo(c, "abandon", "idle")
    /\ ReleaseUnauth(c)
    /\ UNCHANGED <<authenticated, wasAuth, token, controllerId,
                   sessions, failureTable, totalFree, controllers>>

-----------------------------------------------------------------------------
(* handle_socket up to its loop *)

\* Mutant: the controller is created before anybody logs in.
BugStrangerDrives(c) ==
    /\ GoTo(c, "upgrade", "create")
    /\ authenticated' = [authenticated EXCEPT ![c] = token[c] # None]
    /\ UNCHANGED <<wasAuth, token, unauthPermit, controllerId,
                   sessions, failureTable, permits, controllers>>

\* A connection with a valid token starts authenticated.
StartSocket(c) ==
    /\ GoTo(c, "upgrade", IF token[c] = None THEN "loop" ELSE "create")
    /\ authenticated' = [authenticated EXCEPT ![c] = token[c] # None]
    /\ IF token[c] = None
         THEN UNCHANGED <<unauthPermit, unauthFree>>
         ELSE ReleaseUnauth(c)
    /\ UNCHANGED <<wasAuth, token, controllerId,
                   sessions, failureTable, totalFree, controllers>>

\* GamepadManager::create_controller, with the messages that follow it.
CreateController(c) ==
    /\ GoTo(c, "create", "loop")
    /\ \E id \in FreshIds :
         /\ controllers' = controllers \cup {id}
         /\ controllerId' = [controllerId EXCEPT ![c] = id]
    /\ UNCHANGED <<authenticated, wasAuth, token, unauthPermit,
                   sessions, failureTable, permits>>

\* No driver (or not Windows), or a driver error: the connection goes on
\* without a controller.
CreateFails(c) ==
    /\ GoTo(c, "create", "loop")
    /\ UNCHANGED <<locals, sessions, failureTable, permits, controllers>>

-----------------------------------------------------------------------------
(* AuthRequest: handle_auth_request and what follows its return *)

\* verify_password succeeds; reset_ip forgets the failures of the address.
AuthSucceeds(c) ==
    /\ GoTo(c, "loop", "removeOld")
    /\ wasAuth' = [wasAuth EXCEPT ![c] = authenticated[c]]
    /\ ipFailures' = [ipFailures EXCEPT ![IpOf[c]] = 0]
    /\ aged' = aged \ {IpOf[c]}
    /\ UNCHANGED <<authenticated, token, unauthPermit, controllerId,
                   sessions, permits, controllers>>

\* Mutant: the old token is taken but its session is not removed.
BugOldSessionStays(c) ==
    /\ GoTo(c, "removeOld", "newSession")
    /\ token' = [token EXCEPT ![c] = None]
    /\ UNCHANGED <<authenticated, wasAuth, unauthPermit, controllerId,
                   sessions, failureTable, permits, controllers>>

\* session_token.take() and remove_session
RemoveOldSession(c) ==
    /\ GoTo(c, "removeOld", "newSession")
    /\ sessions' = sessions \ {token[c]}
    /\ token' = [token EXCEPT ![c] = None]
    /\ UNCHANGED <<authenticated, wasAuth, unauthPermit, controllerId,
                   failureTable, permits, controllers>>

\* Mutant: *authenticated = true is missing.
BugLoginForgotten(c) ==
    /\ GoTo(c, "newSession", "sendSuccess")
    /\ \E t \in FreshTokens :
         /\ sessions' = sessions \cup {t}
         /\ token' = [token EXCEPT ![c] = t]
    /\ UNCHANGED <<authenticated, wasAuth, unauthPermit, controllerId,
                   failureTable, permits, controllers>>

CreateSession(c) ==
    /\ GoTo(c, "newSession", "sendSuccess")
    /\ \E t \in FreshTokens :
         /\ sessions' = sessions \cup {t}
         /\ token' = [token EXCEPT ![c] = t]
    /\ authenticated' = [authenticated EXCEPT ![c] = TRUE]
    /\ UNCHANGED <<wasAuth, unauthPermit, controllerId,
                   failureTable, permits, controllers>>

\* Mutant: unauth_permit.take() is missing.
BugPermitKept(c) ==
    LET first == ~wasAuth[c] /\ controllerId[c] = None IN
    /\ GoTo(c, "sendSuccess", IF first THEN "create" ELSE "loop")
    /\ wasAuth' = [wasAuth EXCEPT ![c] = FALSE]
    /\ UNCHANGED <<authenticated, token, unauthPermit, controllerId,
                   sessions, failureTable, permits, controllers>>

\* AuthSuccess is sent; the first success of a connection then gives back the
\* unauthenticated permit and goes on to create the controller.
SendAuthSuccess(c) ==
    LET first == ~wasAuth[c] /\ controllerId[c] = None IN
    /\ GoTo(c, "sendSuccess", IF first THEN "create" ELSE "loop")
    /\ IF first THEN ReleaseUnauth(c) ELSE UNCHANGED <<unauthPermit, unauthFree>>
    /\ wasAuth' = [wasAuth EXCEPT ![c] = FALSE]
    /\ UNCHANGED <<authenticated, token, controllerId,
                   sessions, failureTable, totalFree, controllers>>

\* verify_password fails; record_failure counts it and then drops the entries
\* of the other addresses that have expired.
AuthFails(c) ==
    LET ip == IpOf[c]
        counted == IF ipFailures[ip] > MaxFailures
                     THEN ipFailures[ip] ELSE ipFailures[ip] + 1
    IN
    /\ GoTo(c, "loop", "checkMax")
    /\ ipFailures' = [i \in IP |-> IF i = ip THEN counted
                                   ELSE IF i \in aged THEN 0 ELSE ipFailures[i]]
    /\ aged' = {}
    /\ UNCHANGED <<locals, sessions, permits, controllers>>

\* The second look at the failure table decides between closing and waiting.
CheckMax(c) ==
    /\ GoTo(c, "checkMax", IF ShouldDisconnect(IpOf[c]) THEN "sendClose" ELSE "backoff")
    /\ UNCHANGED <<locals, sessions, failureTable, permits, controllers>>

\* AuthFailure is sent and sleep(backoff) ends.
Backoff(c) ==
    /\ GoTo(c, "backoff", "loop")
    /\ UNCHANGED <<locals, sessions, failureTable, permits, controllers>>

-----------------------------------------------------------------------------
(* The other events of the loop, and the end of the connection *)

\* A GamepadState of an authenticated connection that passes the rate limit:
\* the loop waits for GamepadManager::update_state.
StartUpdate(c) ==
    /\ authenticated[c]
    /\ controllerId[c] # None
    /\ GoTo(c, "loop", "update")
    /\ UNCHANGED <<locals, sessions, failureTable, permits, controllers>>

FinishUpdate(c) ==
    /\ GoTo(c, "update", "loop")
    /\ UNCHANGED <<locals, sessions, failureTable, permits, controllers>>

\* Mutant: `return` where the code has `break`.
BugLeaveReturns(c) ==
    /\ GoTo(c, "loop", "dropUnauth")
    /\ UNCHANGED <<locals, sessions, failureTable, permits, controllers>>

\* Disconnect, a Close frame, a socket error or the end of the stream.
ClientLeaves(c) ==
    /\ GoTo(c, "loop", "destroy")
    /\ UNCHANGED <<locals, sessions, failureTable, permits, controllers>>

\* sleep(heartbeat_timeout) wins the select.
HeartbeatTimeout(c) ==
    /\ GoTo(c, "loop", "sendClose")
    /\ UNCHANGED <<locals, sessions, failureTable, permits, controllers>>

\* Mutant: no `break` after the Close frame.
BugCloseLoops(c) ==
    /\ GoTo(c, "sendClose", "loop")
    /\ UNCHANGED <<locals, sessions, failureTable, permits, controllers>>

\* The Close frame is taken by the client, or its socket fails.
SendClose(c) ==
    /\ GoTo(c, "sendClose", "destroy")
    /\ UNCHANGED <<locals, sessions, failureTable, permits, controllers>>

\* Mutant: the id is forgotten but the manager keeps the controller.
BugControllerStays(c) ==
    /\ GoTo(c, "destroy", "removeSession")
    /\ controllerId' = [controllerId EXCEPT ![c] = None]
    /\ UNCHANGED <<authenticated, wasAuth, token, unauthPermit,
                   sessions, failureTable, permits, controllers>>

DestroyController(c) ==
    /\ GoTo(c, "destroy", "removeSession")
    /\ controllers' = controllers \ {controllerId[c]}
    /\ controllerId' = [controllerId EXCEPT ![c] = None]
    /\ UNCHANGED <<authenticated, wasAuth, token, unauthPermit,
                   sessions, failureTable, permits>>

RemoveSession(c) ==
    /\ GoTo(c, "removeSession", "dropUnauth")
    /\ sessions' = sessions \ {token[c]}
    /\ token' = [token EXCEPT ![c] = None]
    /\ authenticated' = [authenticated EXCEPT ![c] = FALSE]
    /\ UNCHANGED <<wasAuth, unauthPermit, controllerId,
                   failureTable, permits, controllers>>

\* handle_socket returns: its parameters are dropped, the last one first.
DropUnauth(c) ==
    /\ GoTo(c, "dropUnauth", "dropTotal")
    /\ ReleaseUnauth(c)
    /\ UNCHANGED <<authenticated, wasAuth, token, controllerId,
                   sessions, failureTable, totalFree, controllers>>

DropTotal(c) ==
    /\ GoTo(c, "dropTotal", "idle")
    /\ totalFree' = totalFree + 1
    /\ UNCHANGED <<locals, sessions, failureTable, unauthFree, controllers>>

-----------------------------------------------------------------------------
\* Time: neither a failure nor a backoff of this address is recent any more.
Age(ip) ==
    /\ ipFailures[ip] > 0
    /\ aged' = aged \cup {ip}
    /\ UNCHANGED <<pc, locals, ipFailures, sessions, permits, controllers>>

Upgrade(c) ==
    \/ \E t \in Token \cup {None} : ValidateToken(c, t)
    \/ CheckIp(c)
    \/ AcquireTotal(c) \/ RefuseTotal(c)
    \/ AcquireUnauth(c) \/ RefuseUnauth(c)
    \/ UpgradeFails(c) \/ Abandon(c)

Login(c) ==
    \/ AuthSucceeds(c) \/ RemoveOldSession(c) \/ CreateSession(c) \/ SendAuthSuccess(c)
    \/ AuthFails(c) \/ CheckMax(c) \/ Backoff(c)

Serve(c) ==
    \/ StartSocket(c)
    \/ CreateController(c) \/ CreateFails(c)
    \/ StartUpdate(c) \/ FinishUpdate(c)
    \/ ClientLeaves(c) \/ HeartbeatTimeout(c)

Cleanup(c) ==
    \/ SendClose(c) \/ DestroyController(c) \/ RemoveSession(c)
    \/ DropUnauth(c) \/ DropTotal(c)

Next ==
    \/ \E c \in Conn : Upgrade(c) \/ Login(c) \/ Serve(c) \/ Cleanup(c)
    \/ \E ip \in IP : Age(ip)

Spec == Init /\ [][Next]_vars

-----------------------------------------------------------------------------
(* Correctness *)

Holders == {c \in Conn : pc[c] \in HoldingPlaces}
UnauthHolders == {c \in Conn : unauthPermit[c]}
\* Open connections nobody has logged in (handle_socket's locals still live).
Strangers == {c \in Conn : /\ pc[c] \in SocketPlaces \ {"dropUnauth"}
                           /\ ~authenticated[c]}

\* No permit is lost or given back twice, whatever ends a request: the permits
\* left and the permits owned always add up to the limit of each semaphore.
PermitsConserved ==
    /\ totalFree + Cardinality(Holders) = MaxTotal
    /\ unauthFree + Cardinality(UnauthHolders) = MaxUnauth

\* handle_socket never serves more connections without a login than
\* max_unauth_connections, although the permit and the flag `authenticated`
\* change in different steps.
StrangersBounded == Cardinality(Strangers) <= MaxUnauth

\* A connection that is back in its loop holds the unauthenticated permit
\* exactly as long as it is not logged in: a login never keeps the scarce
\* permit, and a stranger never gives it back early.
PermitFollowsLogin ==
    \A c \in Conn : pc[c] \in LoopPlaces \ {"sendSuccess"} =>
        (unauthPermit[c] <=> ~authenticated[c] )

\* A session lives no longer than a connection that is logged in with it, so
\* the set of sessions cannot grow with the number of connections ever made.
Owns(c, t) == token[c] = t /\ authenticated[c] /\ pc[c] \in SocketPlaces
SessionsOwned == \A t \in sessions : \E c \in Conn : Owns(c, t)

\* Each controller that is plugged in belongs to one open, logged-in
\* connection, and no connection refers to a controller that is gone.
ControllersOwned ==
    /\ controllers = {controllerId[c] : c \in Conn} \ {None}
    /\ \A c \in Conn : controllerId[c] # None =>
         /\ authenticated[c]
         /\ pc[c] \in SocketPlaces
         /\ \A d \in Conn : controllerId[d] = controllerId[c] => d = c

\* There are never more virtual controllers than total permits: a permit is
\* only given back when the controller of its connection is gone.
ControllersBounded == Cardinality(controllers) <= MaxTotal

\* What the locals of a task are at each place: the permit passes from a
\* stranger to nobody within sendSuccess, only a connection that is logged in
\* has a controller, and neither outlives the places that clean it up.
LocalsAtPlace(c) ==
    /\ pc[c] \in {"idle", "checkIp", "acquireUnauth", "abandon", "newSession",
                  "dropUnauth", "dropTotal"} => token[c] = None
    /\ pc[c] \in {"idle", "checkIp", "acquireTotal", "acquireUnauth", "dropTotal"}
         => ~unauthPermit[c]
    /\ pc[c] = "upgrade" => (unauthPermit[c] <=> token[c] = None)
    /\ c \in Strangers => unauthPermit[c]
    /\ authenticated[c] => pc[c] \in SocketPlaces \ {"dropUnauth"}
    /\ pc[c] \in {"create", "sendSuccess", "update"} => authenticated[c]
    /\ pc[c] \in {"removeOld", "newSession"} => (wasAuth[c] <=> authenticated[c])
    /\ authenticated[c] /\ unauthPermit[c] => pc[c] = "sendSuccess" /\ ~wasAuth[c]
    /\ pc[c] = "sendSuccess" /\ ~wasAuth[c] => controllerId[c] = None
    /\ controllerId[c] # None
         => authenticated[c] /\ pc[c] \in LoopPlaces \cup {"sendClose", "destroy"}
LocalsFollowPlace == \A c \in Conn : LocalsAtPlace(c)

\* `sessions` is "the set of the active session tokens" (auth.rs:14), which a
\* client presents to resume after its connection broke (CODE_WIKI.md:269-272):
\* the token of a connection that is logged in and idle is one of them.
ActiveTokenIsValid ==
    \A c \in Conn : pc[c] = "loop" /\ authenticated[c] => token[c] \in sessions

-----------------------------------------------------------------------------
(* The service that the handler implements.  A connection counts as served  *)
(* while handle_socket has its locals, from StartSocket to RemoveSession.   *)

Service == INSTANCE WsService
    WITH open    <- {c \in Conn : pc[c] \in SocketPlaces \ {"dropUnauth"}},
         players <- {c \in Conn : authenticated[c]},
         driving <- {c \in Conn : controllerId[c] # None}

\* The interleaved steps on permits, sessions and controllers add up to the
\* promises of WsService.
ImplementsService == Service!Spec

-----------------------------------------------------------------------------
(* Liveness.  The runtime keeps running every task that can run, and a      *)
(* driver call returns.  HandshakeEnds: the protocol switch succeeds or     *)
(* fails.  ClientReads: a client takes what is sent to it, or its socket    *)
(* fails; the code sets no time limit on a send.                            *)

Progress(c) ==
    \/ CheckIp(c) \/ AcquireTotal(c) \/ RefuseTotal(c)
    \/ AcquireUnauth(c) \/ RefuseUnauth(c) \/ Abandon(c)
    \/ CreateController(c) \/ CreateFails(c)
    \/ RemoveOldSession(c) \/ CreateSession(c) \/ CheckMax(c)
    \/ FinishUpdate(c)
    \/ DestroyController(c) \/ RemoveSession(c) \/ DropUnauth(c) \/ DropTotal(c)
HandshakeEnds(c) == StartSocket(c) \/ UpgradeFails(c)
ClientReads(c) == SendAuthSuccess(c) \/ Backoff(c) \/ SendClose(c)

FairSpec ==
    /\ Spec
    /\ \A c \in Conn : /\ WF_vars(Progress(c))
                       /\ WF_vars(HandshakeEnds(c))
                       /\ WF_vars(ClientReads(c))

\* A connection that leaves its loop releases all it had: its controller, its
\* session and its permits, and the slot can serve the next request.
CleanupCompletes ==
    \A c \in Conn : pc[c] \in CleanupPlaces ~> pc[c] = "idle"

\* No request is ever stuck in the server: it ends, or its connection is back
\* in the loop, where the client or the heartbeat decides.
RequestAdvances ==
    \A c \in Conn : pc[c] # "idle" ~> pc[c] \in {"idle", "loop"}
=============================================================================
