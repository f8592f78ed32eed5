---------------------------- MODULE SocketClock ----------------------------
(***************************************************************************)
(* The clocks of handle_socket and of IpBackoffManager: the heartbeat      *)
(* timeout, which every round of select! sets up anew, the sleep after a   *)
(* wrong password, sends to a client that does not read, and the failure   *)
(* entries of the addresses.  WsHandler has the steps in between; here one *)
(* message is one step, and time is counted in ticks.  A task that may go  *)
(* on does so before the next tick.                                        *)
(*                                                                         *)
(* All clocks count down, or up to the last value that is ever compared,   *)
(* so that the state stays finite without a bound on time.                 *)
(***************************************************************************)
EXTENDS Naturals

CONSTANTS Conn, IP, IpOf,
          Timeout,       \* heartbeat_timeout
          Base,          \* auth_backoff_base_ms
          MaxBackoff,    \* auth_backoff_max_ms
          Window,        \* the 300 s of record_failure
          MaxFailures,   \* max_auth_failures
          U64Max,        \* the largest u64
          MaxCount       \* bound of the model: no address fails more often

ASSUME ClockAssumption ==
    /\ IpOf \in [Conn -> IP]
    /\ Timeout \in Nat \ {0} /\ Window \in Nat \ {0}
    /\ MaxFailures \in Nat /\ MaxCount \in Nat
    /\ U64Max \in Nat \ {0} /\ Base \in 0..U64Max /\ MaxBackoff \in 0..U64Max

VARIABLES st,         \* where each connection's task waits
          authed,     \* its `authenticated`
          waited,     \* how long its select! has waited in this round
          nap,        \* what is left of its backoff sleep
          silence,    \* history: time since its client or its game did anything
          ipFailures, \* `failures` of each address, 0: no entry
          age,        \* time since last_failure, up to Window
          hold        \* time until backoff_until; only retain() looks at it

sockVars  == <<st, authed, waited, nap, silence>>
tableVars == <<ipFailures, age, hold>>
vars == <<sockVars, tableVars>>
----------------------------------------------------------------------------
Smaller(a, b) == IF a < b THEN a ELSE b

\* saturating_mul and saturating_pow of u64
SaturatingMul(a, b) == Smaller(a * b, U64Max)
SaturatingPow2(n) == Smaller(2^n, U64Max)

BugBackoff(f) == Smaller((Base * (2^(f - 1))) % (U64Max + 1), MaxBackoff)
BugUncapped(f) == SaturatingMul(Base, SaturatingPow2(f - 1))

\* record_failure: the Duration it returns after the f-th failure.
Backoff(f) == Smaller(SaturatingMul(Base, SaturatingPow2(f - 1)), MaxBackoff)

SilenceCap == Timeout + MaxBackoff + 1

Init ==
    /\ st = [c \in Conn |-> "away"] /\ authed = [c \in Conn |-> FALSE]
    /\ waited = [c \in Conn |-> 0] /\ nap = [c \in Conn |-> 0]
    /\ silence = [c \in Conn |-> 0]
    /\ ipFailures = [i \in IP |-> 0] /\ age = [i \in IP |-> 0] /\ hold = [i \in IP |-> 0]

ShouldDisconnect(ip) == ipFailures[ip] > 0 /\ ipFailures[ip] >= MaxFailures

\* The task goes to `place` with its clocks set; `by` tells whether something
\* was heard of the other side.
Goto(c, place, sleeps, heard) ==
    /\ st' = [st EXCEPT ![c] = place]
    /\ waited' = [waited EXCEPT ![c] = 0]
    /\ nap' = [nap EXCEPT ![c] = sleeps]
    /\ silence' = [silence EXCEPT ![c] = IF heard THEN 0 ELSE @]
----------------------------------------------------------------------------
Open(c) ==
    /\ st[c] = "away" /\ ~ShouldDisconnect(IpOf[c])
    /\ Goto(c, "loop", 0, TRUE)
    /\ authed' = [authed EXCEPT ![c] = FALSE]
    /\ UNCHANGED tableVars

\* A token that is good passes the check of the address; the failures of such
\* a connection count beyond the limit.
Resume(c) ==
    /\ st[c] = "away" /\ \E d \in Conn : authed[d]
    /\ Goto(c, "loop", 0, TRUE)
    /\ authed' = [authed EXCEPT ![c] = TRUE]
    /\ UNCHANGED tableVars

End(c) ==
    /\ Goto(c, "away", 0, TRUE)
    /\ authed' = [authed EXCEPT ![c] = FALSE]

\* Disconnect, a Close frame or an error of the stream.
ClientLeaves(c) == st[c] = "loop" /\ End(c) /\ UNCHANGED tableVars

\* Every other message starts a new round, also one that cannot be parsed.
Message(c) ==
    /\ st[c] = "loop"
    /\ Goto(c, "loop", 0, TRUE)
    /\ UNCHANGED <<authed, tableVars>>

\* An answer, or a rumble event sent on, finds the client's buffers full: the
\* task waits in send, and no timer runs.
SendBlocks(c) ==
    /\ st[c] = "loop"
    /\ Goto(c, "sending", 0, TRUE)
    /\ UNCHANGED <<authed, tableVars>>

\* What is left to do after it is the sleep of a wrong password, if any.
SendReturns(c) ==
    /\ st[c] = "sending"
    /\ Goto(c, IF nap[c] > 0 THEN "nap" ELSE "loop", nap[c], TRUE)
    /\ UNCHANGED <<authed, tableVars>>

\* The connection to a client that does not read breaks at last.
SendFails(c) == st[c] = "sending" /\ End(c) /\ UNCHANGED tableVars

\* A rumble event starts a new round too, whether or not the client is there.
Rumble(c) ==
    /\ st[c] = "loop" /\ authed[c]
    /\ Goto(c, "loop", 0, TRUE)
    /\ UNCHANGED <<authed, tableVars>>

Login(c) ==
    /\ st[c] = "loop"
    /\ Goto(c, "loop", 0, TRUE)
    /\ authed' = [authed EXCEPT ![c] = TRUE]
    /\ ipFailures' = [ipFailures EXCEPT ![IpOf[c]] = 0]
    /\ age' = [age EXCEPT ![IpOf[c]] = 0]
    /\ hold' = [hold EXCEPT ![IpOf[c]] = 0]

Expired(i) == hold[i] = 0 /\ age[i] >= Window

BugRecordFailure(ip) ==
    /\ ipFailures' = [i \in IP |-> IF i = ip THEN ipFailures[ip] + 1
                                   ELSE IF age[i] >= Window THEN 0 ELSE ipFailures[i]]
    /\ age' = [i \in IP |-> IF i = ip \/ age[i] >= Window THEN 0 ELSE age[i]]
    /\ hold' = [hold EXCEPT ![ip] = Backoff(ipFailures[ip] + 1)]

\* record_failure, its retain included.
RecordFailure(ip) ==
    /\ ipFailures' = [i \in IP |-> IF i = ip THEN ipFailures[ip] + 1
                                   ELSE IF Expired(i) THEN 0 ELSE ipFailures[i]]
    /\ age' = [i \in IP |-> IF i = ip \/ Expired(i) THEN 0 ELSE age[i]]
    /\ hold' = [hold EXCEPT ![ip] = Backoff(ipFailures[ip] + 1)]

\* handle_auth_request: too many failures close the connection, else it sleeps
\* once the refusal is sent.  Only this connection sleeps: check_backoff, which
\* would make the others of the address wait, has no caller.
WrongPassword(c) ==
    /\ st[c] = "loop" /\ ipFailures[IpOf[c]] < MaxCount
    /\ RecordFailure(IpOf[c])
    /\ IF ipFailures'[IpOf[c]] >= MaxFailures THEN End(c)
       ELSE /\ \E place \in {"nap", "sending"} : Goto(c, place, hold'[IpOf[c]], TRUE)
            /\ UNCHANGED authed

WakeUp(c) ==
    /\ st[c] = "nap" /\ nap[c] = 0
    /\ Goto(c, "loop", 0, FALSE)
    /\ UNCHANGED <<authed, tableVars>>

BugTimedOut(c) == st[c] = "loop" /\ authed[c] /\ waited[c] = Timeout

TimedOut(c) == st[c] = "loop" /\ waited[c] = Timeout

BeatMissed(c) == TimedOut(c) /\ End(c) /\ UNCHANGED tableVars

\* No task that may go on is left behind by the clock.
Due(c) == TimedOut(c) \/ (st[c] = "nap" /\ nap[c] = 0)

Down(n) == IF n = 0 THEN 0 ELSE n - 1

Tick ==
    /\ \A c \in Conn : ~Due(c)
    /\ waited' = [c \in Conn |-> IF st[c] = "loop" THEN Smaller(waited[c] + 1, Timeout) ELSE 0]
    /\ nap' = [c \in Conn |-> IF st[c] = "nap" THEN Down(nap[c]) ELSE nap[c]]
    /\ silence' = [c \in Conn |-> IF st[c] \in {"away", "sending"} THEN 0
                                  ELSE Smaller(silence[c] + 1, SilenceCap)]
    /\ age' = [i \in IP |-> IF ipFailures[i] = 0 THEN 0 ELSE Smaller(age[i] + 1, Window)]
    /\ hold' = [i \in IP |-> Down(hold[i])]
    /\ UNCHANGED <<st, authed, ipFailures>>

Next ==
    \/ Tick
    \/ \E c \in Conn : \/ Open(c) \/ Resume(c) \/ ClientLeaves(c) \/ Message(c) \/ Rumble(c)
                       \/ SendBlocks(c) \/ SendReturns(c) \/ SendFails(c)
                       \/ Login(c) \/ WrongPassword(c) \/ WakeUp(c) \/ BeatMissed(c)

Spec == Init /\ [][Next]_vars
----------------------------------------------------------------------------
TypeOK ==
    /\ st \in [Conn -> {"away", "loop", "sending", "nap"}]
    /\ authed \in [Conn -> BOOLEAN]
    /\ waited \in [Conn -> 0..Timeout] /\ nap \in [Conn -> 0..MaxBackoff]
    /\ silence \in [Conn -> 0..SilenceCap]
    /\ ipFailures \in [IP -> 0..MaxCount]
    /\ age \in [IP -> 0..Window] /\ hold \in [IP -> 0..MaxBackoff]

\* A connection on which neither the client nor the game does anything is
\* closed within the heartbeat timeout and one backoff sleep, whatever came
\* before: the sleep of the wrong password and the timer that each round of
\* select! starts anew do not add up to more.  Only a send that waits for the
\* client (handler.rs:441) escapes, and it is left out of `silence`.
SilentClosed == \A c \in Conn : silence[c] <= Timeout + MaxBackoff

\* A connection goes on after a wrong password only while its address is below
\* the limit, and then it sleeps base * 2^(failures - 1), cut off at the maximum,
\* with the failures of all connections of the address counted: the saturating
\* u64 arithmetic of record_failure never makes it anything else.  The sleep is
\* all the waiting there is.  auth.rs:69-70 and handler.rs:597-599 have every
\* connection of the address wait, but nothing calls check_backoff: the others
\* have their passwords tried at once (Login and WrongPassword ask for no hold).
SleepDoubles ==
    [][\A c \in Conn : LET f == ipFailures[IpOf[c]] IN
           /\ st[c] = "loop" /\ st'[c] \in {"nap", "sending"}
           /\ ipFailures'[IpOf[c]] = f + 1
           => f + 1 < MaxFailures /\ nap'[c] = Smaller(Base * 2^f, MaxBackoff)]_vars

\* The table is the untimed FailureTable: an entry leaves it when the address
\* logs in, or when another address fails after it has expired, and never
\* before its backoff_until has passed.
Table == INSTANCE FailureTable
    WITH aged <- {i \in IP : ipFailures[i] > 0 /\ Expired(i)}

ImplementsFailureTable == Table!TableSpec
=============================================================================
