------------------------- MODULE SocketClockProofs -------------------------
(***************************************************************************)
(* Proofs about SocketClock: its types, the bound on the silence of a      *)
(* connection, the length of the sleeps, and that the timed failure table   *)
(* implements FailureTable - for all constants.                            *)
(***************************************************************************)
EXTENDS SocketClock, FiniteSetTheorems, TLAPS

Places == {"away", "loop", "sending", "nap"}
----------------------------------------------------------------------------
(* The arithmetic of record_failure.                                       *)

\* Powers of two are positive: 2^n is the number of subsets of 1..n.
LEMMA PowerOfTwo ==
    ASSUME NEW n \in Nat PROVE 2^n \in Nat /\ 2^n >= 1
<1>1. IsFiniteSet(1..n) /\ Cardinality(1..n) = n
  BY FS_Interval
<1>2. IsFiniteSet(SUBSET (1..n)) /\ Cardinality(SUBSET (1..n)) = 2^n
  BY <1>1, FS_SUBSET
<1>3. 2^n \in Nat
  BY <1>2, FS_CardinalityType
<1>4. 2^n # 0
  BY <1>2, FS_EmptySet
<1> QED
  BY <1>3, <1>4

\* Saturating does not change a product that is cut off at a maximum the
\* saturated type can hold.
LEMMA SaturationIsHarmless ==
    ASSUME NEW b \in Nat, NEW p \in Nat, p >= 1, NEW u \in Nat, NEW m \in Nat,
           b <= u, m <= u
    PROVE  Smaller(Smaller(b * Smaller(p, u), u), m) = Smaller(b * p, m)
<1>1. CASE p <= u
  <2>1. Smaller(p, u) = p
    BY <1>1 DEF Smaller
  <2>2. PICK q \in Nat : q = b * p
    OBVIOUS
  <2>3. Smaller(Smaller(q, u), m) = Smaller(q, m)
    BY DEF Smaller
  <2> QED
    BY <2>1, <2>2, <2>3
<1>2. CASE p > u
  <2>1. Smaller(p, u) = u
    BY <1>2 DEF Smaller
  <2>2. CASE b = 0
    BY <2>1, <2>2 DEF Smaller
  <2>3. CASE b >= 1
    <3>1. PICK q \in Nat, r \in Nat : q = b * u /\ r = b * p
      OBVIOUS
    <3>2. q >= u /\ r >= p
      BY <2>3, <3>1
    <3>3. Smaller(Smaller(q, u), m) = m /\ Smaller(r, m) = m
      BY <1>2, <3>2 DEF Smaller
    <3> QED
      BY <2>1, <3>1, <3>3
  <2> QED
    BY <2>2, <2>3
<1> QED
  BY <1>1, <1>2

\* record_failure makes an address wait base * 2^(f - 1), cut off.
LEMMA BackoffValue ==
    ASSUME NEW f \in Nat
    PROVE  /\ Backoff(f + 1) = Smaller(Base * 2^f, MaxBackoff)
           /\ Backoff(f + 1) \in 0..MaxBackoff
<1>1. 2^f \in Nat /\ 2^f >= 1
  BY PowerOfTwo
<1>2. Backoff(f + 1) = Smaller(Smaller(Base * Smaller(2^f, U64Max), U64Max), MaxBackoff)
  <2>1. (f + 1) - 1 = f
    OBVIOUS
  <2> QED
    BY <2>1 DEF Backoff, SaturatingMul, SaturatingPow2
<1>3. /\ Base \in Nat /\ U64Max \in Nat /\ MaxBackoff \in Nat
      /\ Base <= U64Max /\ MaxBackoff <= U64Max
  BY ClockAssumption
<1>4. Backoff(f + 1) = Smaller(Base * 2^f, MaxBackoff)
  BY <1>1, <1>2, <1>3, SaturationIsHarmless
<1>5. PICK q \in Nat : q = Base * 2^f
  BY <1>1, <1>3
<1> QED
  BY <1>3, <1>4, <1>5 DEF Smaller
----------------------------------------------------------------------------
(* Types.                                                                  *)

SockTyped ==
    /\ st \in [Conn -> Places]
    /\ authed \in [Conn -> BOOLEAN]
    /\ waited \in [Conn -> 0..Timeout] /\ nap \in [Conn -> 0..MaxBackoff]
    /\ silence \in [Conn -> 0..SilenceCap]

TableTyped ==
    /\ ipFailures \in [IP -> 0..MaxCount]
    /\ age \in [IP -> 0..Window] /\ hold \in [IP -> 0..MaxBackoff]

LEMMA TypeParts == TypeOK <=> SockTyped /\ TableTyped
BY DEF TypeOK, SockTyped, TableTyped, Places

LEMMA Numbers ==
    /\ Timeout \in Nat /\ Timeout >= 1 /\ Window \in Nat /\ Window >= 1
    /\ MaxFailures \in Nat /\ MaxCount \in Nat
    /\ MaxBackoff \in Nat
    /\ SilenceCap \in Nat /\ SilenceCap = Timeout + MaxBackoff + 1
BY ClockAssumption DEF SilenceCap

LEMMA InitTyped == Init => TypeOK
BY Numbers DEF Init, TypeOK

\* A step that moves one task and hears of it.
LEMMA GotoTyped ==
    ASSUME SockTyped, NEW c \in Conn, NEW place \in Places, NEW s \in 0..MaxBackoff,
           Goto(c, place, s, TRUE) \/ Goto(c, place, s, FALSE), authed' \in [Conn -> BOOLEAN]
    PROVE  SockTyped'
<1>1. st' \in [Conn -> Places]
  BY DEF Goto, SockTyped
<1>2. waited' \in [Conn -> 0..Timeout]
  BY Numbers DEF Goto, SockTyped
<1>3. nap' \in [Conn -> 0..MaxBackoff]
  BY DEF Goto, SockTyped
<1>4. silence' \in [Conn -> 0..SilenceCap]
  BY Numbers DEF Goto, SockTyped
<1> QED
  BY <1>1, <1>2, <1>3, <1>4 DEF SockTyped

LEMMA RecordTyped ==
    ASSUME TableTyped, NEW ip \in IP, ipFailures[ip] < MaxCount, RecordFailure(ip)
    PROVE  TableTyped' /\ hold'[ip] \in 0..MaxBackoff
<1>1. Backoff(ipFailures[ip] + 1) \in 0..MaxBackoff
  <2>1. ipFailures[ip] \in Nat
    BY Numbers DEF TableTyped
  <2> QED
    BY <2>1, BackoffValue
<1>2. hold' \in [IP -> 0..MaxBackoff] /\ hold'[ip] \in 0..MaxBackoff
  BY <1>1 DEF RecordFailure, TableTyped
<1>3. ipFailures' \in [IP -> 0..MaxCount]
  BY Numbers DEF RecordFailure, TableTyped
<1>4. age' \in [IP -> 0..Window]
  BY Numbers DEF RecordFailure, TableTyped
<1> QED
  BY <1>2, <1>3, <1>4 DEF TableTyped

LEMMA TickTyped ==
    ASSUME TypeOK, Tick PROVE TypeOK'
<1>1. waited' \in [Conn -> 0..Timeout]
  BY Numbers DEF Tick, TypeOK, Smaller
<1>2. nap' \in [Conn -> 0..MaxBackoff]
  <2>1. \A n \in 0..MaxBackoff : Down(n) \in 0..MaxBackoff
    BY Numbers DEF Down
  <2> QED
    BY <2>1 DEF Tick, TypeOK
<1>3. silence' \in [Conn -> 0..SilenceCap]
  BY Numbers DEF Tick, TypeOK, Smaller
<1>4. age' \in [IP -> 0..Window]
  BY Numbers DEF Tick, TypeOK, Smaller
<1>5. hold' \in [IP -> 0..MaxBackoff]
  <2>1. \A n \in 0..MaxBackoff : Down(n) \in 0..MaxBackoff
    BY Numbers DEF Down
  <2> QED
    BY <2>1 DEF Tick, TypeOK
<1> QED
  BY <1>1, <1>2, <1>3, <1>4, <1>5 DEF Tick, TypeOK

\* The steps of a connection: one task moves, and the table is touched by a
\* login and by a wrong password only.
Hears(c) ==
    \/ Open(c) \/ Resume(c) \/ ClientLeaves(c) \/ Message(c) \/ SendBlocks(c) \/ SendReturns(c)
    \/ SendFails(c) \/ Rumble(c) \/ Login(c) \/ WrongPassword(c) \/ BeatMissed(c)

LEMMA EndGoes ==
    ASSUME TypeOK, NEW c \in Conn, End(c)
    PROVE  /\ \E place \in Places, s \in 0..MaxBackoff : Goto(c, place, s, TRUE)
           /\ authed' \in [Conn -> BOOLEAN]
<1>1. Goto(c, "away", 0, TRUE) /\ authed' = [authed EXCEPT ![c] = FALSE]
  BY DEF End
<1>2. "away" \in Places /\ 0 \in 0..MaxBackoff
  BY Numbers DEF Places
<1>3. authed' \in [Conn -> BOOLEAN]
  BY <1>1 DEF TypeOK
<1> QED
  BY ONLY <1>1, <1>2, <1>3, Zenon

LEMMA WrongPasswordGoes ==
    ASSUME TypeOK, NEW c \in Conn, WrongPassword(c)
    PROVE  /\ TableTyped'
           /\ \E place \in Places, s \in 0..MaxBackoff : Goto(c, place, s, TRUE)
           /\ authed' \in [Conn -> BOOLEAN]
<1>1. IpOf[c] \in IP
  BY ClockAssumption
<1>2. TableTyped' /\ hold'[IpOf[c]] \in 0..MaxBackoff
  BY <1>1, RecordTyped, TypeParts DEF WrongPassword
<1>3. CASE End(c)
  BY <1>2, <1>3, EndGoes
<1>4. CASE ~End(c)
  <2>1. PICK place \in {"nap", "sending"} : Goto(c, place, hold'[IpOf[c]], TRUE)
    BY <1>4 DEF WrongPassword
  <2>2. authed' \in [Conn -> BOOLEAN]
    BY <1>4 DEF WrongPassword, TypeOK
  <2>3. place \in Places
    BY DEF Places
  <2> QED
    BY ONLY <1>2, <2>1, <2>2, <2>3, Zenon
<1> QED
  BY <1>3, <1>4

LEMMA HearsGoes ==
    ASSUME TypeOK, NEW c \in Conn, Hears(c)
    PROVE  /\ TableTyped'
           /\ \E place \in Places, s \in 0..MaxBackoff : Goto(c, place, s, TRUE)
           /\ authed' \in [Conn -> BOOLEAN]
<1>1. /\ "loop" \in Places /\ "sending" \in Places /\ "nap" \in Places
      /\ 0 \in 0..MaxBackoff /\ nap[c] \in 0..MaxBackoff
  BY Numbers DEF Places, TypeOK
<1>2. UNCHANGED tableVars => TableTyped'
  BY TypeParts DEF tableVars, TableTyped
<1>3. authed' = authed => authed' \in [Conn -> BOOLEAN]
  BY DEF TypeOK
<1>4. CASE ClientLeaves(c) \/ SendFails(c) \/ BeatMissed(c)
  BY <1>2, <1>4, EndGoes DEF ClientLeaves, SendFails, BeatMissed
<1>5. CASE Open(c) \/ Resume(c)
  <2>1. authed' \in [Conn -> BOOLEAN]
    BY <1>5 DEF Open, Resume, TypeOK
  <2>2. Goto(c, "loop", 0, TRUE) /\ TableTyped'
    BY <1>2, <1>5 DEF Open, Resume
  <2> QED
    BY ONLY <1>1, <2>1, <2>2, Zenon
<1>6. CASE Message(c) \/ SendBlocks(c) \/ Rumble(c)
  <2>1. /\ Goto(c, "loop", 0, TRUE) \/ Goto(c, "sending", 0, TRUE)
        /\ authed' = authed /\ TableTyped'
    BY <1>2, <1>6 DEF Message, SendBlocks, Rumble
  <2> QED
    BY ONLY <1>1, <1>3, <2>1, Zenon
<1>7. CASE SendReturns(c)
  <2>1. /\ Goto(c, "nap", nap[c], TRUE) \/ Goto(c, "loop", nap[c], TRUE)
        /\ authed' = authed /\ TableTyped'
    BY <1>2, <1>7 DEF SendReturns
  <2> QED
    BY ONLY <1>1, <1>3, <2>1, Zenon
<1>8. CASE Login(c)
  <2>1. IpOf[c] \in IP
    BY ClockAssumption
  <2>2. TableTyped'
    BY <1>8, <2>1, Numbers DEF Login, TypeOK, TableTyped
  <2>3. Goto(c, "loop", 0, TRUE)
    BY <1>8 DEF Login
  <2>4. authed' \in [Conn -> BOOLEAN]
    BY <1>8 DEF Login, TypeOK
  <2> QED
    BY ONLY <1>1, <2>2, <2>3, <2>4, Zenon
<1>9. CASE WrongPassword(c)
  BY <1>9, WrongPasswordGoes
<1> QED
  BY <1>4, <1>5, <1>6, <1>7, <1>8, <1>9 DEF Hears

LEMMA NextCases ==
    ASSUME [Next]_vars
    PROVE  \/ Tick \/ (\E c \in Conn : Hears(c) \/ WakeUp(c)) \/ UNCHANGED vars
BY DEF Next, Hears

LEMMA StepTyped == TypeOK /\ [Next]_vars => TypeOK'
<1> SUFFICES ASSUME TypeOK, [Next]_vars PROVE TypeOK'
  OBVIOUS
<1>1. CASE Tick
  BY <1>1, TickTyped
<1>2. ASSUME NEW c \in Conn, Hears(c) PROVE TypeOK'
  <2>1. PICK place \in Places, s \in 0..MaxBackoff : Goto(c, place, s, TRUE)
    BY <1>2, HearsGoes
  <2>2. TableTyped' /\ authed' \in [Conn -> BOOLEAN]
    BY <1>2, HearsGoes
  <2>3. SockTyped'
    BY <2>1, <2>2, GotoTyped, TypeParts
  <2> QED
    BY <2>2, <2>3 DEF TypeOK, SockTyped, TableTyped, Places
<1>3. ASSUME NEW c \in Conn, WakeUp(c) PROVE TypeOK'
  <2>1. SockTyped'
    <3>1. Goto(c, "loop", 0, FALSE) /\ authed' \in [Conn -> BOOLEAN]
      BY <1>3 DEF WakeUp, TypeOK
    <3>2. "loop" \in Places /\ 0 \in 0..MaxBackoff
      BY Numbers DEF Places
    <3> QED
      BY <3>1, <3>2, GotoTyped, TypeParts
  <2>2. TableTyped'
    BY <1>3, TypeParts DEF WakeUp, tableVars, TableTyped
  <2> QED
    BY <2>1, <2>2 DEF TypeOK, SockTyped, TableTyped, Places
<1>4. CASE UNCHANGED vars
  BY <1>4 DEF vars, sockVars, tableVars, TypeOK
<1> QED
  BY <1>1, <1>2, <1>3, <1>4, NextCases

\* Every variable keeps its type; no clock, count or wait leaves its range.
THEOREM TypesHold == Spec => []TypeOK
BY InitTyped, StepTyped, PTL DEF Spec
----------------------------------------------------------------------------
(***************************************************************************)
(* A task that sleeps has been silent for what is over of its sleep at     *)
(* most; in the loop, for one whole sleep and the wait of this round.      *)
(***************************************************************************)
SilentFor(c) ==
    /\ st[c] \in {"away", "sending"} => silence[c] = 0
    /\ st[c] = "nap" => silence[c] + nap[c] <= MaxBackoff
    /\ st[c] = "loop" => silence[c] <= waited[c] + MaxBackoff

SilenceInv == \A c \in Conn : SilentFor(c)

\* A task that has just heard of the other side has not been silent at all.
LEMMA HeardSilence ==
    ASSUME TypeOK, SilenceInv, NEW c \in Conn, NEW place \in Places, NEW s \in 0..MaxBackoff,
           Goto(c, place, s, TRUE)
    PROVE  SilenceInv'
<1>1. silence'[c] = 0 /\ waited'[c] = 0 /\ nap'[c] = s
  BY DEF Goto, TypeOK
<1>2. SilentFor(c)'
  BY <1>1, Numbers DEF SilentFor
<1>3. ASSUME NEW d \in Conn \ {c} PROVE SilentFor(d)'
  <2>1. st'[d] = st[d] /\ waited'[d] = waited[d] /\ nap'[d] = nap[d] /\ silence'[d] = silence[d]
    BY DEF Goto, TypeOK
  <2> QED
    BY <2>1 DEF SilenceInv, SilentFor
<1> QED
  BY <1>2, <1>3 DEF SilenceInv

\* A task wakes up after a sleep that has used up its part.
LEMMA WakeSilence ==
    ASSUME TypeOK, SilenceInv, NEW c \in Conn, WakeUp(c) PROVE SilenceInv'
<1>1. st[c] = "nap" /\ nap[c] = 0 /\ Goto(c, "loop", 0, FALSE)
  BY DEF WakeUp
<1>2. SilentFor(c)'
  <2>1. silence[c] \in Nat /\ silence[c] <= MaxBackoff
    BY <1>1, Numbers DEF SilenceInv, SilentFor, TypeOK
  <2>2. st'[c] = "loop" /\ waited'[c] = 0 /\ silence'[c] = silence[c]
    BY <1>1 DEF Goto, TypeOK
  <2> QED
    BY <2>1, <2>2, Numbers DEF SilentFor
<1>3. ASSUME NEW d \in Conn \ {c} PROVE SilentFor(d)'
  <2>1. st'[d] = st[d] /\ waited'[d] = waited[d] /\ nap'[d] = nap[d] /\ silence'[d] = silence[d]
    BY <1>1 DEF Goto, TypeOK
  <2> QED
    BY <2>1 DEF SilenceInv, SilentFor
<1> QED
  BY <1>2, <1>3 DEF SilenceInv

\* While time passes, what is counted as silence is taken from the sleep or
\* added to the wait: no task that is due is overtaken by the clock.
LEMMA TickSilence ==
    ASSUME TypeOK, SilenceInv, Tick PROVE SilenceInv'
<1> SUFFICES ASSUME NEW c \in Conn PROVE SilentFor(c)'
  BY DEF SilenceInv
<1>1. /\ silence[c] \in 0..SilenceCap /\ nap[c] \in 0..MaxBackoff /\ waited[c] \in 0..Timeout
      /\ SilentFor(c) /\ ~Due(c) /\ st'[c] = st[c]
  BY DEF TypeOK, Tick, SilenceInv
<1>2. /\ waited'[c] = IF st[c] = "loop" THEN Smaller(waited[c] + 1, Timeout) ELSE 0
      /\ nap'[c] = IF st[c] = "nap" THEN Down(nap[c]) ELSE nap[c]
      /\ silence'[c] = IF st[c] \in {"away", "sending"} THEN 0
                       ELSE Smaller(silence[c] + 1, SilenceCap)
  BY DEF Tick
<1>3. CASE st[c] \in {"away", "sending"}
  BY <1>1, <1>2, <1>3 DEF SilentFor
<1>4. CASE st[c] = "nap"
  <2>1. nap[c] >= 1 /\ nap'[c] = nap[c] - 1 /\ silence'[c] <= silence[c] + 1
    BY <1>1, <1>2, <1>4, Numbers DEF Due, Down, Smaller
  <2>2. silence'[c] \in Nat
    BY <1>1, <1>2, <1>4, Numbers DEF Smaller
  <2> QED
    BY <1>1, <1>4, <2>1, <2>2, Numbers DEF SilentFor
<1>5. CASE st[c] = "loop"
  <2>1. waited[c] < Timeout
    BY <1>1, <1>5, Numbers DEF Due, TimedOut
  <2>2. waited'[c] = waited[c] + 1 /\ silence'[c] <= silence[c] + 1 /\ silence'[c] \in Nat
    BY <1>1, <1>2, <1>5, <2>1, Numbers DEF Smaller
  <2> QED
    BY <1>1, <1>5, <2>2, Numbers DEF SilentFor
<1>6. st[c] \in Places
  BY DEF TypeOK, Places
<1> QED
  BY <1>3, <1>4, <1>5, <1>6 DEF Places

LEMMA StepSilence == TypeOK /\ SilenceInv /\ [Next]_vars => SilenceInv'
<1> SUFFICES ASSUME TypeOK, SilenceInv, [Next]_vars PROVE SilenceInv'
  OBVIOUS
<1>1. ASSUME NEW c \in Conn, Hears(c) PROVE SilenceInv'
  BY <1>1, HearsGoes, HeardSilence
<1>2. CASE UNCHANGED vars
  BY <1>2 DEF vars, sockVars, SilenceInv, SilentFor
<1> QED
  BY <1>1, <1>2, NextCases, TickSilence, WakeSilence

\* A silent connection is closed within the heartbeat timeout and one backoff
\* sleep, for any timeouts and any number of connections.
THEOREM SilenceIsBounded == Spec => []SilentClosed
<1>1. Init => SilenceInv
  BY Numbers DEF Init, SilenceInv, SilentFor
<1>2. TypeOK /\ SilenceInv => SilentClosed
  <2> SUFFICES ASSUME TypeOK, SilenceInv, NEW c \in Conn
               PROVE silence[c] <= Timeout + MaxBackoff
    BY DEF SilentClosed
  <2>1. /\ silence[c] \in 0..SilenceCap /\ nap[c] \in 0..MaxBackoff /\ waited[c] \in 0..Timeout
        /\ st[c] \in Places /\ SilentFor(c)
    BY DEF TypeOK, SilenceInv, Places
  <2> QED
    BY <2>1, Numbers DEF SilentFor, Places
<1> QED
  BY <1>1, <1>2, StepSilence, TypesHold, PTL DEF Spec
----------------------------------------------------------------------------
(***************************************************************************)
(* The sleeps.  Only a wrong password raises a count, and by one.          *)
(***************************************************************************)

\* A wrong password is the only step that raises a count; a login and the
\* passing of time never do.
LEMMA OnlyFailuresCount ==
    ASSUME TypeOK, [Next]_vars, NEW i \in IP, ipFailures'[i] = ipFailures[i] + 1
    PROVE  \E d \in Conn : WrongPassword(d) /\ IpOf[d] = i
<1>0. ipFailures[i] \in Nat /\ 0 # ipFailures[i] + 1 /\ ipFailures[i] # ipFailures[i] + 1
  BY Numbers DEF TypeOK
<1>1. ASSUME NEW c \in Conn, Login(c) PROVE FALSE
  <2>1. ipFailures'[i] \in {0, ipFailures[i]}
    BY <1>1 DEF Login, TypeOK
  <2> QED
    BY <1>0, <2>1
<1>2. ASSUME NEW d \in Conn, WrongPassword(d), i # IpOf[d] PROVE FALSE
  <2>1. RecordFailure(IpOf[d])
    BY <1>2 DEF WrongPassword
  <2>2. ipFailures'[i] \in {0, ipFailures[i]}
    BY <1>2, <2>1 DEF RecordFailure
  <2> QED
    BY <1>0, <2>2
<1>3. CASE UNCHANGED ipFailures
  BY <1>0, <1>3
<1>4. ASSUME Next PROVE \/ UNCHANGED ipFailures
                        \/ \E c \in Conn : Login(c) \/ WrongPassword(c)
  BY <1>4 DEF Next, Tick, Open, Resume, ClientLeaves, Message, SendBlocks, SendReturns,
              SendFails, Rumble, WakeUp, BeatMissed, tableVars
<1>5. UNCHANGED vars => UNCHANGED ipFailures
  BY DEF vars, tableVars
<1> QED
  BY <1>1, <1>2, <1>3, <1>4, <1>5

\* Of all the connections of an address, the one over which the wrong password
\* came is the one that falls asleep.
LEMMA StepSleeps ==
    ASSUME TypeOK, [Next]_vars, NEW c \in Conn,
           st[c] = "loop", st'[c] \in {"nap", "sending"},
           ipFailures'[IpOf[c]] = ipFailures[IpOf[c]] + 1
    PROVE  /\ ipFailures[IpOf[c]] + 1 < MaxFailures
           /\ nap'[c] = Smaller(Base * 2^(ipFailures[IpOf[c]]), MaxBackoff)
<1>1. IpOf[c] \in IP /\ ipFailures[IpOf[c]] \in Nat
  BY ClockAssumption, Numbers DEF TypeOK
<1>2. PICK d \in Conn : WrongPassword(d) /\ IpOf[d] = IpOf[c]
  BY <1>1, OnlyFailuresCount
<1>3. st'[c] # st[c] /\ st'[c] # "away"
  OBVIOUS
<1>4. ~End(d)
  BY <1>3 DEF End, Goto, TypeOK
<1>5. PICK place \in {"nap", "sending"} : Goto(d, place, hold'[IpOf[c]], TRUE)
  BY <1>2, <1>4 DEF WrongPassword
<1>6. d = c
  BY <1>3, <1>5 DEF Goto, TypeOK
<1>7. nap'[c] = hold'[IpOf[c]]
  BY <1>5, <1>6 DEF Goto, TypeOK
<1>8. hold'[IpOf[c]] = Backoff(ipFailures[IpOf[c]] + 1)
  BY <1>1, <1>2 DEF WrongPassword, RecordFailure, TypeOK
<1>9. ~(ipFailures'[IpOf[c]] >= MaxFailures)
  BY <1>2, <1>4 DEF WrongPassword
<1> QED
  BY <1>1, <1>7, <1>8, <1>9, BackoffValue, Numbers

\* After a wrong password that leaves its address below the limit, the sleep is
\* base * 2^(failures - 1), cut off at the maximum, whatever the base, the
\* maximum and the failures of the other connections: no saturation of the u64
\* arithmetic shows.
THEOREM SleepsDouble == Spec => SleepDoubles
<1>1. ASSUME TypeOK, [Next]_vars
      PROVE  \A c \in Conn : LET f == ipFailures[IpOf[c]] IN
                 /\ st[c] = "loop" /\ st'[c] \in {"nap", "sending"}
                 /\ ipFailures'[IpOf[c]] = f + 1
                 => f + 1 < MaxFailures /\ nap'[c] = Smaller(Base * 2^f, MaxBackoff)
  BY <1>1, StepSleeps
<1> QED
  BY <1>1, TypesHold, PTL DEF Spec, SleepDoubles
----------------------------------------------------------------------------
(***************************************************************************)
(* SocketClock implements FailureTable: entries expire while time passes,  *)
(* and nothing but a failure takes an expired entry away.                  *)
(***************************************************************************)
Aged == {i \in IP : ipFailures[i] > 0 /\ Expired(i)}

LEMMA TickExpires == ASSUME TypeOK, Tick PROVE Table!Expire
<1>1. UNCHANGED ipFailures
  BY DEF Tick
<1>2. \A i \in IP : ipFailures[i] > 0 /\ Expired(i) => Expired(i)'
  <2> SUFFICES ASSUME NEW i \in IP, ipFailures[i] > 0, Expired(i) PROVE Expired(i)'
    OBVIOUS
  <2>1. hold'[i] = Down(hold[i]) /\ age'[i] = IF ipFailures[i] = 0 THEN 0 ELSE Smaller(age[i] + 1, Window)
    BY DEF Tick
  <2>2. age[i] \in Nat /\ ipFailures[i] \in Nat
    BY Numbers DEF TypeOK
  <2> QED
    BY <2>1, <2>2, Numbers DEF Expired, Down, Smaller
<1>3. Aged \subseteq Aged' /\ Aged' \subseteq {i \in IP : ipFailures[i] > 0}
  BY <1>1, <1>2 DEF Aged
<1> QED
  BY <1>1, <1>3 DEF Table!Expire, Aged

LEMMA FailureFails ==
    ASSUME TypeOK, NEW ip \in IP, RecordFailure(ip) PROVE Table!Fail(ip)
<1>1. /\ ipFailures' = [i \in IP |-> IF i = ip THEN ipFailures[ip] + 1
                                   ELSE IF Expired(i) THEN 0 ELSE ipFailures[i]]
      /\ \A i \in IP : ipFailures[i] \in Nat
  BY Numbers DEF RecordFailure, TypeOK
<1>2. ipFailures' \in [IP -> Nat] /\ ipFailures'[ip] = ipFailures[ip] + 1
  BY <1>1
<1>3. ASSUME NEW i \in IP \ {ip}
      PROVE  ipFailures'[i] = ipFailures[i] \/ (ipFailures'[i] = 0 /\ i \in Aged)
  BY <1>1, <1>3 DEF Aged
<1>4. Aged' = {}
  <2> SUFFICES ASSUME NEW i \in IP, hold'[i] = 0, age'[i] >= Window PROVE FALSE
    BY DEF Aged, Expired
  <2>1. age'[i] = 0 \/ (age'[i] = age[i] /\ ~Expired(i) /\ i # ip)
    BY DEF RecordFailure
  <2>2. hold'[i] = hold[i] \/ i = ip
    BY DEF RecordFailure, TypeOK
  <2> QED
    BY <2>1, <2>2, Numbers DEF Expired
<1> QED
  BY <1>2, <1>3, <1>4 DEF Table!Fail, Aged

LEMMA LoginResets ==
    ASSUME TypeOK, NEW c \in Conn, Login(c) PROVE Table!Reset(IpOf[c])
<1>1. IpOf[c] \in IP
  BY ClockAssumption
<1>2. ipFailures' = [ipFailures EXCEPT ![IpOf[c]] = 0]
  BY DEF Login
<1>3. ASSUME NEW i \in IP, i # IpOf[c]
      PROVE  ipFailures'[i] = ipFailures[i] /\ hold'[i] = hold[i] /\ age'[i] = age[i]
  BY <1>3 DEF Login, TypeOK
<1>4. ipFailures'[IpOf[c]] = 0
  BY <1>1 DEF Login, TypeOK
<1>5. Aged' = Aged \ {IpOf[c]}
  BY <1>3, <1>4 DEF Aged, Expired
<1> QED
  BY <1>2, <1>5 DEF Table!Reset, Aged

LEMMA StepImplements == TypeOK /\ [Next]_vars => [Table!TableNext]_(Table!table)
<1> SUFFICES ASSUME TypeOK, [Next]_vars PROVE [Table!TableNext]_(Table!table)
  OBVIOUS
<1>1. CASE Tick
  BY <1>1, TickExpires DEF Table!TableNext
<1>2. ASSUME NEW c \in Conn, Login(c) PROVE Table!TableNext
  BY <1>2, LoginResets, ClockAssumption DEF Table!TableNext
<1>3. ASSUME NEW c \in Conn, WrongPassword(c) PROVE Table!TableNext
  <2>1. IpOf[c] \in IP /\ RecordFailure(IpOf[c])
    BY <1>3, ClockAssumption DEF WrongPassword
  <2> QED
    BY <2>1, FailureFails DEF Table!TableNext
<1>4. CASE UNCHANGED tableVars
  <2>1. UNCHANGED ipFailures /\ Aged' = Aged
    BY <1>4 DEF tableVars, Aged, Expired
  <2> QED
    BY <2>1 DEF Table!table, Aged
<1>5. ASSUME Next PROVE \/ Tick \/ UNCHANGED tableVars
                        \/ \E c \in Conn : Login(c) \/ WrongPassword(c)
  BY <1>5 DEF Next, Open, Resume, ClientLeaves, Message, SendBlocks, SendReturns,
              SendFails, Rumble, WakeUp, BeatMissed
<1>6. UNCHANGED vars => UNCHANGED tableVars
  BY DEF vars
<1> QED
  BY <1>1, <1>2, <1>3, <1>4, <1>5, <1>6

\* The timed table does nothing FailureTable does not allow: an address is
\* forgotten by its login, or by another failure once its window is over.
THEOREM Implementation == Spec => ImplementsFailureTable
<1>1. Init => Table!TableInit
  BY DEF Init, Table!TableInit
<1> QED
  BY <1>1, StepImplements, TypesHold, PTL DEF Spec, ImplementsFailureTable, Table!TableSpec
=============================================================================
