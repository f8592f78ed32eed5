----------------------- MODULE WsHandlerStrikesProofs -----------------------
(***************************************************************************)
(* A slot that got a wrong password in after its address was locked is     *)
(* logged in, has come with a valid token, or is on its way out - and the  *)
(* way back in leads past ws_upgrade, which refuses it while the address   *)
(* is locked.  Its next wrong password would need the loop, without a      *)
(* login.                                                                  *)
(***************************************************************************)
EXTENDS WsHandlerStrikes, WsHandlerProofs

\* Places from which, without a token, a slot of a locked address only leads
\* to the door.
Leaving == {"checkMax", "sendClose", "destroy", "removeSession", "dropUnauth", "dropTotal",
            "abandon", "idle", "checkIp"}

Spent(c) ==
    /\ ShouldDisconnect(IpOf[c])
    /\ \/ authenticated[c] \/ pc[c] \in Leaving
       \/ token[c] # None /\ pc[c] \in {"acquireTotal", "upgrade"}

StrikesInv ==
    /\ strikes \in [Conn -> 0..1]
    /\ \A c \in Conn : strikes[c] = 1 => Spent(c)

\* As long as its address stays locked, a slot that is spent stays so.
LEMMA SpentStays ==
    ASSUME TypeOK, LocalsFollowPlace, [Next]_vars, NEW d \in Conn, Spent(d),
           ShouldDisconnect(IpOf[d])'
    PROVE  Spent(d)'
<1>0. LocalsAtPlace(d)
  BY DEF LocalsFollowPlace
<1> USE <1>0 DEF TypeOK, LocalsAtPlace, Spent, Leaving, GoTo, SocketPlaces, LoopPlaces,
                 CleanupPlaces, locals, permits, failureTable
<1>1. ASSUME NEW c \in Conn, Upgrade(c) PROVE Spent(d)'
  <2>1. ASSUME NEW t \in Token \cup {None}, ValidateToken(c, t) PROVE Spent(d)'
    <3>1. t \in sessions => t # None
      BY NoneAssumption
    <3> QED
      BY <2>1, <3>1 DEF ValidateToken
  <2>2. CASE CheckIp(c)
    BY <2>2 DEF CheckIp
  <2>3. CASE AcquireTotal(c)
    BY <2>3 DEF AcquireTotal
  <2>4. CASE RefuseTotal(c)
    BY <2>4 DEF RefuseTotal
  <2>5. CASE AcquireUnauth(c)
    BY <2>5 DEF AcquireUnauth
  <2>6. CASE RefuseUnauth(c)
    BY <2>6 DEF RefuseUnauth
  <2>7. CASE UpgradeFails(c)
    BY <2>7 DEF UpgradeFails
  <2>8. CASE Abandon(c)
    BY <2>8 DEF Abandon
  <2> QED
    BY <1>1, <2>1, <2>2, <2>3, <2>4, <2>5, <2>6, <2>7, <2>8 DEF Upgrade
<1>2. ASSUME NEW c \in Conn, Login(c) PROVE Spent(d)'
  <2>1. CASE AuthSucceeds(c)
    BY <2>1 DEF AuthSucceeds
  <2>2. CASE RemoveOldSession(c)
    BY <2>2 DEF RemoveOldSession
  <2>3. CASE CreateSession(c)
    BY <2>3 DEF CreateSession
  <2>4. CASE SendAuthSuccess(c)
    BY <2>4 DEF SendAuthSuccess
  <2>5. CASE AuthFails(c)
    BY <2>5 DEF AuthFails
  <2>6. CASE CheckMax(c)
    BY <2>6 DEF CheckMax
  <2>7. CASE Backoff(c)
    BY <2>7 DEF Backoff
  <2> QED
    BY <1>2, <2>1, <2>2, <2>3, <2>4, <2>5, <2>6, <2>7 DEF Login
<1>3. ASSUME NEW c \in Conn, Serve(c) PROVE Spent(d)'
  <2>1. CASE StartSocket(c)
    BY <2>1 DEF StartSocket
  <2>2. CASE CreateController(c) \/ CreateFails(c)
    BY <2>2 DEF CreateController, CreateFails
  <2>3. CASE StartUpdate(c) \/ FinishUpdate(c)
    BY <2>3 DEF StartUpdate, FinishUpdate
  <2>4. CASE ClientLeaves(c) \/ HeartbeatTimeout(c)
    BY <2>4 DEF ClientLeaves, HeartbeatTimeout
  <2> QED
    BY <1>3, <2>1, <2>2, <2>3, <2>4 DEF Serve
<1>4. ASSUME NEW c \in Conn, Cleanup(c) PROVE Spent(d)'
  <2>1. CASE SendClose(c)
    BY <2>1 DEF SendClose
  <2>2. CASE DestroyController(c)
    BY <2>2 DEF DestroyController
  <2>3. CASE RemoveSession(c)
    BY <2>3 DEF RemoveSession
  <2>4. CASE DropUnauth(c)
    BY <2>4 DEF DropUnauth
  <2>5. CASE DropTotal(c)
    BY <2>5 DEF DropTotal
  <2> QED
    BY <1>4, <2>1, <2>2, <2>3, <2>4, <2>5 DEF Cleanup
<1>5. ASSUME NEW ip \in IP, Age(ip) PROVE Spent(d)'
  BY <1>5 DEF Age
<1>6. CASE UNCHANGED vars
  BY <1>6 DEF vars
<1> QED
  BY <1>1, <1>2, <1>3, <1>4, <1>5, <1>6 DEF Next

\* A strike is counted for a slot that is not spent, and makes it so.
LEMMA StepStrikes ==
    ASSUME TypeOK, LocalsFollowPlace, StrikesInv, Next, RecordStrikes PROVE StrikesInv'
<1> SUFFICES ASSUME NEW c \in Conn
             PROVE  strikes'[c] \in 0..1 /\ (strikes'[c] = 1 => Spent(c)')
  BY DEF StrikesInv, RecordStrikes
<1>1. /\ strikes[c] \in {0, 1} /\ (strikes[c] = 1 => Spent(c))
  BY DEF StrikesInv
<1>2. strikes'[c] = IF ~ShouldDisconnect(IpOf[c])' THEN 0
                    ELSE IF /\ Failed(c) /\ ShouldDisconnect(IpOf[c])
                            /\ ~authenticated[c] /\ strikes[c] < 2 THEN strikes[c] + 1
                    ELSE strikes[c]
  BY DEF RecordStrikes
<1>3. CASE ~ShouldDisconnect(IpOf[c])'
  BY <1>2, <1>3
<1>4. CASE /\ ShouldDisconnect(IpOf[c])'
           /\ Failed(c) /\ ~authenticated[c]
  <2>1. ~Spent(c)
    BY <1>4 DEF Failed, Spent, Leaving
  <2>2. Spent(c)'
    BY <1>4 DEF Failed, Spent, Leaving
  <2> QED
    BY <1>1, <1>2, <1>4, <2>1, <2>2
<1>5. CASE ShouldDisconnect(IpOf[c])' /\ ~(Failed(c) /\ ~authenticated[c])
  <2>1. strikes'[c] = strikes[c]
    BY <1>2, <1>5
  <2> QED
    BY <1>1, <1>5, <2>1, SpentStays
<1> QED
  BY <1>3, <1>4, <1>5

\* Once an address is locked, each slot gets at most one more wrong password in
\* without a login, for any number of slots, addresses and limits.
THEOREM LockedAddressesGetOneStrike == StrikesSpec => []OneStrikeWhenLocked
<1>1. Init /\ strikes = [c \in Conn |-> 0] => IInv /\ StrikesInv
  BY InitIInv DEF StrikesInv
<1>2. IInv /\ StrikesInv /\ [Next /\ RecordStrikes]_<<vars, strikes>> => IInv' /\ StrikesInv'
  <2> SUFFICES ASSUME IInv, StrikesInv, [Next /\ RecordStrikes]_<<vars, strikes>>
               PROVE  IInv' /\ StrikesInv'
    OBVIOUS
  <2>1. CASE Next /\ RecordStrikes
    BY <2>1, StepIInv, StepStrikes DEF IInv
  <2>2. CASE UNCHANGED <<vars, strikes>>
    <3>1. IInv'
      BY <2>2, StepIInv
    <3>2. StrikesInv'
      BY <2>2 DEF vars, locals, permits, failureTable, StrikesInv, Spent, ShouldDisconnect
    <3> QED
      BY <3>1, <3>2
  <2> QED
    BY <2>1, <2>2
<1>3. StrikesInv => OneStrikeWhenLocked
  BY DEF StrikesInv, OneStrikeWhenLocked
<1> QED
  BY <1>1, <1>2, <1>3, PTL DEF StrikesSpec
=============================================================================
