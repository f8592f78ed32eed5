--------------------------- MODULE WsHandlerProofs ---------------------------
(***************************************************************************)
(* The safety invariants of WsHandler hold for every number of slots,      *)
(* addresses, tokens and controllers and for every limit.                  *)
(*                                                                         *)
(* The inductive invariant is                                              *)
(*    TypeOK /\ LocalsFollowPlace /\ PermitsConserved                      *)
(*           /\ SessionsOwned /\ ControllersOwned.                         *)
(* LocalsFollowPlace carries it: it says which locals a task may still     *)
(* have at each place, and so what each release and removal really gives   *)
(* back.  The bounds (StrangersBounded, ControllersBounded) follow from it *)
(* by counting.                                                            *)
(***************************************************************************)
EXTENDS WsHandler, FiniteSetTheorems, TLAPS

-----------------------------------------------------------------------------
(* Types *)

\* Giving back a permit that may not be there.
LEMMA ReleaseTyped ==
  ASSUME TypeOK, NEW c \in Conn, ReleaseUnauth(c)
  PROVE  unauthPermit' \in [Conn -> BOOLEAN] /\ unauthFree' \in Nat
<1>1. unauthPermit' \in [Conn -> BOOLEAN]
  BY DEF TypeOK, ReleaseUnauth
<1>2. unauthFree' = unauthFree \/ unauthFree' = unauthFree + 1
  BY DEF ReleaseUnauth
<1> QED
  BY <1>1, <1>2 DEF TypeOK

\* The initial state is typed.
LEMMA InitTyped == Init => TypeOK
BY LimitAssumption DEF Init, TypeOK, Places, FailureCount

\* Every step keeps the type invariant.
LEMMA StepTyped == TypeOK /\ [Next]_vars => TypeOK'
<1> SUFFICES ASSUME TypeOK, [Next]_vars PROVE TypeOK'
  OBVIOUS
<1> USE DEF TypeOK, Places, SocketPlaces, UpgradePlaces, LoopPlaces,
            CleanupPlaces, GoTo, locals, failureTable, permits
<1>1. ASSUME NEW c \in Conn, Upgrade(c) PROVE TypeOK'
  <2>1. ASSUME NEW t \in Token \cup {None}, ValidateToken(c, t) PROVE TypeOK'
    BY <2>1 DEF ValidateToken
  <2>2. CASE CheckIp(c)
    BY <2>2 DEF CheckIp
  <2>3. CASE AcquireTotal(c)
    BY <2>3 DEF AcquireTotal
  <2>4. CASE RefuseTotal(c)
    BY <2>4 DEF RefuseTotal
  <2>5. CASE AcquireUnauth(c)
    BY <2>5 DEF AcquireUnauth
  <2>6. CASE RefuseUnauth(c)
    BY <2>6 DEF RefuseUnauth
  <2>7. CASE UpgradeFails(c)
    BY <2>7 DEF UpgradeFails
  <2>8. CASE Abandon(c)
    BY <2>8 DEF Abandon, ReleaseUnauth
  <2> QED
    BY <1>1, <2>1, <2>2, <2>3, <2>4, <2>5, <2>6, <2>7, <2>8 DEF Upgrade
<1>2. ASSUME NEW c \in Conn, Login(c) PROVE TypeOK'
  <2>1. CASE AuthSucceeds(c)
    <3>1. wasAuth' \in [Conn -> BOOLEAN]
      BY <2>1 DEF AuthSucceeds
    <3>2. ipFailures' \in [IP -> FailureCount]
      <4>1. 0 \in FailureCount
        BY LimitAssumption DEF FailureCount
      <4> QED
        BY <2>1, <4>1 DEF AuthSucceeds
    <3> QED
      BY <2>1, <3>1, <3>2 DEF AuthSucceeds
  <2>2. CASE RemoveOldSession(c)
    BY <2>2 DEF RemoveOldSession
  <2>3. CASE CreateSession(c)
    BY <2>3 DEF CreateSession, FreshTokens
  <2>4. CASE SendAuthSuccess(c)
    <3>1. pc' \in [Conn -> Places]
      BY <2>4 DEF SendAuthSuccess
    <3>2. wasAuth' \in [Conn -> BOOLEAN]
      BY <2>4 DEF SendAuthSuccess
    <3>3. unauthPermit' \in [Conn -> BOOLEAN] /\ unauthFree' \in Nat
      BY <2>4, ReleaseTyped DEF SendAuthSuccess
    <3> QED
      BY <2>4, <3>1, <3>2, <3>3 DEF SendAuthSuccess
  <2>5. CASE AuthFails(c)
    BY <2>5, ConnAssumption, LimitAssumption DEF AuthFails, FailureCount
  <2>6. CASE CheckMax(c)
    BY <2>6 DEF CheckMax
  <2>7. CASE Backoff(c)
    BY <2>7 DEF Backoff
  <2> QED
    BY <1>2, <2>1, <2>2, <2>3, <2>4, <2>5, <2>6, <2>7 DEF Login
<1>3. ASSUME NEW c \in Conn, Serve(c) PROVE TypeOK'
  <2>1. CASE StartSocket(c)
    <3>1. (token[c] # None) \in BOOLEAN
      OBVIOUS
    <3>2. authenticated' \in [Conn -> BOOLEAN]
      BY <2>1, <3>1, Zenon DEF StartSocket
    <3>3. unauthPermit' \in [Conn -> BOOLEAN] /\ unauthFree' \in Nat
      BY <2>1, ReleaseTyped DEF StartSocket
    <3> QED
      BY <2>1, <3>2, <3>3 DEF StartSocket
  <2>2. CASE CreateController(c)
    BY <2>2 DEF CreateController, FreshIds
  <2>3. CASE CreateFails(c)
    BY <2>3 DEF CreateFails
  <2>4. CASE StartUpdate(c) \/ FinishUpdate(c)
    BY <2>4 DEF StartUpdate, FinishUpdate
  <2>5. CASE ClientLeaves(c) \/ HeartbeatTimeout(c)
    BY <2>5 DEF ClientLeaves, HeartbeatTimeout
  <2> QED
    BY <1>3, <2>1, <2>2, <2>3, <2>4, <2>5 DEF Serve
<1>4. ASSUME NEW c \in Conn, Cleanup(c) PROVE TypeOK'
  <2>1. CASE SendClose(c)
    BY <2>1 DEF SendClose
  <2>2. CASE DestroyController(c)
    BY <2>2 DEF DestroyController
  <2>3. CASE RemoveSession(c)
    BY <2>3 DEF RemoveSession
  <2>4. CASE DropUnauth(c)
    BY <2>4 DEF DropUnauth, ReleaseUnauth
  <2>5. CASE DropTotal(c)
    BY <2>5 DEF DropTotal
  <2> QED
    BY <1>4, <2>1, <2>2, <2>3, <2>4, <2>5 DEF Cleanup
<1>5. ASSUME NEW ip \in IP, Age(ip) PROVE TypeOK'
  BY <1>5 DEF Age
<1>6. CASE UNCHANGED vars
  BY <1>6 DEF vars
<1> QED
  BY <1>1, <1>2, <1>3, <1>4, <1>5, <1>6 DEF Next

\* Every variable of WsHandler keeps its type.
THEOREM TypeCorrect == Spec => []TypeOK
BY InitTyped, StepTyped, PTL DEF Spec

-----------------------------------------------------------------------------
(* Locals *)

\* All slots are idle at first, with no locals.
LEMMA InitLocals == Init => LocalsFollowPlace
BY DEF Init, LocalsFollowPlace, LocalsAtPlace, Strangers, SocketPlaces, LoopPlaces,
       CleanupPlaces

\* Every step keeps the locals of every task in line with its place.
LEMMA StepLocals == TypeOK /\ LocalsFollowPlace /\ [Next]_vars => LocalsFollowPlace'
<1> SUFFICES ASSUME TypeOK, LocalsFollowPlace, [Next]_vars,
                    NEW d \in Conn
             PROVE  LocalsAtPlace(d)'
  BY DEF LocalsFollowPlace
<1>0. LocalsAtPlace(d)
  BY DEF LocalsFollowPlace
<1> USE <1>0 DEF TypeOK, LocalsAtPlace, Strangers, GoTo, SocketPlaces, LoopPlaces,
                 CleanupPlaces, locals, permits, failureTable
<1>1. ASSUME NEW c \in Conn, Upgrade(c) PROVE LocalsAtPlace(d)'
  <2>1. ASSUME NEW t \in Token \cup {None}, ValidateToken(c, t) PROVE LocalsAtPlace(d)'
    BY <2>1, NoneAssumption DEF ValidateToken
  <2>2. CASE CheckIp(c)
    BY <2>2 DEF CheckIp
  <2>3. CASE AcquireTotal(c)
    BY <2>3 DEF AcquireTotal
  <2>4. CASE RefuseTotal(c)
    BY <2>4 DEF RefuseTotal
  <2>5. CASE AcquireUnauth(c)
    BY <2>5 DEF AcquireUnauth
  <2>6. CASE RefuseUnauth(c)
    BY <2>6 DEF RefuseUnauth
  <2>7. CASE UpgradeFails(c)
    BY <2>7 DEF UpgradeFails
  <2>8. CASE Abandon(c)
    BY <2>8 DEF Abandon, ReleaseUnauth
  <2> QED
    BY <1>1, <2>1, <2>2, <2>3, <2>4, <2>5, <2>6, <2>7, <2>8 DEF Upgrade
<1>2. ASSUME NEW c \in Conn, Login(c) PROVE LocalsAtPlace(d)'
  <2>1. CASE AuthSucceeds(c)
    BY <2>1 DEF AuthSucceeds
  <2>2. CASE RemoveOldSession(c)
    BY <2>2 DEF RemoveOldSession
  <2>3. CASE CreateSession(c)
    BY <2>3, NoneAssumption DEF CreateSession, FreshTokens
  <2>4. CASE SendAuthSuccess(c)
    BY <2>4 DEF SendAuthSuccess, ReleaseUnauth
  <2>5. CASE AuthFails(c)
    BY <2>5 DEF AuthFails
  <2>6. CASE CheckMax(c)
    BY <2>6 DEF CheckMax
  <2>7. CASE Backoff(c)
    BY <2>7 DEF Backoff
  <2> QED
    BY <1>2, <2>1, <2>2, <2>3, <2>4, <2>5, <2>6, <2>7 DEF Login
<1>3. ASSUME NEW c \in Conn, Serve(c) PROVE LocalsAtPlace(d)'
  <2>1. CASE StartSocket(c)
    BY <2>1 DEF StartSocket, ReleaseUnauth
  <2>2. CASE CreateController(c)
    BY <2>2 DEF CreateController, FreshIds
  <2>3. CASE CreateFails(c)
    BY <2>3 DEF CreateFails
  <2>4. CASE StartUpdate(c) \/ FinishUpdate(c)
    BY <2>4 DEF StartUpdate, FinishUpdate
  <2>5. CASE ClientLeaves(c) \/ HeartbeatTimeout(c)
    BY <2>5 DEF ClientLeaves, HeartbeatTimeout
  <2> QED
    BY <1>3, <2>1, <2>2, <2>3, <2>4, <2>5 DEF Serve
<1>4. ASSUME NEW c \in Conn, Cleanup(c) PROVE LocalsAtPlace(d)'
  <2>1. CASE SendClose(c)
    BY <2>1 DEF SendClose
  <2>2. CASE DestroyController(c)
    BY <2>2 DEF DestroyController
  <2>3. CASE RemoveSession(c)
    BY <2>3 DEF RemoveSession
  <2>4. CASE DropUnauth(c)
    BY <2>4 DEF DropUnauth, ReleaseUnauth
  <2>5. CASE DropTotal(c)
    BY <2>5 DEF DropTotal
  <2> QED
    BY <1>4, <2>1, <2>2, <2>3, <2>4, <2>5 DEF Cleanup
<1>5. ASSUME NEW ip \in IP, Age(ip) PROVE LocalsAtPlace(d)'
  BY <1>5 DEF Age
<1>6. CASE UNCHANGED vars
  BY <1>6 DEF vars
<1> QED
  BY <1>1, <1>2, <1>3, <1>4, <1>5, <1>6 DEF Next

-----------------------------------------------------------------------------
(* Permits *)

\* The sets that are counted are finite.
LEMMA HoldersFinite ==
  /\ IsFiniteSet(Holders) /\ Cardinality(Holders) \in Nat
  /\ IsFiniteSet(UnauthHolders) /\ Cardinality(UnauthHolders) \in Nat
BY ConnAssumption, FS_Subset, FS_CardinalityType DEF Holders, UnauthHolders

LEMMA InitPermits == Init => PermitsConserved
<1> SUFFICES ASSUME Init PROVE PermitsConserved
  OBVIOUS
<1>1. Holders = {} /\ UnauthHolders = {}
  BY DEF Init, Holders, UnauthHolders, HoldingPlaces, SocketPlaces, LoopPlaces,
         CleanupPlaces
<1> QED
  BY <1>1, FS_EmptySet, LimitAssumption DEF Init, PermitsConserved

\* How the owners of a total permit change when one task moves on.
LEMMA HoldersMove ==
  ASSUME TypeOK, NEW c \in Conn, NEW from, NEW to, GoTo(c, from, to)
  PROVE  /\ (from \in HoldingPlaces <=> to \in HoldingPlaces)
              => Cardinality(Holders)' = Cardinality(Holders)
         /\ from \notin HoldingPlaces /\ to \in HoldingPlaces
              => Cardinality(Holders)' = Cardinality(Holders) + 1
         /\ from \in HoldingPlaces /\ to \notin HoldingPlaces
              => Cardinality(Holders)' = Cardinality(Holders) - 1
<1>1. CASE from \in HoldingPlaces <=> to \in HoldingPlaces
  <2>1. Holders' = Holders
    BY <1>1 DEF Holders, TypeOK, GoTo
  <2> QED
    BY <1>1, <2>1
<1>2. CASE from \notin HoldingPlaces /\ to \in HoldingPlaces
  <2>1. Holders' = Holders \cup {c} /\ c \notin Holders
    BY <1>2 DEF Holders, TypeOK, GoTo
  <2>2. Cardinality(Holders)' = Cardinality(Holders) + 1
    BY <2>1, HoldersFinite, FS_AddElement
  <2> QED
    BY <1>2, <2>2
<1>3. CASE from \in HoldingPlaces /\ to \notin HoldingPlaces
  <2>1. Holders' = Holders \ {c} /\ c \in Holders
    BY <1>3 DEF Holders, TypeOK, GoTo
  <2>2. Cardinality(Holders)' = Cardinality(Holders) - 1
    BY <2>1, HoldersFinite, FS_RemoveElement
  <2> QED
    BY <1>3, <2>2
<1> QED
  BY <1>1, <1>2, <1>3

\* take() and drop give back one permit exactly when there is one to give back.
LEMMA ReleaseConserves ==
  ASSUME TypeOK, NEW c \in Conn, ReleaseUnauth(c)
  PROVE  (unauthFree + Cardinality(UnauthHolders))'
           = unauthFree + Cardinality(UnauthHolders)
<1> USE DEF UnauthHolders, TypeOK, ReleaseUnauth
<1>1. UnauthHolders' = UnauthHolders \ {c}
  OBVIOUS
<1>2. Cardinality(UnauthHolders)' = IF c \in UnauthHolders
                                     THEN Cardinality(UnauthHolders) - 1
                                     ELSE Cardinality(UnauthHolders)
  BY <1>1, HoldersFinite, FS_RemoveElement
<1>3. c \in UnauthHolders <=> unauthPermit[c]
  OBVIOUS
<1> QED
  BY <1>2, <1>3, HoldersFinite

\* Every step leaves permits and owners in balance.
LEMMA StepPermits ==
  TypeOK /\ LocalsFollowPlace /\ PermitsConserved /\ [Next]_vars => PermitsConserved'
<1> SUFFICES ASSUME TypeOK, LocalsFollowPlace, PermitsConserved, [Next]_vars
             PROVE  PermitsConserved'
  OBVIOUS
<1> USE HoldersFinite DEF PermitsConserved
<1>u. ASSUME UNCHANGED <<unauthPermit, unauthFree>>
      PROVE  (unauthFree + Cardinality(UnauthHolders))'
               = unauthFree + Cardinality(UnauthHolders)
  BY <1>u DEF UnauthHolders
<1>h. ASSUME UNCHANGED pc PROVE Cardinality(Holders)' = Cardinality(Holders)
  BY <1>h DEF Holders
<1> USE DEF HoldingPlaces, SocketPlaces, LoopPlaces, CleanupPlaces,
            locals, permits, TypeOK
<1>1. ASSUME NEW c \in Conn, Upgrade(c) PROVE PermitsConserved'
  <2>1. ASSUME NEW t \in Token \cup {None}, ValidateToken(c, t) PROVE PermitsConserved'
    BY <2>1, <1>u, HoldersMove DEF ValidateToken
  <2>2. CASE CheckIp(c)
    BY <2>2, <1>u, HoldersMove DEF CheckIp
  <2>3. CASE AcquireTotal(c)
    BY <2>3, <1>u, HoldersMove DEF AcquireTotal
  <2>4. CASE RefuseTotal(c)
    BY <2>4, <1>u, HoldersMove DEF RefuseTotal
  <2>5. CASE AcquireUnauth(c)
    <3>1. UnauthHolders' = UnauthHolders \cup {c} /\ c \notin UnauthHolders
      BY <2>5 DEF AcquireUnauth, GoTo, UnauthHolders, LocalsFollowPlace, LocalsAtPlace
    <3>2. Cardinality(UnauthHolders)' = Cardinality(UnauthHolders) + 1
      BY <3>1, FS_AddElement
    <3> QED
      BY <2>5, <3>2, HoldersMove DEF AcquireUnauth
  <2>6. CASE RefuseUnauth(c)
    BY <2>6, <1>u, HoldersMove DEF RefuseUnauth
  <2>7. CASE UpgradeFails(c)
    BY <2>7, <1>u, HoldersMove DEF UpgradeFails
  <2>8. CASE Abandon(c)
    BY <2>8, ReleaseConserves, HoldersMove DEF Abandon
  <2> QED
    BY <1>1, <2>1, <2>2, <2>3, <2>4, <2>5, <2>6, <2>7, <2>8 DEF Upgrade
<1>2. ASSUME NEW c \in Conn, Login(c) PROVE PermitsConserved'
  <2>1. CASE AuthSucceeds(c) \/ RemoveOldSession(c) \/ CreateSession(c)
    BY <2>1, <1>u, HoldersMove DEF AuthSucceeds, RemoveOldSession, CreateSession
  <2>2. CASE SendAuthSuccess(c)
    <3>1. Cardinality(Holders)' = Cardinality(Holders)
      BY <2>2, HoldersMove DEF SendAuthSuccess
    <3> QED
      BY <2>2, <3>1, <1>u, ReleaseConserves DEF SendAuthSuccess
  <2>3. CASE AuthFails(c) \/ CheckMax(c) \/ Backoff(c)
    BY <2>3, <1>u, HoldersMove DEF AuthFails, CheckMax, Backoff
  <2> QED
    BY <1>2, <2>1, <2>2, <2>3 DEF Login
<1>3. ASSUME NEW c \in Conn, Serve(c) PROVE PermitsConserved'
  <2>1. CASE StartSocket(c)
    <3>1. Cardinality(Holders)' = Cardinality(Holders)
      BY <2>1, HoldersMove DEF StartSocket
    <3> QED
      BY <2>1, <3>1, <1>u, ReleaseConserves DEF StartSocket
  <2>2. CASE CreateController(c) \/ CreateFails(c)
    BY <2>2, <1>u, HoldersMove DEF CreateController, CreateFails
  <2>3. CASE StartUpdate(c) \/ FinishUpdate(c)
    BY <2>3, <1>u, HoldersMove DEF StartUpdate, FinishUpdate
  <2>4. CASE ClientLeaves(c) \/ HeartbeatTimeout(c)
    BY <2>4, <1>u, HoldersMove DEF ClientLeaves, HeartbeatTimeout
  <2> QED
    BY <1>3, <2>1, <2>2, <2>3, <2>4 DEF Serve
<1>4. ASSUME NEW c \in Conn, Cleanup(c) PROVE PermitsConserved'
  <2>1. CASE SendClose(c) \/ DestroyController(c) \/ RemoveSession(c)
    BY <2>1, <1>u, HoldersMove DEF SendClose, DestroyController, RemoveSession
  <2>2. CASE DropUnauth(c)
    BY <2>2, ReleaseConserves, HoldersMove DEF DropUnauth
  <2>3. CASE DropTotal(c)
    BY <2>3, <1>u, HoldersMove DEF DropTotal
  <2> QED
    BY <1>4, <2>1, <2>2, <2>3 DEF Cleanup
<1>5. ASSUME NEW ip \in IP, Age(ip) PROVE PermitsConserved'
  BY <1>5, <1>u, <1>h DEF Age
<1>6. CASE UNCHANGED vars
  BY <1>6, <1>u, <1>h DEF vars
<1> QED
  BY <1>1, <1>2, <1>3, <1>4, <1>5, <1>6 DEF Next

-----------------------------------------------------------------------------
(* Sessions *)

\* The owner of a session that stays in the set goes on owning it.
LEMMA OwnerStays ==
  ASSUME TypeOK, LocalsFollowPlace, [Next]_vars,
         NEW t \in sessions, t \in sessions', NEW d \in Conn, Owns(d, t)
  PROVE  Owns(d, t)'
<1>0. LocalsAtPlace(d)
  BY DEF LocalsFollowPlace
<1> USE <1>0, NoneAssumption
        DEF TypeOK, LocalsAtPlace, Owns, GoTo, SocketPlaces, LoopPlaces, CleanupPlaces, locals
<1>1. ASSUME NEW c \in Conn, Upgrade(c) PROVE Owns(d, t)'
  BY <1>1 DEF Upgrade, ValidateToken, CheckIp, AcquireTotal, RefuseTotal,
              AcquireUnauth, RefuseUnauth, UpgradeFails, Abandon
<1>2. ASSUME NEW c \in Conn, Login(c) PROVE Owns(d, t)'
  <2>1. CASE AuthSucceeds(c)
    BY <2>1 DEF AuthSucceeds
  <2>2. CASE RemoveOldSession(c)
    BY <2>2 DEF RemoveOldSession
  <2>3. CASE CreateSession(c)
    BY <2>3 DEF CreateSession
  <2>4. CASE SendAuthSuccess(c)
    BY <2>4 DEF SendAuthSuccess
  <2>5. CASE AuthFails(c) \/ CheckMax(c) \/ Backoff(c)
    BY <2>5 DEF AuthFails, CheckMax, Backoff
  <2> QED
    BY <1>2, <2>1, <2>2, <2>3, <2>4, <2>5 DEF Login
<1>3. ASSUME NEW c \in Conn, Serve(c) PROVE Owns(d, t)'
  <2>1. CASE StartSocket(c)
    BY <2>1 DEF StartSocket
  <2>2. CASE CreateController(c) \/ CreateFails(c)
    BY <2>2 DEF CreateController, CreateFails
  <2>3. CASE StartUpdate(c) \/ FinishUpdate(c) \/ ClientLeaves(c) \/ HeartbeatTimeout(c)
    BY <2>3 DEF StartUpdate, FinishUpdate, ClientLeaves, HeartbeatTimeout
  <2> QED
    BY <1>3, <2>1, <2>2, <2>3 DEF Serve
<1>4. ASSUME NEW c \in Conn, Cleanup(c) PROVE Owns(d, t)'
  BY <1>4 DEF Cleanup, SendClose, DestroyController, RemoveSession, DropUnauth, DropTotal
<1>5. ASSUME NEW ip \in IP, Age(ip) PROVE Owns(d, t)'
  BY <1>5 DEF Age
<1>6. CASE UNCHANGED vars
  BY <1>6 DEF vars
<1> QED
  BY <1>1, <1>2, <1>3, <1>4, <1>5, <1>6 DEF Next

\* Only create_session adds to the set.
LEMMA OnlyCreateSessionAdds ==
  ASSUME [Next]_vars, NEW t, t \in sessions', t \notin sessions
  PROVE  \E c \in Conn : CreateSession(c)
BY DEF Next, vars, Upgrade, ValidateToken, CheckIp, AcquireTotal, RefuseTotal,
       AcquireUnauth, RefuseUnauth, UpgradeFails, Abandon,
       Login, AuthSucceeds, RemoveOldSession, SendAuthSuccess, AuthFails, CheckMax, Backoff,
       Serve, StartSocket, CreateController, CreateFails, StartUpdate, FinishUpdate,
       ClientLeaves, HeartbeatTimeout,
       Cleanup, SendClose, DestroyController, RemoveSession, DropUnauth, DropTotal, Age

\* Every step leaves every session with an owner.
LEMMA StepSessions ==
  TypeOK /\ LocalsFollowPlace /\ SessionsOwned /\ [Next]_vars => SessionsOwned'
<1> SUFFICES ASSUME TypeOK, LocalsFollowPlace, SessionsOwned, [Next]_vars,
                    NEW t \in sessions'
             PROVE  \E d \in Conn : Owns(d, t)'
  BY DEF SessionsOwned
<1>1. CASE t \in sessions
  <2>1. PICK d \in Conn : Owns(d, t)
    BY <1>1 DEF SessionsOwned
  <2>2. Owns(d, t)'
    BY <1>1, <2>1, OwnerStays
  <2> QED
    BY <2>2
<1>2. CASE t \notin sessions
  <2>1. PICK c \in Conn : CreateSession(c)
    BY <1>2, OnlyCreateSessionAdds
  <2>2. token'[c] = t
    BY <1>2, <2>1 DEF CreateSession, TypeOK
  <2>3. authenticated'[c] /\ pc'[c] \in SocketPlaces
    BY <2>1 DEF CreateSession, GoTo, TypeOK, SocketPlaces, LoopPlaces
  <2> QED
    BY <2>2, <2>3 DEF Owns
<1> QED
  BY <1>1, <1>2

-----------------------------------------------------------------------------
(* Controllers *)

\* Only create_controller and destroy_controller touch the controllers.
LEMMA OnlyTwoTouchControllers ==
  ASSUME [Next]_vars, ~UNCHANGED <<controllers, controllerId>>
  PROVE  \E c \in Conn : CreateController(c) \/ DestroyController(c)
BY DEF Next, vars, locals, Upgrade, ValidateToken, CheckIp, AcquireTotal, RefuseTotal,
       AcquireUnauth, RefuseUnauth, UpgradeFails, Abandon,
       Login, AuthSucceeds, RemoveOldSession, CreateSession, SendAuthSuccess, AuthFails,
       CheckMax, Backoff,
       Serve, StartSocket, CreateFails, StartUpdate, FinishUpdate,
       ClientLeaves, HeartbeatTimeout,
       Cleanup, SendClose, RemoveSession, DropUnauth, DropTotal, Age

\* Every step leaves every controller with exactly one owner.
LEMMA StepControllers ==
  TypeOK /\ LocalsFollowPlace /\ ControllersOwned /\ [Next]_vars => ControllersOwned'
<1> SUFFICES ASSUME TypeOK, LocalsFollowPlace, ControllersOwned, [Next]_vars
             PROVE  ControllersOwned'
  OBVIOUS
<1>1. LocalsFollowPlace'
  BY StepLocals
<1>2. ASSUME NEW d \in Conn, controllerId'[d] # None
      PROVE  authenticated'[d] /\ pc'[d] \in SocketPlaces
  BY <1>1, <1>2 DEF LocalsFollowPlace, LocalsAtPlace, SocketPlaces, CleanupPlaces
<1>3. SUFFICES
        /\ controllers' = {controllerId'[c] : c \in Conn} \ {None}
        /\ \A c, d \in Conn : controllerId'[c] # None /\ controllerId'[d] = controllerId'[c]
                              => d = c
  BY <1>2 DEF ControllersOwned
<1>4. CASE UNCHANGED <<controllers, controllerId>>
  BY <1>4 DEF ControllersOwned
<1>5. ASSUME NEW c \in Conn, CreateController(c) PROVE ControllersOwned'
  <2>1. PICK id \in FreshIds : /\ controllers' = controllers \cup {id}
                              /\ controllerId' = [controllerId EXCEPT ![c] = id]
    BY <1>5 DEF CreateController
  <2>2. controllerId[c] = None
    BY <1>5 DEF CreateController, GoTo, LocalsFollowPlace, LocalsAtPlace, LoopPlaces
  <2>3. id # None /\ id \notin controllers /\ \A d \in Conn : controllerId[d] # id
    BY NoneAssumption DEF FreshIds
  <2>4. controllerId' \in [Conn -> Controller \cup {None}]
        /\ \A d \in Conn : controllerId'[d] = IF d = c THEN id ELSE controllerId[d]
    BY <2>1 DEF TypeOK, FreshIds
  <2>5. controllers' = {controllerId'[d] : d \in Conn} \ {None}
    <3>1. ASSUME NEW x \in controllers' PROVE x \in {controllerId'[d] : d \in Conn} \ {None}
      BY <2>1, <2>2, <2>3, <2>4 DEF ControllersOwned
    <3>2. ASSUME NEW x \in {controllerId'[d] : d \in Conn} \ {None} PROVE x \in controllers'
      BY <2>1, <2>2, <2>3, <2>4 DEF ControllersOwned
    <3> QED
      BY <3>1, <3>2
  <2>6. \A a, d \in Conn : controllerId'[a] # None /\ controllerId'[d] = controllerId'[a]
                          => d = a
    BY <2>3, <2>4 DEF ControllersOwned
  <2> QED
    BY <1>2, <2>5, <2>6 DEF ControllersOwned
<1>6. ASSUME NEW c \in Conn, DestroyController(c) PROVE ControllersOwned'
  BY <1>2, <1>6 DEF DestroyController, ControllersOwned, TypeOK
<1> QED
  BY <1>4, <1>5, <1>6, OnlyTwoTouchControllers DEF ControllersOwned

-----------------------------------------------------------------------------
(* The theorems *)

IInv ==
    /\ TypeOK
    /\ LocalsFollowPlace
    /\ PermitsConserved
    /\ SessionsOwned
    /\ ControllersOwned

LEMMA InitIInv == Init => IInv
<1> SUFFICES ASSUME Init PROVE IInv
  OBVIOUS
<1>1. SessionsOwned
  BY DEF Init, SessionsOwned
<1>2. ControllersOwned
  BY DEF Init, ControllersOwned
<1> QED
  BY <1>1, <1>2, InitTyped, InitLocals, InitPermits DEF IInv

LEMMA StepIInv == IInv /\ [Next]_vars => IInv'
BY StepTyped, StepLocals, StepPermits, StepSessions, StepControllers DEF IInv

LEMMA Invariance == Spec => []IInv
BY InitIInv, StepIInv, PTL DEF Spec

\* What a task holds in its local variables is decided by its place in the code,
\* so no path of handle_socket arrives at its cleanup with a stale local.
THEOREM LocalsAreInLine == Spec => []LocalsFollowPlace
<1>1. IInv => LocalsFollowPlace
  BY DEF IInv
<1> QED
  BY <1>1, Invariance, PTL

\* No permit is ever lost or given back twice.
THEOREM PermitsAreConserved == Spec => []PermitsConserved
<1>1. IInv => PermitsConserved
  BY DEF IInv
<1> QED
  BY <1>1, Invariance, PTL

\* Every session belongs to a connection that is logged in with it.
THEOREM SessionsHaveOwners == Spec => []SessionsOwned
<1>1. IInv => SessionsOwned
  BY DEF IInv
<1> QED
  BY <1>1, Invariance, PTL

\* Every controller belongs to exactly one open, logged-in connection.
THEOREM ControllersHaveOwners == Spec => []ControllersOwned
<1>1. IInv => ControllersOwned
  BY DEF IInv
<1> QED
  BY <1>1, Invariance, PTL

\* In the loop, the unauthenticated permit is held exactly without a login.
THEOREM PermitsFollowLogins == Spec => []PermitFollowsLogin
<1>1. IInv => PermitFollowsLogin
  <2> SUFFICES ASSUME IInv, NEW c \in Conn, pc[c] \in LoopPlaces \ {"sendSuccess"}
               PROVE  unauthPermit[c] <=> ~authenticated[c]
    BY DEF PermitFollowsLogin
  <2>1. LocalsAtPlace(c)
    BY DEF IInv, LocalsFollowPlace
  <2>2. ~authenticated[c] => c \in Strangers
    BY DEF Strangers, SocketPlaces, LoopPlaces
  <2> QED
    BY <2>1, <2>2 DEF LocalsAtPlace, IInv, TypeOK
<1> QED
  BY <1>1, Invariance, PTL

\* Never more than MaxUnauth open connections without a login.
THEOREM StrangersAreBounded == Spec => []StrangersBounded
<1>1. IInv => StrangersBounded
  <2> SUFFICES ASSUME IInv PROVE Cardinality(Strangers) <= MaxUnauth
    BY DEF StrangersBounded
  <2>1. Strangers \subseteq UnauthHolders
    BY DEF IInv, LocalsFollowPlace, LocalsAtPlace, Strangers, UnauthHolders
  <2>2. /\ Cardinality(Strangers) \in Nat
        /\ Cardinality(Strangers) <= Cardinality(UnauthHolders)
    BY <2>1, HoldersFinite, FS_Subset, FS_CardinalityType
  <2> QED
    BY <2>2, HoldersFinite, LimitAssumption DEF IInv, TypeOK, PermitsConserved
<1> QED
  BY <1>1, Invariance, PTL

\* Never more controllers than total permits: the owners of the controllers
\* are as many, and each of them owns a total permit.
THEOREM ControllersAreBounded == Spec => []ControllersBounded
<1>1. IInv => ControllersBounded
  <2> SUFFICES ASSUME IInv PROVE Cardinality(controllers) <= MaxTotal
    BY DEF ControllersBounded
  <2> DEFINE owners == {c \in Conn : controllerId[c] # None}
             owned == [c \in owners |-> controllerId[c]]
  <2>1. owners \subseteq Holders
    BY DEF IInv, ControllersOwned, Holders, HoldingPlaces
  <2>2. IsFiniteSet(owners) /\ Cardinality(owners) <= Cardinality(Holders)
    BY <2>1, HoldersFinite, FS_Subset
  <2>3. owned \in Surjection(owners, controllers)
    BY DEF IInv, ControllersOwned, Surjection
  <2>4. IsFiniteSet(controllers) /\ Cardinality(controllers) <= Cardinality(owners)
    BY <2>2, <2>3, FS_Surjection
  <2>5. Cardinality(controllers) \in Nat /\ Cardinality(owners) \in Nat
    BY <2>2, <2>4, FS_CardinalityType
  <2> QED
    BY <2>2, <2>4, <2>5, HoldersFinite, LimitAssumption DEF IInv, TypeOK, PermitsConserved
<1> QED
  BY <1>1, Invariance, PTL
=============================================================================
