------------------------- MODULE WsHandlerRefinement -------------------------
(***************************************************************************)
(* WsHandler implements WsService: every step of a task opens a            *)
(* connection, logs it in, plugs its controller in or out, closes it, or   *)
(* is invisible.  The guards of Open count permits, so they follow from    *)
(* the inductive invariant in the state after the step.                    *)
(***************************************************************************)
EXTENDS WsHandlerProofs

\* The refinement mapping, by name.
Served == {c \in Conn : pc[c] \in SocketPlaces \ {"dropUnauth"}}
LoggedIn == {c \in Conn : authenticated[c]}
Driving == {c \in Conn : controllerId[c] # None}

LEMMA InitImplements == Init => Service!Init
BY DEF Init, Service!Init, SocketPlaces, LoopPlaces, CleanupPlaces

\* The counts of the abstract service are within its limits, in every state.
WithinLimits == /\ Cardinality(Served) <= MaxTotal
                /\ Cardinality(Served \ LoggedIn) <= MaxUnauth

LEMMA ServedBounded == IInv => WithinLimits
<1> SUFFICES ASSUME IInv PROVE WithinLimits
  OBVIOUS
<1>1. /\ Served \subseteq Holders
      /\ Served \ LoggedIn \subseteq UnauthHolders
  BY DEF IInv, LocalsFollowPlace, LocalsAtPlace, Strangers, Served, LoggedIn, Holders,
         UnauthHolders, HoldingPlaces
<1>2. /\ Cardinality(Served) \in Nat
      /\ Cardinality(Served) <= Cardinality(Holders)
      /\ Cardinality(Served \ LoggedIn) \in Nat
      /\ Cardinality(Served \ LoggedIn) <= Cardinality(UnauthHolders)
  BY <1>1, HoldersFinite, FS_Subset, FS_CardinalityType
<1> QED
  BY <1>2, HoldersFinite, LimitAssumption DEF IInv, TypeOK, PermitsConserved, WithinLimits

LEMMA ServedBoundedNext == IInv' => WithinLimits'
BY ServedBounded, PTL

\* Every step of the handler is a step of the service or invisible to it.
LEMMA StepImplements == IInv /\ IInv' /\ [Next]_vars => [Service!Next]_(Service!svars)
<1> SUFFICES ASSUME IInv, IInv', [Next]_vars PROVE [Service!Next]_(Service!svars)
  OBVIOUS
<1>0. \A c \in Conn : LocalsAtPlace(c)
  BY DEF IInv, LocalsFollowPlace
<1>n. ASSUME UNCHANGED <<Served, LoggedIn, Driving>> PROVE UNCHANGED Service!svars
  BY <1>n DEF Service!svars, Served, LoggedIn, Driving
<1>t. TypeOK
  BY DEF IInv
<1> USE <1>0, <1>t DEF TypeOK, LocalsAtPlace, GoTo, Served, LoggedIn, Driving,
        SocketPlaces, LoopPlaces, CleanupPlaces, locals
<1>1. ASSUME NEW c \in Conn, Upgrade(c) PROVE UNCHANGED <<Served, LoggedIn, Driving>>
  BY <1>1 DEF Upgrade, ValidateToken, CheckIp, AcquireTotal, RefuseTotal,
              AcquireUnauth, RefuseUnauth, UpgradeFails, Abandon
<1>2. ASSUME NEW c \in Conn, Login(c)
      PROVE  Service!Login(c) \/ UNCHANGED <<Served, LoggedIn, Driving>>
  <2>1. CASE CreateSession(c)
    <3>1. UNCHANGED <<Served, Driving>> /\ LoggedIn' = LoggedIn \cup {c} /\ c \in Served
      BY <2>1 DEF CreateSession
    <3> QED
      BY <3>1 DEF Service!Login
  <2>2. CASE AuthSucceeds(c) \/ RemoveOldSession(c)
    BY <2>2 DEF AuthSucceeds, RemoveOldSession
  <2>3. CASE SendAuthSuccess(c)
    BY <2>3 DEF SendAuthSuccess
  <2>4. CASE AuthFails(c) \/ CheckMax(c) \/ Backoff(c)
    BY <2>4 DEF AuthFails, CheckMax, Backoff
  <2> QED
    BY <1>2, <2>1, <2>2, <2>3, <2>4 DEF Login
<1>3. ASSUME NEW c \in Conn, Serve(c)
      PROVE  Service!Open(c) \/ Service!PlugIn(c) \/ UNCHANGED <<Served, LoggedIn, Driving>>
  <2>1. CASE StartSocket(c)
    <3>1. c \notin Served /\ Served' = Served \cup {c} /\ Driving' = Driving
      BY <2>1 DEF StartSocket
    <3>2. LoggedIn' \in {LoggedIn, LoggedIn \cup {c}}
      <4>1. LoggedIn' = LoggedIn \/ LoggedIn' = LoggedIn \cup {c}
        BY <2>1 DEF StartSocket
      <4> QED
        BY <4>1
    \* Cardinality is unfolded below because Service has its own copy of it.
    <3>3. Cardinality(Served') <= MaxTotal /\ Cardinality(Served' \ LoggedIn') <= MaxUnauth
      BY ServedBoundedNext DEF WithinLimits
    <3> QED
      BY <3>1, <3>2, <3>3, Zenon DEF Service!Open, Cardinality, Service!Cardinality
  <2>2. CASE CreateController(c)
    <3>1. UNCHANGED <<Served, LoggedIn>> /\ Driving' = Driving \cup {c}
      BY <2>2, NoneAssumption DEF CreateController, FreshIds
    <3>2. c \in LoggedIn \ Driving
      BY <2>2 DEF CreateController
    <3> QED
      BY <3>1, <3>2 DEF Service!PlugIn
  <2>3. CASE CreateFails(c) \/ StartUpdate(c) \/ FinishUpdate(c)
             \/ ClientLeaves(c) \/ HeartbeatTimeout(c)
    BY <2>3 DEF CreateFails, StartUpdate, FinishUpdate, ClientLeaves, HeartbeatTimeout
  <2> QED
    BY <1>3, <2>1, <2>2, <2>3 DEF Serve
<1>4. ASSUME NEW c \in Conn, Cleanup(c)
      PROVE  Service!Unplug(c) \/ Service!Close(c) \/ UNCHANGED <<Served, LoggedIn, Driving>>
  <2>1. CASE DestroyController(c)
    <3>1. UNCHANGED <<Served, LoggedIn>> /\ Driving' = Driving \ {c}
      BY <2>1 DEF DestroyController
    <3>2. CASE c \in Driving
      BY <3>1, <3>2 DEF Service!Unplug
    <3>3. CASE c \notin Driving
      BY <3>1, <3>3
    <3> QED
      BY <3>2, <3>3
  <2>2. CASE RemoveSession(c)
    <3>1. /\ c \in Served \ Driving
          /\ Served' = Served \ {c} /\ LoggedIn' = LoggedIn \ {c} /\ Driving' = Driving
      BY <2>2 DEF RemoveSession
    <3> QED
      BY <3>1 DEF Service!Close
  <2>3. CASE SendClose(c) \/ DropUnauth(c) \/ DropTotal(c)
    BY <2>3 DEF SendClose, DropUnauth, DropTotal
  <2> QED
    BY <1>4, <2>1, <2>2, <2>3 DEF Cleanup
<1>5. ASSUME NEW ip \in IP, Age(ip) PROVE UNCHANGED <<Served, LoggedIn, Driving>>
  BY <1>5 DEF Age
<1>6. ASSUME UNCHANGED vars PROVE UNCHANGED <<Served, LoggedIn, Driving>>
  BY <1>6 DEF vars
<1>7. ASSUME NEW c \in Conn,
             Service!Open(c) \/ Service!Login(c) \/ Service!PlugIn(c)
               \/ Service!Unplug(c) \/ Service!Close(c)
      PROVE  Service!Next
  BY <1>7 DEF Service!Next
<1> QED
  BY <1>1, <1>2, <1>3, <1>4, <1>5, <1>6, <1>7, <1>n DEF Next

\* The handler keeps every promise of the abstract service.
THEOREM Implementation == Spec => ImplementsService
BY InitImplements, StepImplements, Invariance, PTL DEF Spec, ImplementsService, Service!Spec
=============================================================================
