------------------------ MODULE GamepadManagerProofs ------------------------
(***************************************************************************)
(* What holds of GamepadManager for every number of connections, of calls  *)
(* of shutdown, of ids and every capacity of the rumble channels: no       *)
(* notification thread and no plugged-in controller is ever lost track of. *)
(***************************************************************************)
EXTENDS GamepadManager, TLAPS

Live(i) == thread[i] \in {"polling", "sending"}

\* An id is handed out once: a task that has one is its only owner.
IdsAreFresh ==
    /\ \A t \in Task : id[t] < nextId
    /\ \A t \in Task : pc[t] = "out" <=> id[t] = 0
    /\ \A t, u \in Task : id[t] = id[u] /\ id[t] # 0 => t = u

\* The thread starts with the target's last step before the insertion, and
\* the task's reference keeps it alive up to that insertion.
ThreadsFollowTargets ==
    /\ \A t \in Task : pc[t] = "insert" => Live(id[t])
    /\ \A i \in inMap : Live(i)

\* An entry of the map has its owner, who is not about to insert it again.
MapHasOwners ==
    \A i \in inMap :
        \E t \in Task : id[t] = i /\ pc[t] \in {"idle", "lookup", "updating"}

\* A shutdown holds only what it took out of the map, and that stays out.
TakenStaysOut ==
    \A s \in Closer :
        /\ closer[s] \in {"waiting", "take"} => toJoin[s] = {}
        /\ \A i \in toJoin[s] :
             /\ i < nextId
             /\ i \notin inMap
             /\ \A t \in Task : id[t] = i => pc[t] \notin {"plugging", "readying", "insert"}

IInv ==
    /\ TypeOK
    /\ IdsAreFresh
    /\ ThreadsFollowTargets
    /\ MapHasOwners
    /\ TakenStaysOut
    /\ ThreadsAccounted

\* The empty manager satisfies the invariant.
LEMMA InitIInv == Init => IInv
<1>. SUFFICES ASSUME Init PROVE IInv
  OBVIOUS
<1>. USE BoundAssumption DEF Init, Ids
<1>1. TypeOK
  <2>1. 0 \in 0 .. ChannelSize /\ 1 \in 1 .. MaxId + 1
    OBVIOUS
  <2>2. /\ queued \in [Ids -> 0 .. ChannelSize]
        /\ thread \in [Ids -> {"none", "polling", "sending", "done"}]
    BY <2>1
  <2>3. toDrop \in [Closer -> SUBSET Ids] /\ toJoin \in [Closer -> SUBSET Ids]
    OBVIOUS
  <2>. QED BY <2>1, <2>2, <2>3 DEF TypeOK
<1>2. IdsAreFresh /\ MapHasOwners /\ TakenStaysOut
  BY DEF IdsAreFresh, MapHasOwners, TakenStaysOut
<1>3. ThreadsFollowTargets /\ ThreadsAccounted
  BY DEF ThreadsFollowTargets, ThreadsAccounted
<1>. QED
  BY <1>1, <1>2, <1>3 DEF IInv

\* A task that is in a call, or has a controller, has an id that was handed out.
LEMMA OwnedIds ==
  ASSUME TypeOK, IdsAreFresh, NEW t \in Task, pc[t] # "out"
  PROVE  id[t] \in Ids /\ id[t] # 0
BY BoundAssumption DEF TypeOK, IdsAreFresh, Ids

\* Every step keeps the types: a new id is within the bound, and a rumble
\* channel never holds more than its capacity.
LEMMA NextTypeOK == TypeOK /\ IdsAreFresh /\ [Next]_vars => TypeOK'
<1>. SUFFICES ASSUME TypeOK, IdsAreFresh, [Next]_vars PROVE TypeOK'
  OBVIOUS
<1>. USE BoundAssumption DEF TypeOK, Ids, Go, Leave, taskVars, closerVars, tables, driver
<1>1. ASSUME NEW t \in Task, Call(t) PROVE TypeOK'
  <2>1. CASE StartCreate(t) BY <2>1 DEF StartCreate
  <2>2. CASE Plugin(t) BY <2>2 DEF Plugin
  <2>3. CASE CreateFails(t) BY <2>3 DEF CreateFails
  <2>4. CASE SpawnThread(t) BY <2>4 DEF SpawnThread
  <2>5. CASE Insert(t) BY <2>5, OwnedIds DEF Insert
  <2>6. CASE StartUpdate(t) BY <2>6 DEF StartUpdate
  <2>7. CASE Lookup(t) BY <2>7 DEF Lookup
  <2>8. CASE FinishUpdate(t) BY <2>8 DEF FinishUpdate
  <2>9. CASE Remove(t) BY <2>9 DEF Remove
  <2>10. CASE RemoveNothing(t) BY <2>10 DEF RemoveNothing
  <2>11. CASE DropTarget(t) BY <2>11 DEF DropTarget
  <2>12. CASE Join(t) BY <2>12 DEF Join
  <2>13. CASE Receive(t)
    <3>1. id[t] \in Ids
      BY <2>13, OwnedIds DEF Receive
    <3>2. queued[id[t]] - 1 \in 0 .. ChannelSize
      BY <2>13, <3>1 DEF Receive
    <3>. QED BY <2>13, <3>1, <3>2 DEF Receive
  <2>. QED BY <1>1, <2>1, <2>2, <2>3, <2>4, <2>5, <2>6, <2>7, <2>8, <2>9, <2>10,
              <2>11, <2>12, <2>13 DEF Call
<1>2. ASSUME NEW s \in Closer, Shutdown(s) PROVE TypeOK'
  <2>1. CASE SetFlag(s) BY <2>1 DEF SetFlag
  <2>2. CASE TakeMap(s) BY <2>2 DEF TakeMap
  <2>3. CASE DropOne(s) BY <2>3 DEF DropOne
  <2>4. CASE JoinOne(s) BY <2>4 DEF JoinOne
  <2>. QED BY <1>2, <2>1, <2>2, <2>3, <2>4 DEF Shutdown
<1>3. ASSUME NEW i \in Ids, Event(i) \/ TrySend(i) \/ ThreadEnds(i) PROVE TypeOK'
  <2>1. CASE Event(i) BY <2>1 DEF Event
  <2>2. CASE ThreadEnds(i) BY <2>2 DEF ThreadEnds
  <2>3. CASE TrySend(i)
    <3>1. (IF queued[i] < ChannelSize THEN queued[i] + 1 ELSE queued[i]) \in 0 .. ChannelSize
      OBVIOUS
    <3>. QED BY <2>3, <3>1 DEF TrySend
  <2>. QED BY <1>3, <2>1, <2>2, <2>3
<1>4. CASE UNCHANGED vars
  BY <1>4 DEF vars
<1>. QED BY <1>1, <1>2, <1>3, <1>4 DEF Next

\* Every step keeps ids unique: only create_controller takes one, a fresh one.
LEMMA NextIdsAreFresh ==
  TypeOK /\ IdsAreFresh /\ [Next]_vars => IdsAreFresh'
<1>. SUFFICES ASSUME TypeOK, IdsAreFresh, [Next]_vars PROVE IdsAreFresh'
  OBVIOUS
<1>. USE BoundAssumption
     DEF TypeOK, IdsAreFresh, Ids, Go, Leave, taskVars, closerVars, tables, driver
<1>1. ASSUME NEW t \in Task, Call(t) PROVE IdsAreFresh'
  <2>1. CASE StartCreate(t) BY <2>1 DEF StartCreate
  <2>2. CASE CreateFails(t) BY <2>2 DEF CreateFails
  <2>6. CASE RemoveNothing(t) BY <2>6 DEF RemoveNothing
  <2>7. CASE Join(t) BY <2>7 DEF Join
  <2>3. CASE Plugin(t) \/ SpawnThread(t) \/ Insert(t)
    BY <2>3 DEF Plugin, SpawnThread, Insert
  <2>4. CASE StartUpdate(t) \/ Lookup(t) \/ FinishUpdate(t)
    BY <2>4 DEF StartUpdate, Lookup, FinishUpdate
  <2>5. CASE Remove(t) \/ DropTarget(t) \/ Receive(t)
    BY <2>5 DEF Remove, DropTarget, Receive
  <2>. QED BY <1>1, <2>1, <2>2, <2>3, <2>4, <2>5, <2>6, <2>7 DEF Call
<1>2. ASSUME NEW s \in Closer, Shutdown(s) PROVE IdsAreFresh'
  BY <1>2 DEF Shutdown, SetFlag, TakeMap, DropOne, JoinOne
<1>3. ASSUME NEW i \in Ids, Event(i) \/ TrySend(i) \/ ThreadEnds(i) PROVE IdsAreFresh'
  BY <1>3 DEF Event, TrySend, ThreadEnds
<1>4. CASE UNCHANGED vars
  BY <1>4 DEF vars
<1>. QED BY <1>1, <1>2, <1>3, <1>4 DEF Next

\* Every step keeps the books: who holds a thread's handle passes it on, and
\* lets go of it only when the thread has ended.
LEMMA NextIInv == IInv /\ [Next]_vars => IInv'
<1>. SUFFICES ASSUME IInv, [Next]_vars PROVE IInv'
  OBVIOUS
<1>1. TypeOK /\ IdsAreFresh
  BY DEF IInv
<1>2. TypeOK' /\ IdsAreFresh'
  BY <1>1, NextTypeOK, NextIdsAreFresh
<1>3. ASSUME NEW t \in Task, pc[t] # "out" PROVE id[t] \in Ids /\ id[t] # 0
  BY <1>1, <1>3, OwnedIds
<1>. DEFINE Rest == ThreadsFollowTargets /\ MapHasOwners /\ TakenStaysOut /\ ThreadsAccounted
<1>. SUFFICES Rest'
  BY <1>2 DEF IInv
<1>4. Rest
  BY DEF IInv
<1>. USE DEF ThreadsFollowTargets, MapHasOwners, TakenStaysOut, ThreadsAccounted, Live,
             TypeOK, IdsAreFresh, Ids, Go, Leave, taskVars, closerVars, tables, driver
<1>5. ASSUME NEW t \in Task, Call(t) PROVE Rest'
  <2>1. CASE StartCreate(t) BY <1>1, <1>2, <1>3, <1>4, <2>1, BoundAssumption DEF StartCreate
  <2>2. CASE Plugin(t)
    <3>1. ThreadsFollowTargets' BY <1>1, <1>3, <1>4, <2>2 DEF Plugin
    <3>2. MapHasOwners' BY <1>1, <1>3, <1>4, <2>2 DEF Plugin
    <3>3. TakenStaysOut' BY <1>1, <1>3, <1>4, <2>2 DEF Plugin
    <3>4. ThreadsAccounted' BY <1>1, <1>3, <1>4, <2>2 DEF Plugin
    <3>. QED BY <3>1, <3>2, <3>3, <3>4
  <2>3. CASE CreateFails(t)
    <3>1. ThreadsFollowTargets' BY <1>1, <1>3, <1>4, <2>3 DEF CreateFails
    <3>2. MapHasOwners' BY <1>1, <1>3, <1>4, <2>3 DEF CreateFails
    <3>3. TakenStaysOut' BY <1>1, <1>3, <1>4, <2>3 DEF CreateFails
    <3>4. ThreadsAccounted' BY <1>1, <1>3, <1>4, <2>3 DEF CreateFails
    <3>. QED BY <3>1, <3>2, <3>3, <3>4
  <2>4. CASE SpawnThread(t)
    <3>1. ThreadsFollowTargets' BY <1>1, <1>3, <1>4, <2>4 DEF SpawnThread
    <3>2. MapHasOwners' BY <1>1, <1>3, <1>4, <2>4 DEF SpawnThread
    <3>3. TakenStaysOut' BY <1>1, <1>3, <1>4, <2>4 DEF SpawnThread
    <3>4. ThreadsAccounted' BY <1>1, <1>3, <1>4, <2>4 DEF SpawnThread
    <3>. QED BY <3>1, <3>2, <3>3, <3>4
  <2>5. CASE Insert(t) BY <1>1, <1>3, <1>4, <2>5 DEF Insert
  <2>6. CASE StartUpdate(t)
    <3>1. ThreadsFollowTargets' BY <1>1, <1>3, <1>4, <2>6 DEF StartUpdate
    <3>2. MapHasOwners' BY <1>1, <1>3, <1>4, <2>6 DEF StartUpdate
    <3>3. TakenStaysOut' BY <1>1, <1>3, <1>4, <2>6 DEF StartUpdate
    <3>4. ThreadsAccounted' BY <1>1, <1>3, <1>4, <2>6 DEF StartUpdate
    <3>. QED BY <3>1, <3>2, <3>3, <3>4
  <2>7. CASE Lookup(t)
    <3>1. ThreadsFollowTargets' BY <1>1, <1>3, <1>4, <2>7 DEF Lookup
    <3>2. MapHasOwners' BY <1>1, <1>3, <1>4, <2>7 DEF Lookup
    <3>3. TakenStaysOut' BY <1>1, <1>3, <1>4, <2>7 DEF Lookup
    <3>4. ThreadsAccounted' BY <1>1, <1>3, <1>4, <2>7 DEF Lookup
    <3>. QED BY <3>1, <3>2, <3>3, <3>4
  <2>8. CASE FinishUpdate(t) BY <1>1, <1>3, <1>4, <2>8 DEF FinishUpdate
  <2>9. CASE Remove(t) BY <1>1, <1>3, <1>4, <2>9 DEF Remove
  <2>10. CASE RemoveNothing(t) BY <1>1, <1>3, <1>4, <2>10 DEF RemoveNothing
  <2>11. CASE DropTarget(t) BY <1>1, <1>3, <1>4, <2>11 DEF DropTarget
  <2>12. CASE Join(t) BY <1>1, <1>3, <1>4, <2>12 DEF Join
  <2>13. CASE Receive(t) BY <1>1, <1>4, <2>13 DEF Receive
  <2>. QED BY <1>5, <2>1, <2>2, <2>3, <2>4, <2>5, <2>6, <2>7, <2>8, <2>9, <2>10,
              <2>11, <2>12, <2>13 DEF Call
<1>6. ASSUME NEW s \in Closer, Shutdown(s) PROVE Rest'
  <2>1. CASE SetFlag(s) BY <1>1, <1>4, <2>1 DEF SetFlag
  <2>2. CASE TakeMap(s) BY <1>1, <1>4, <2>2 DEF TakeMap
  <2>3. CASE DropOne(s) BY <1>1, <1>4, <2>3 DEF DropOne
  <2>4. CASE JoinOne(s) BY <1>1, <1>4, <2>4 DEF JoinOne
  <2>. QED BY <1>6, <2>1, <2>2, <2>3, <2>4 DEF Shutdown
<1>7. ASSUME NEW i \in Ids, Event(i) \/ TrySend(i) \/ ThreadEnds(i) PROVE Rest'
  <2>1. CASE Event(i) BY <1>1, <1>4, <2>1 DEF Event
  <2>2. CASE TrySend(i) BY <1>1, <1>4, <2>2 DEF TrySend
  <2>3. CASE ThreadEnds(i)
    <3>1. i \notin inMap /\ \A t \in Task : pc[t] = "insert" => id[t] # i
      BY <2>3 DEF ThreadEnds, Plugged
    <3>2. \A j \in Ids : j # i => thread'[j] = thread[j]
      BY <1>1, <2>3 DEF ThreadEnds
    <3>3. \A j \in Ids : thread'[j] \in {"polling", "sending"} => thread[j] \in {"polling", "sending"}
      BY <1>1, <2>3 DEF ThreadEnds
    <3>4. ThreadsFollowTargets' BY <1>1, <1>3, <1>4, <2>3, <3>1, <3>2 DEF ThreadEnds
    <3>5. MapHasOwners' /\ TakenStaysOut' BY <1>4, <2>3 DEF ThreadEnds
    <3>6. ThreadsAccounted' BY <1>4, <2>3, <3>3 DEF ThreadEnds
    <3>. QED BY <3>4, <3>5, <3>6
  <2>. QED BY <1>7, <2>1, <2>2, <2>3
<1>8. CASE UNCHANGED vars
  BY <1>4, <1>8 DEF vars
<1>. QED BY <1>5, <1>6, <1>7, <1>8 DEF Next

LEMMA Inductive == Spec => []IInv
<1>1. Init => IInv
  BY InitIInv
<1>2. IInv /\ [Next]_vars => IInv'
  BY NextIInv
<1>. QED BY <1>1, <1>2, PTL DEF Spec

\* The variables of the manager keep their types: no id beyond the bound, no
\* rumble channel beyond its capacity.
THEOREM TypesHold == Spec => []TypeOK
<1>1. IInv => TypeOK
  BY DEF IInv
<1>. QED BY <1>1, Inductive, PTL

\* No notification thread is leaked, whatever creates, destroys and shutdowns
\* overlap.
THEOREM NoThreadIsLeaked == Spec => []ThreadsAccounted
<1>1. IInv => ThreadsAccounted
  BY DEF IInv
<1>. QED BY <1>1, Inductive, PTL

\* Every entry of the map belongs to the one task that created it, and to no
\* shutdown.
THEOREM EveryControllerHasOneOwner == Spec => []ControllersAccounted
<1>1. IInv => ControllersAccounted
  BY DEF IInv, ThreadsFollowTargets, MapHasOwners, TakenStaysOut, IdsAreFresh,
         ControllersAccounted, Live
<1>. QED BY <1>1, Inductive, PTL

-----------------------------------------------------------------------------
(* GamepadManager implements ControllerLife.  Besides the books, the proof  *)
(* needs to know that a shutdown that has yet to take the map holds no      *)
(* target: what it took would otherwise be forgotten all at once.           *)

HoldsNothingYet == \A s \in Closer : closer[s] \in {"waiting", "take"} => toDrop[s] = {}

LEMMA HoldsNothingInductive == Spec => []HoldsNothingYet
<1>1. Init => HoldsNothingYet
  BY DEF Init, HoldsNothingYet
<1>2. TypeOK /\ HoldsNothingYet /\ [Next]_vars => HoldsNothingYet'
  <2>. SUFFICES ASSUME TypeOK, HoldsNothingYet, [Next]_vars PROVE HoldsNothingYet'
    OBVIOUS
  <2>1. ASSUME NEW s \in Closer, Shutdown(s) PROVE HoldsNothingYet'
    BY <2>1 DEF Shutdown, SetFlag, TakeMap, DropOne, JoinOne, TypeOK, HoldsNothingYet
  <2>2. ASSUME UNCHANGED closerVars PROVE HoldsNothingYet'
    BY <2>2 DEF HoldsNothingYet, closerVars
  <2>3. ASSUME NEW t \in Task, Call(t) PROVE UNCHANGED closerVars
    BY <2>3 DEF Call, StartCreate, Plugin, CreateFails, SpawnThread, Insert, StartUpdate,
                Lookup, FinishUpdate, Remove, RemoveNothing, DropTarget, Join, Receive
  <2>4. ASSUME NEW i \in Ids, Event(i) \/ TrySend(i) \/ ThreadEnds(i) PROVE UNCHANGED closerVars
    BY <2>4 DEF Event, TrySend, ThreadEnds
  <2>. QED BY <2>1, <2>2, <2>3, <2>4 DEF Next, vars
<1>. QED BY <1>1, <1>2, TypesHold, PTL DEF Spec

\* The refinement mapping, by name.
PluggedIn == {i \in Ids : Plugged(i)}
Spent == {i \in Ids : i < nextId} \ Asking

LEMMA InitImplements == Init => Life!LifeInit
BY BoundAssumption DEF Init, Life!LifeInit, Plugged, Asking, Ids

\* A call of a connection is one step in the life of its own controller, or
\* none: it plugs it in, gives it up, or drops the last reference.
LEMMA CallImplements ==
  ASSUME TypeOK, IdsAreFresh, NEW t \in Task, Call(t)
  PROVE  \/ UNCHANGED <<PluggedIn, Spent>>
         \/ \E i \in Ids : Life!PlugIn(i) \/ Life!GiveUp(i) \/ Life!Unplug(i)
<1>. USE BoundAssumption
     DEF TypeOK, IdsAreFresh, Ids, Go, Leave, taskVars, closerVars, tables, driver
<1>0. ASSUME pc[t] # "out" PROVE id[t] \in Ids /\ id[t] # 0
  BY <1>0, OwnedIds
\* A step that only takes references away unplugs at most this controller.
<1>u. ASSUME NEW i \in Ids, Spent' = Spent,
             PluggedIn' = PluggedIn \/ PluggedIn' = PluggedIn \ {i}
      PROVE  \/ UNCHANGED <<PluggedIn, Spent>>
             \/ \E j \in Ids : Life!Unplug(j)
  <2>1. CASE PluggedIn' = PluggedIn
    BY <1>u, <2>1
  <2>2. CASE PluggedIn' = PluggedIn \ {i} /\ i \in PluggedIn
    BY <1>u, <2>2 DEF Life!Unplug, PluggedIn, Spent
  <2>3. CASE PluggedIn' = PluggedIn \ {i} /\ i \notin PluggedIn
    BY <1>u, <2>3
  <2>. QED BY <1>u, <2>1, <2>2, <2>3
<1>1. CASE StartCreate(t)
  <2>1. \A i \in Ids : Plugged(i)' <=> Plugged(i)
    BY <1>1 DEF StartCreate, Plugged
  <2>2. Asking' = Asking \cup {nextId}
    BY <1>1 DEF StartCreate, Asking
  <2>3. Spent' = Spent
    BY <1>1, <2>2 DEF StartCreate, Spent
  <2>. QED BY <2>1, <2>3 DEF PluggedIn
<1>2. CASE Plugin(t)
  <2>1. id[t] \in Ids /\ id[t] \in Asking
    BY <1>0, <1>2 DEF Plugin, Asking
  <2>2. \A i \in Ids : Plugged(i)' <=> Plugged(i) \/ i = id[t]
    BY <1>2 DEF Plugin, Plugged
  <2>3. Asking' = Asking \ {id[t]}
    BY <1>0, <1>2 DEF Plugin, Asking
  <2>4. Spent' = Spent \cup {id[t]} /\ id[t] \notin Spent
    BY <1>2, <2>1, <2>3 DEF Plugin, Spent
  <2>5. PluggedIn' = PluggedIn \cup {id[t]}
    BY <2>1, <2>2 DEF PluggedIn
  <2>. QED BY <2>1, <2>4, <2>5 DEF Life!PlugIn, Spent, PluggedIn
<1>3. CASE CreateFails(t) /\ pc[t] = "plugging"
  <2>1. id[t] \in Ids /\ id[t] \in Asking
    BY <1>0, <1>3 DEF Asking
  <2>2. \A i \in Ids : Plugged(i)' <=> Plugged(i)
    BY <1>3 DEF CreateFails, Plugged
  <2>3. Asking' = Asking \ {id[t]}
    BY <1>0, <1>3 DEF CreateFails, Asking
  <2>4. Spent' = Spent \cup {id[t]} /\ id[t] \notin Spent
    BY <1>3, <2>1, <2>3 DEF CreateFails, Spent
  <2>5. PluggedIn' = PluggedIn
    BY <2>2 DEF PluggedIn
  <2>. QED BY <2>1, <2>4, <2>5 DEF Life!GiveUp, Spent, PluggedIn
<1>4. CASE CreateFails(t) /\ pc[t] = "readying"
  <2>1. PICK i \in Ids : i = id[t]
    BY <1>0, <1>4
  <2>2. Asking' = Asking
    BY <1>4 DEF CreateFails, Asking
  <2>3. Spent' = Spent
    BY <1>4, <2>2 DEF CreateFails, Spent
  <2>4. /\ \A j \in Ids : j # i => (Plugged(j)' <=> Plugged(j))
        /\ Plugged(i)' => Plugged(i)
    BY <1>4, <2>1 DEF CreateFails, Plugged
  <2>5. PluggedIn' = PluggedIn \/ PluggedIn' = PluggedIn \ {i}
    <3>1. CASE Plugged(i)'
      <4>1. PluggedIn' = PluggedIn BY <2>4, <3>1 DEF PluggedIn
      <4>. QED BY <4>1
    <3>2. CASE ~Plugged(i)'
      <4>1. PluggedIn' = PluggedIn \ {i} BY <2>4, <3>2 DEF PluggedIn
      <4>. QED BY <4>1
    <3>. QED BY <3>1, <3>2
  <2>. QED BY <1>u, <2>1, <2>3, <2>5
\* The last reference may be that of an update or of a destroy.
<1>5. CASE FinishUpdate(t) \/ DropTarget(t)
  <2>1. PICK i \in Ids : i = id[t]
    BY <1>0, <1>5 DEF FinishUpdate, DropTarget
  <2>2. Asking' = Asking
    BY <1>5 DEF FinishUpdate, DropTarget, Asking
  <2>3. Spent' = Spent
    BY <1>5, <2>2 DEF FinishUpdate, DropTarget, Spent
  <2>4. /\ \A j \in Ids : j # i => (Plugged(j)' <=> Plugged(j))
        /\ Plugged(i)' => Plugged(i)
    BY <1>5, <2>1 DEF FinishUpdate, DropTarget, Plugged
  <2>5. PluggedIn' = PluggedIn \/ PluggedIn' = PluggedIn \ {i}
    <3>1. CASE Plugged(i)'
      <4>1. PluggedIn' = PluggedIn BY <2>4, <3>1 DEF PluggedIn
      <4>. QED BY <4>1
    <3>2. CASE ~Plugged(i)'
      <4>1. PluggedIn' = PluggedIn \ {i} BY <2>4, <3>2 DEF PluggedIn
      <4>. QED BY <4>1
    <3>. QED BY <3>1, <3>2
  <2>. QED BY <1>u, <2>1, <2>3, <2>5
\* References are passed on: none of these steps is seen by the system.
<1>6. CASE SpawnThread(t) \/ Insert(t) \/ StartUpdate(t) \/ Lookup(t)
  <2>1. \A i \in Ids : Plugged(i)' <=> Plugged(i)
    BY <1>6 DEF SpawnThread, Insert, StartUpdate, Lookup, Plugged
  <2>2. Asking' = Asking
    BY <1>6 DEF SpawnThread, Insert, StartUpdate, Lookup, Asking
  <2>3. Spent' = Spent
    BY <1>6, <2>2 DEF SpawnThread, Insert, StartUpdate, Lookup, Spent
  <2>. QED BY <2>1, <2>3 DEF PluggedIn
<1>7. CASE Remove(t) \/ RemoveNothing(t) \/ Join(t) \/ Receive(t)
  <2>1. \A i \in Ids : Plugged(i)' <=> Plugged(i)
    <3>1. CASE Remove(t) BY <3>1 DEF Remove, Plugged
    <3>2. CASE RemoveNothing(t) BY <3>2 DEF RemoveNothing, Plugged
    <3>3. CASE Join(t) BY <3>3 DEF Join, Plugged
    <3>4. CASE Receive(t) BY <3>4 DEF Receive, Plugged
    <3>. QED BY <1>7, <3>1, <3>2, <3>3, <3>4
  <2>2. Asking' = Asking
    <3>1. \A u \in Task : /\ pc'[u] = "plugging" <=> pc[u] = "plugging"
                          /\ pc[u] = "plugging" => id'[u] = id[u]
      <4>1. CASE Remove(t) BY <4>1 DEF Remove
      <4>2. CASE RemoveNothing(t) BY <4>2 DEF RemoveNothing
      <4>3. CASE Join(t) BY <4>3 DEF Join
      <4>4. CASE Receive(t) BY <4>4 DEF Receive
      <4>. QED BY <1>7, <4>1, <4>2, <4>3, <4>4
    <3>. DEFINE A == {u \in Task : pc[u] = "plugging"}
    <3>2. A' = A
      BY <3>1
    <3>3. Asking = {id[u] : u \in A} /\ Asking' = {id'[u] : u \in A'}
      BY Zenon DEF Asking
    <3>4. \A u \in A : id'[u] = id[u]
      BY <3>1
    <3>. HIDE DEF A
    <3>. QED BY <3>2, <3>3, <3>4
  <2>3. Spent' = Spent
    BY <1>7, <2>2 DEF Remove, RemoveNothing, Join, Receive, Spent
  <2>. QED BY <2>1, <2>3 DEF PluggedIn
<1>8. CreateFails(t) => pc[t] \in {"plugging", "readying"}
  BY DEF CreateFails
<1>. QED BY <1>1, <1>2, <1>3, <1>4, <1>5, <1>6, <1>7, <1>8 DEF Call

\* A shutdown unplugs one controller at a time, those that are not in use.
LEMMA ShutdownImplements ==
  ASSUME TypeOK, HoldsNothingYet, NEW s \in Closer, Shutdown(s)
  PROVE  \/ UNCHANGED <<PluggedIn, Spent>>
         \/ \E i \in Ids : Life!Unplug(i)
<1>1. Spent' = Spent
  BY DEF Shutdown, SetFlag, TakeMap, DropOne, JoinOne, Spent, Asking, taskVars, tables
<1>2. CASE DropOne(s)
  <2>1. PICK i \in toDrop[s] : toDrop' = [toDrop EXCEPT ![s] = toDrop[s] \ {i}]
    BY <1>2 DEF DropOne
  <2>2. i \in Ids /\ Plugged(i)
    BY <2>1 DEF TypeOK, Plugged
  <2>3. \A j \in Ids : j # i => (Plugged(j)' <=> Plugged(j))
    BY <1>2, <2>1 DEF DropOne, Plugged, TypeOK, taskVars, tables
  <2>4. CASE Plugged(i)'
    BY <1>1, <2>2, <2>3, <2>4 DEF PluggedIn
  <2>5. CASE ~Plugged(i)'
    BY <1>1, <2>2, <2>3, <2>5 DEF Life!Unplug, PluggedIn, Spent
  <2>. QED BY <2>2, <2>4, <2>5
<1>3. CASE TakeMap(s)
  <2>1. toDrop' = [toDrop EXCEPT ![s] = inMap] /\ inMap' = {} /\ toDrop[s] = {}
    BY <1>3 DEF TakeMap, HoldsNothingYet
  <2>2. \A i \in Ids : Plugged(i)' <=> Plugged(i)
    BY <1>3, <2>1 DEF TakeMap, Plugged, TypeOK, taskVars
  <2>. QED BY <1>1, <2>2 DEF PluggedIn
<1>4. CASE SetFlag(s) \/ JoinOne(s)
  <2>1. \A i \in Ids : Plugged(i)' <=> Plugged(i)
    BY <1>4 DEF SetFlag, JoinOne, Plugged, taskVars, tables
  <2>. QED BY <1>1, <2>1 DEF PluggedIn
<1>. QED BY <1>2, <1>3, <1>4 DEF Shutdown

LEMMA StepImplements ==
  TypeOK /\ IdsAreFresh /\ HoldsNothingYet /\ [Next]_vars => [Life!LifeNext]_(Life!life)
<1>. SUFFICES ASSUME TypeOK, IdsAreFresh, HoldsNothingYet, [Next]_vars
              PROVE  Life!LifeNext \/ UNCHANGED <<PluggedIn, Spent>>
  BY DEF Life!life, PluggedIn, Spent
<1>1. ASSUME NEW t \in Task, Call(t)
      PROVE  Life!LifeNext \/ UNCHANGED <<PluggedIn, Spent>>
  BY <1>1, CallImplements DEF Life!LifeNext
<1>2. ASSUME NEW s \in Closer, Shutdown(s)
      PROVE  Life!LifeNext \/ UNCHANGED <<PluggedIn, Spent>>
  BY <1>2, ShutdownImplements DEF Life!LifeNext
<1>3. ASSUME UNCHANGED <<taskVars, closerVars, tables>>
      PROVE  UNCHANGED <<PluggedIn, Spent>>
  BY <1>3 DEF PluggedIn, Spent, Plugged, Asking, taskVars, closerVars, tables
<1>4. ASSUME NEW i \in Ids, Event(i) \/ TrySend(i) \/ ThreadEnds(i)
      PROVE  UNCHANGED <<taskVars, closerVars, tables>>
  BY <1>4 DEF Event, TrySend, ThreadEnds
<1>. QED BY <1>1, <1>2, <1>3, <1>4 DEF Next, vars

\* Whatever creates, updates, destroys and shutdowns overlap, the system sees
\* each controller plugged in once and unplugged once, and none is revived.
THEOREM Implementation == Spec => ImplementsLife
<1>1. IInv => TypeOK /\ IdsAreFresh
  BY DEF IInv
<1>. QED BY <1>1, InitImplements, StepImplements, Inductive, HoldsNothingInductive, PTL
         DEF Spec, ImplementsLife, Life!LifeSpec
=============================================================================
