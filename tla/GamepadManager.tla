--------------------------- MODULE GamepadManager ---------------------------
(***************************************************************************)
(* GamepadManager (src/gamepad/manager.rs): the table of virtual Xbox 360  *)
(* controllers.  Its calls are async but do their driver work on blocking  *)
(* threads, so calls of several connections overlap.  A connection creates *)
(* a controller, updates it and destroys it, one call at a time; a closer  *)
(* calls shutdown.                                                         *)
(*                                                                         *)
(* A target is shared by reference count: it is unplugged when its last    *)
(* reference is dropped.  Each controller has a notification thread, which *)
(* passes rumble events of the driver into a bounded channel and ends when *)
(* the target is unplugged.  The driver and that thread belong to the      *)
(* vigem_client library.                                                   *)
(***************************************************************************)
EXTENDS Integers, FiniteSets

CONSTANTS
    Task,        \* connections that use the manager
    Closer,      \* callers of shutdown
    MaxId,       \* bound: how many ids next_id hands out
    ChannelSize  \* capacity of a rumble channel

ASSUME BoundAssumption == MaxId \in Nat /\ ChannelSize \in Nat \ {0}

VARIABLES
    pc,          \* the call a task is in
    id,          \* the id of its controller, 0 for none
    closer,      \* where a call of shutdown is
    toDrop,      \* targets it still has to drop
    toJoin,      \* threads it still has to join
    nextId,      \* next_id
    down,        \* the shutdown flag
    inMap,       \* keys of `controllers`
    thread,      \* the notification thread of each controller
    queued       \* events in each rumble channel

taskVars == <<pc, id>>
closerVars == <<closer, toDrop, toJoin>>
tables == <<nextId, down, inMap>>
driver == <<thread, queued>>
vars == <<taskVars, closerVars, tables, driver>>

Ids == 1 .. MaxId

Init ==
    /\ pc = [t \in Task |-> "out"]
    /\ id = [t \in Task |-> 0]
    /\ closer = [s \in Closer |-> "waiting"]
    /\ toDrop = [s \in Closer |-> {}]
    /\ toJoin = [s \in Closer |-> {}]
    /\ nextId = 1
    /\ down = FALSE
    /\ inMap = {}
    /\ thread = [i \in Ids |-> "none"]
    /\ queued = [i \in Ids |-> 0]

TypeOK ==
    /\ pc \in [Task -> {"out", "plugging", "readying", "insert", "idle",
                        "lookup", "updating", "unplug", "join"}]
    /\ id \in [Task -> Ids \cup {0}]
    /\ closer \in [Closer -> {"waiting", "take", "drop", "join", "returned"}]
    /\ toDrop \in [Closer -> SUBSET Ids]
    /\ toJoin \in [Closer -> SUBSET Ids]
    /\ nextId \in 1 .. MaxId + 1
    /\ down \in BOOLEAN
    /\ inMap \subseteq Ids
    /\ thread \in [Ids -> {"none", "polling", "sending", "done"}]
    /\ queued \in [Ids -> 0 .. ChannelSize]

\* A controller is plugged in as long as its target has a reference: in a task
\* that creates, updates or destroys it, in the map, or in a shutdown.
Plugged(i) ==
    \/ \E t \in Task : id[t] = i /\ pc[t] \in {"readying", "insert", "updating", "unplug"}
    \/ i \in inMap
    \/ \E s \in Closer : i \in toDrop[s]

Go(t, from, to) == pc[t] = from /\ pc' = [pc EXCEPT ![t] = to]
\* The call returns and leaves the task without a controller.
Leave(t) == pc' = [pc EXCEPT ![t] = "out"] /\ id' = [id EXCEPT ![t] = 0]

-----------------------------------------------------------------------------
(* create_controller *)

StartCreate(t) ==
    /\ Go(t, "out", "plugging")
    /\ ~down
    /\ nextId <= MaxId
    /\ id' = [id EXCEPT ![t] = nextId]
    /\ nextId' = nextId + 1
    /\ UNCHANGED <<closerVars, down, inMap, driver>>

\* plugin() on a blocking thread.
Plugin(t) ==
    /\ Go(t, "plugging", "readying")
    /\ UNCHANGED <<id, closerVars, tables, driver>>

\* plugin, wait_ready or request_notification fails: the target is dropped.
CreateFails(t) ==
    /\ pc[t] \in {"plugging", "readying"}
    /\ Leave(t)
    /\ UNCHANGED <<closerVars, tables, driver>>

SpawnThread(t) ==
    /\ Go(t, "readying", "insert")
    /\ thread' = [thread EXCEPT ![id[t]] = "polling"]
    /\ UNCHANGED <<id, closerVars, tables, queued>>

\* The entry is inserted whatever has become of the shutdown flag meanwhile.
Insert(t) ==
    /\ Go(t, "insert", "idle")
    /\ inMap' = inMap \cup {id[t]}
    /\ UNCHANGED <<id, closerVars, nextId, down, driver>>

-----------------------------------------------------------------------------
(* update_state *)

StartUpdate(t) ==
    /\ Go(t, "idle", "lookup")
    /\ ~down
    /\ UNCHANGED <<id, closerVars, tables, driver>>

\* Mutant: the entry is looked up before the call and used without the lock.
BugLookupStale(t) ==
    /\ Go(t, "lookup", "updating")
    /\ UNCHANGED <<id, closerVars, tables, driver>>

\* The target is cloned under the lock, or the id is not in the map.
Lookup(t) ==
    /\ Go(t, "lookup", IF id[t] \in inMap THEN "updating" ELSE "idle")
    /\ UNCHANGED <<id, closerVars, tables, driver>>

\* update() on a blocking thread, which then drops the clone.
FinishUpdate(t) ==
    /\ Go(t, "updating", "idle")
    /\ UNCHANGED <<id, closerVars, tables, driver>>

-----------------------------------------------------------------------------
(* destroy_controller *)

Remove(t) ==
    /\ Go(t, "idle", "unplug")
    /\ id[t] \in inMap
    /\ inMap' = inMap \ {id[t]}
    /\ UNCHANGED <<id, closerVars, nextId, down, driver>>

\* An id that is not in the map is ignored.
RemoveNothing(t) ==
    /\ pc[t] = "idle"
    /\ id[t] \notin inMap
    /\ Leave(t)
    /\ UNCHANGED <<closerVars, tables, driver>>

\* Mutant: the thread is not joined.
BugNoJoin(t) ==
    /\ pc[t] = "unplug"
    /\ Leave(t)
    /\ UNCHANGED <<closerVars, tables, driver>>

\* drop(target) on a blocking thread.
DropTarget(t) ==
    /\ Go(t, "unplug", "join")
    /\ UNCHANGED <<id, closerVars, tables, driver>>

Join(t) ==
    /\ pc[t] = "join"
    /\ thread[id[t]] = "done"
    /\ Leave(t)
    /\ UNCHANGED <<closerVars, tables, driver>>

-----------------------------------------------------------------------------
(* shutdown *)

SetFlag(s) ==
    /\ closer[s] = "waiting"
    /\ closer' = [closer EXCEPT ![s] = "take"]
    /\ down' = TRUE
    /\ UNCHANGED <<taskVars, toDrop, toJoin, nextId, inMap, driver>>

\* Mutant: the entries are copied and the map keeps them.
BugTakeKeeps(s) ==
    /\ closer[s] = "take"
    /\ closer' = [closer EXCEPT ![s] = IF inMap = {} THEN "returned" ELSE "drop"]
    /\ toDrop' = [toDrop EXCEPT ![s] = inMap]
    /\ toJoin' = [toJoin EXCEPT ![s] = inMap]
    /\ UNCHANGED <<taskVars, tables, driver>>

\* mem::take of the map; a second shutdown finds it empty and returns.
TakeMap(s) ==
    /\ closer[s] = "take"
    /\ closer' = [closer EXCEPT ![s] = IF inMap = {} THEN "returned" ELSE "drop"]
    /\ toDrop' = [toDrop EXCEPT ![s] = inMap]
    /\ toJoin' = [toJoin EXCEPT ![s] = inMap]
    /\ inMap' = {}
    /\ UNCHANGED <<taskVars, nextId, down, driver>>

\* Mutant: each thread is joined before its target is dropped.
BugJoinFirst(s) ==
    /\ closer[s] = "drop"
    /\ \E i \in toDrop[s] :
         /\ thread[i] = "done"
         /\ toDrop' = [toDrop EXCEPT ![s] = @ \ {i}]
         /\ closer' = [closer EXCEPT ![s] = IF toDrop[s] = {i} THEN "join" ELSE "drop"]
    /\ UNCHANGED <<taskVars, toJoin, tables, driver>>

\* All targets are dropped before the first thread is joined.
DropOne(s) ==
    /\ closer[s] = "drop"
    /\ \E i \in toDrop[s] :
         /\ toDrop' = [toDrop EXCEPT ![s] = @ \ {i}]
         /\ closer' = [closer EXCEPT ![s] = IF toDrop[s] = {i} THEN "join" ELSE "drop"]
    /\ UNCHANGED <<taskVars, toJoin, tables, driver>>

JoinOne(s) ==
    /\ closer[s] = "join"
    /\ \E i \in toJoin[s] :
         /\ thread[i] = "done"
         /\ toJoin' = [toJoin EXCEPT ![s] = @ \ {i}]
         /\ closer' = [closer EXCEPT ![s] = IF toJoin[s] = {i} THEN "returned" ELSE "join"]
    /\ UNCHANGED <<taskVars, toDrop, tables, driver>>

-----------------------------------------------------------------------------
(* The notification threads and the channels *)

\* The driver hands the thread a rumble event.
Event(i) ==
    /\ thread[i] = "polling"
    /\ Plugged(i)
    /\ thread' = [thread EXCEPT ![i] = "sending"]
    /\ UNCHANGED <<taskVars, closerVars, tables, queued>>

\* Mutant: blocking_send, which waits for room in the channel.
BugSendBlocks(i) ==
    /\ thread[i] = "sending"
    /\ queued[i] < ChannelSize
    /\ thread' = [thread EXCEPT ![i] = "polling"]
    /\ queued' = [queued EXCEPT ![i] = @ + 1]
    /\ UNCHANGED <<taskVars, closerVars, tables>>
\* Mutant: a channel without a bound.
BugSendUnbounded(i) ==
    /\ thread[i] = "sending"
    /\ thread' = [thread EXCEPT ![i] = "polling"]
    /\ queued' = [queued EXCEPT ![i] = @ + 1]
    /\ UNCHANGED <<taskVars, closerVars, tables>>

\* try_send: an event that finds the channel full is lost.
TrySend(i) ==
    /\ thread[i] = "sending"
    /\ thread' = [thread EXCEPT ![i] = "polling"]
    /\ queued' = [queued EXCEPT ![i] = IF @ < ChannelSize THEN @ + 1 ELSE @]
    /\ UNCHANGED <<taskVars, closerVars, tables>>

\* The connection reads its channel between two calls.
Receive(t) ==
    /\ pc[t] = "idle"
    /\ queued[id[t]] > 0
    /\ queued' = [queued EXCEPT ![id[t]] = @ - 1]
    /\ UNCHANGED <<taskVars, closerVars, tables, thread>>

\* poll() returns OperationAborted once the target is unplugged.
ThreadEnds(i) ==
    /\ thread[i] = "polling"
    /\ ~Plugged(i)
    /\ thread' = [thread EXCEPT ![i] = "done"]
    /\ UNCHANGED <<taskVars, closerVars, tables, queued>>

-----------------------------------------------------------------------------
Call(t) ==
    \/ StartCreate(t) \/ Plugin(t) \/ CreateFails(t) \/ SpawnThread(t) \/ Insert(t)
    \/ StartUpdate(t) \/ Lookup(t) \/ FinishUpdate(t)
    \/ Remove(t) \/ RemoveNothing(t) \/ DropTarget(t) \/ Join(t)
    \/ Receive(t)
Shutdown(s) == SetFlag(s) \/ TakeMap(s) \/ DropOne(s) \/ JoinOne(s)

Next ==
    \/ \E t \in Task : Call(t)
    \/ \E s \in Closer : Shutdown(s)
    \/ \E i \in Ids : Event(i) \/ TrySend(i) \/ ThreadEnds(i)

Spec == Init /\ [][Next]_vars

\* A call that has begun goes on: driver calls return, blocking threads run,
\* a thread delivers what it has and ends once its target is unplugged.  No call ever has to begin.
Continue(t) ==
    \/ Plugin(t) \/ CreateFails(t) \/ SpawnThread(t) \/ Insert(t)
    \/ Lookup(t) \/ FinishUpdate(t) \/ DropTarget(t) \/ Join(t)
FairSpec ==
    /\ Spec
    /\ \A t \in Task : WF_vars(Continue(t))
    /\ \A s \in Closer : WF_vars(TakeMap(s) \/ DropOne(s) \/ JoinOne(s))
    /\ \A i \in Ids : WF_vars(TrySend(i) \/ ThreadEnds(i))

-----------------------------------------------------------------------------
(* Correctness *)

\* No notification thread is leaked: as long as one runs, its handle is with a
\* task that is still in its create or destroy, in the map, or in a shutdown.
ThreadsAccounted ==
    \A i \in Ids : thread[i] \in {"polling", "sending"} =>
        \/ i \in inMap
        \/ \E t \in Task : id[t] = i /\ pc[t] \in {"insert", "unplug", "join"}
        \/ \E s \in Closer : i \in toJoin[s]

\* A controller that stays plugged in is one that somebody will unplug: it is
\* in the map for the task that created it, and for that task alone, or a call
\* that has taken it out is still under way.
ControllersAccounted ==
    /\ \A i \in inMap : /\ thread[i] \in {"polling", "sending"}
                        /\ \E t \in Task : id[t] = i /\ pc[t] \in {"idle", "lookup", "updating"}
                        /\ \A s \in Closer : i \notin toJoin[s]
    /\ \A t, u \in Task : id[t] = id[u] /\ id[t] # 0 => t = u

\* destroy_controller returns: neither an update that still holds the target
\* nor a full rumble channel, which its caller no longer reads, stops it.
DestroyReturns == \A t \in Task : pc[t] = "unplug" ~> pc[t] = "out"

\* shutdown returns, whatever calls are under way.
ShutdownReturns == \A s \in Closer : closer[s] = "take" ~> closer[s] = "returned"

\* "Closes the manager and destroys all controllers" (manager.rs:222): once
\* every call of shutdown has returned, the map holds no controller.
ClosedIsEmpty ==
    (Closer # {} /\ \A s \in Closer : closer[s] = "returned") => inMap = {}

-----------------------------------------------------------------------------
\* The calls, each several steps that overlap with the steps of the others,
\* add up to the life of a controller in ControllerLife: its id is spent once
\* the driver was asked to plug it in, and no update, destroy or shutdown that
\* still refers to a controller plugs it in again.
Asking == {id[t] : t \in {u \in Task : pc[u] = "plugging"}}
Life == INSTANCE ControllerLife
    WITH Id      <- Ids,
         plugged <- {i \in Ids : Plugged(i)},
         spent   <- {i \in Ids : i < nextId} \ Asking
ImplementsLife == Life!LifeSpec
=============================================================================
