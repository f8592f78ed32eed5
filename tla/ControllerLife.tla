--------------------------- MODULE ControllerLife ---------------------------
(***************************************************************************)
(* What GamepadManager promises for each ControllerId, with its map, its   *)
(* threads and its overlapping calls left out: a controller is plugged in  *)
(* once, in one step, stays, and is unplugged once.  Nothing revives it.   *)
(* This is how WsHandler sees create_controller and destroy_controller.    *)
(***************************************************************************)
CONSTANT Id
VARIABLES plugged,   \* the controllers the system sees
          spent      \* ids that have been plugged in, or were given up

life == <<plugged, spent>>

LifeInit == plugged = {} /\ spent = {}

PlugIn(i) ==
    /\ i \notin spent
    /\ plugged' = plugged \cup {i}
    /\ spent' = spent \cup {i}

\* The driver refuses to plug the controller in.
GiveUp(i) ==
    /\ i \notin spent
    /\ spent' = spent \cup {i}
    /\ UNCHANGED plugged

Unplug(i) ==
    /\ i \in plugged
    /\ plugged' = plugged \ {i}
    /\ UNCHANGED spent

LifeNext == \E i \in Id : PlugIn(i) \/ GiveUp(i) \/ Unplug(i)

LifeSpec == LifeInit /\ [][LifeNext]_life
=============================================================================
