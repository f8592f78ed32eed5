----------------------------- MODULE TouchInput -----------------------------
(***************************************************************************)
(* The controls under the user's fingers and mouse, on top of Layouts: in  *)
(* edit mode their touch handlers return at once, releases included.  A    *)
(* button reacts to every pointer on it; a trigger, the d-pad and a stick  *)
(* follow one finger, the one whose identifier they remember.  Finger      *)
(* names are touch identifiers and are used again.                         *)
(***************************************************************************)
EXTENDS Layouts

CONSTANTS Button, Tracked, Finger, Nothing
ASSUME TouchAssumption == Button \cap Tracked = {} /\ Nothing \notin Button \cup Tracked \cup Finger

VARIABLES touching,   \* the control each finger came down on
          mouse,      \* the control the mouse button was pressed on
          listening,  \* mousemove and mouseup are listened to for that control
          pressed,    \* the control's value in state is not neutral
          tracking,   \* activeTouchId of each control that follows a finger
          missed      \* history: controls left as they were by a release
                      \* that fell into edit mode

Control == Button \cup Tracked
inputVars == <<touching, mouse, listening, pressed, tracking, missed>>
vars == <<pageVars, inputVars>>

InputInit ==
    /\ touching = [f \in Finger |-> Nothing]
    /\ mouse = Nothing /\ listening = FALSE
    /\ pressed = [w \in Control |-> FALSE]
    /\ tracking = [w \in Tracked |-> Nothing]
    /\ missed = {}

AllInit == Init /\ InputInit
----------------------------------------------------------------------------
(* Fingers.                                                                *)

Press(w) == \E v \in (IF w \in Button THEN {TRUE} ELSE BOOLEAN) :
                pressed' = [pressed EXCEPT ![w] = v]

TouchStart(f, w) ==
    /\ touching[f] = Nothing
    /\ touching' = [touching EXCEPT ![f] = w]
    /\ IF editMode \/ (w \in Tracked /\ tracking[w] # Nothing)
       THEN UNCHANGED <<pressed, tracking>>
       ELSE /\ Press(w)
            /\ IF w \in Tracked THEN tracking' = [tracking EXCEPT ![w] = f]
               ELSE UNCHANGED tracking
    /\ UNCHANGED <<pageVars, mouse, listening, missed>>

TouchMove(f) ==
    /\ touching[f] \in Tracked /\ tracking[touching[f]] = f
    /\ ~editMode
    /\ Press(touching[f])
    /\ UNCHANGED <<pageVars, touching, mouse, listening, tracking, missed>>

\* What a lost release of control w leaves behind: a value or a finger's name.
Left(w) == IF pressed[w] \/ w \in Tracked THEN {w} ELSE {}

BugReacts(f, w) == TRUE

\* A release counts for a button, and for the finger a control follows.
Reacts(f, w) == w \in Button \/ tracking[w] = f

Release(w) ==
    /\ pressed' = [pressed EXCEPT ![w] = FALSE]
    /\ tracking' = [v \in Tracked |-> IF v = w THEN Nothing ELSE tracking[v]]
    /\ missed' = missed \ {w}

BugTouchEnd(f) ==
    LET w == touching[f] IN
    /\ w # Nothing
    /\ touching' = [touching EXCEPT ![f] = Nothing]
    /\ IF ~editMode /\ Reacts(f, w) /\ \A g \in Finger \ {f} : touching[g] = Nothing
       THEN Release(w)
       ELSE /\ missed' = IF editMode /\ Reacts(f, w) THEN missed \cup Left(w) ELSE missed
            /\ UNCHANGED <<pressed, tracking>>
    /\ UNCHANGED <<pageVars, mouse, listening>>

\* touchend and touchcancel.
TouchEnd(f) ==
    LET w == touching[f] IN
    /\ w # Nothing
    /\ touching' = [touching EXCEPT ![f] = Nothing]
    /\ IF ~editMode /\ Reacts(f, w) THEN Release(w)
       ELSE /\ missed' = IF editMode /\ Reacts(f, w) THEN missed \cup Left(w) ELSE missed
            /\ UNCHANGED <<pressed, tracking>>
    /\ UNCHANGED <<pageVars, mouse, listening>>
----------------------------------------------------------------------------
(* The mouse.  The listeners of a control that follows it are on the       *)
(* document and do not look at edit mode.                                  *)

MouseDown(w) ==
    /\ mouse = Nothing
    /\ mouse' = w
    /\ listening' = (~editMode /\ w \in Tracked)
    /\ IF editMode THEN UNCHANGED pressed ELSE Press(w)
    /\ UNCHANGED <<pageVars, touching, tracking, missed>>

MouseMove ==
    /\ listening
    /\ Press(mouse)
    /\ UNCHANGED <<pageVars, touching, mouse, listening, tracking, missed>>

\* mouseup, or mouseleave with the button of the mouse down.
MouseUp ==
    /\ mouse # Nothing
    /\ IF listening \/ (mouse \in Button /\ ~editMode)
       THEN pressed' = [pressed EXCEPT ![mouse] = FALSE] /\ UNCHANGED missed
       ELSE /\ missed' = IF mouse \in Button THEN missed \cup Left(mouse) ELSE missed
            /\ UNCHANGED pressed
    /\ mouse' = Nothing /\ listening' = FALSE
    /\ UNCHANGED <<pageVars, touching, tracking>>

\* The pointer leaves a button it was not pressed on: a release all the same.
MouseLeave(w) ==
    /\ w \in Button /\ mouse # w /\ ~editMode
    /\ pressed' = [pressed EXCEPT ![w] = FALSE]
    /\ UNCHANGED <<pageVars, touching, mouse, listening, tracking, missed>>
----------------------------------------------------------------------------
ReloadPage ==
    /\ Reload
    /\ touching' = [f \in Finger |-> Nothing]
    /\ mouse' = Nothing /\ listening' = FALSE
    /\ pressed' = [w \in Control |-> FALSE]
    /\ tracking' = [w \in Tracked |-> Nothing]
    /\ missed' = {}

Next ==
    \/ \E f \in Finger : \/ \E w \in Control : TouchStart(f, w)
                         \/ TouchMove(f) \/ TouchEnd(f)
    \/ \E w \in Control : MouseDown(w) \/ MouseLeave(w)
    \/ MouseMove \/ MouseUp
    \/ ReloadPage
    \/ Resave /\ UNCHANGED inputVars
    \/ StartEditMode /\ UNCHANGED inputVars
    \/ SaveEdit /\ UNCHANGED inputVars
    \/ CancelEdit /\ UNCHANGED inputVars
    \/ \E x \in Reach : \/ Move(x) /\ UNCHANGED inputVars
                        \/ ResizeRight(x) /\ UNCHANGED inputVars
                        \/ ResizeLeft(x) /\ UNCHANGED inputVars
    \/ \E id \in LayoutId : \/ SetActiveLayout(id) /\ UNCHANGED inputVars
                            \/ CreateLayout(id) /\ UNCHANGED inputVars
                            \/ DeleteLayout(id) /\ UNCHANGED inputVars
                            \/ \E g \in Imports \cup {NoEntry} :
                                   ImportLayout(id, g) /\ UNCHANGED inputVars

Spec == AllInit /\ [][Next]_vars
----------------------------------------------------------------------------
TypeOK ==
    /\ PageTypeOK
    /\ touching \in [Finger -> Control \cup {Nothing}]
    /\ mouse \in Control \cup {Nothing} /\ listening \in BOOLEAN
    /\ pressed \in [Control -> BOOLEAN]
    /\ tracking \in [Tracked -> Finger \cup {Nothing}]
    /\ missed \subseteq Control

Held(w) == mouse = w \/ \E f \in Finger : touching[f] = w

(***************************************************************************)
(* No control is pressed that nobody holds, and none waits for a finger    *)
(* that has gone, with one exception: in edit mode every handler returns   *)
(* at once (handler.rs:1226, 1227, 1258), so a release that happens there  *)
(* leaves a pressed button pressed and a trigger, d-pad or stick waiting,  *)
(* until that control is used again.  Edit mode is the one way to get a    *)
(* control stuck.                                                          *)
(***************************************************************************)
NothingStuck ==
    \A w \in Control \ missed :
        /\ pressed[w] => Held(w)
        /\ w \in Tracked /\ tracking[w] # Nothing => touching[tracking[w]] = w

\* Finger f stays on control w while finger g comes down or goes up.
Apart(w, f, g) ==
    f # g /\ touching[f] = w /\ touching'[f] = w /\ touching'[g] # touching[g]

(***************************************************************************)
(* The triggers and the d-pad are "multi-touch safe via touch.identifier"  *)
(* (handler.rs:1237, 1306), and so are the sticks: while such a control    *)
(* follows a finger, another finger that comes down or goes up, on this    *)
(* control or elsewhere, does not disturb it.                              *)
(*                                                                         *)
(* A button knows no fingers.  Of two fingers on one button the first to   *)
(* go up lets it go, though the other still holds it (handler.rs:1227);    *)
(* no finger on another control does that.                                 *)
(***************************************************************************)
MultiTouchSafe ==
    [][\A f, g \in Finger :
         /\ \A w \in Tracked :
                Apart(w, f, g) /\ tracking[w] = f
                    => tracking'[w] = f /\ pressed'[w] = pressed[w]
         /\ \A w \in Button :
                Apart(w, f, g) /\ pressed[w] /\ touching[g] # w => pressed'[w]]_vars
=============================================================================
