------------------------------ MODULE Layouts ------------------------------
(***************************************************************************)
(* The layouts of the page (LayoutManager), their copy in localStorage,    *)
(* where the controls stand on the screen, and edit mode, in which the     *)
(* user drags them.  The settings button stays within reach in edit mode,  *)
(* so every operation on layouts can happen there too.                     *)
(*                                                                         *)
(* One control stands for all of them and the horizontal axis for both: a  *)
(* geometry is the left edge and the width, in units of the design area.   *)
(* A layout that was imported may say nothing about the control.           *)
(***************************************************************************)
EXTENDS Integers, Sequences, FiniteSets

CONSTANTS LayoutId, Default, Unused,
          NoEntry,     \* of a layout: no element for the control
          Area,        \* designW
          MinSize,     \* minSize
          Imports,     \* the geometries that imported files give the control
          Margin,      \* how far the finger reaches beyond the design area
          MaxWidth,    \* bound: how wide a control gets
          MaxFails     \* bound: calls of localStorage.setItem that fail
ASSUME LayoutsAssumption ==
    /\ Default \in LayoutId /\ Unused \notin LayoutId
    /\ Area \in Nat /\ MinSize \in 1..Area /\ Margin \in Nat
    /\ MaxWidth \in Nat /\ MaxFails \in Nat

VARIABLES layouts,   \* LayoutManager.data.layouts: id -> geometry, NoEntry or Unused
          active,    \* LayoutManager.data.activeLayoutId
          store,     \* localStorage[LS_KEY]: what the last successful save wrote
          unsaved,   \* history: the last save failed
          fails,
          screen,    \* where the control stands
          editMode   \* state.editMode and editState.active

pageVars == <<layouts, active, store, unsaved, fails, screen, editMode>>
----------------------------------------------------------------------------
Smaller(a, b) == IF a < b THEN a ELSE b
Larger(a, b) == IF a < b THEN b ELSE a

Geometry == [left : Int, width : Nat]
ASSUME EntryAssumption ==
    /\ Unused # NoEntry /\ {Unused, NoEntry} \cap Geometry = {}
    /\ Imports \subseteq Geometry

DefaultGeometry == [left |-> 0, width |-> MinSize]
Position(l, w) == [left |-> Larger(0, Smaller(Area - w, l)), width |-> w]

Exists(id) == layouts[id] # Unused
FreshIds == {id \in LayoutId : ~Exists(id)}
Data(ls, a) == [layouts |-> ls, active |-> a]

\* A handler's calls of save, with the active layout at each of them.  An
\* exception of localStorage is swallowed.
Saves(ls, actives) ==
    \E ok \in SUBSET DOMAIN actives :
        LET failed == DOMAIN actives \ ok IN
        /\ fails' = fails + Cardinality(failed) /\ fails' <= MaxFails
        /\ unsaved' = (Len(actives) \in failed)
        /\ store' = IF ok = {} THEN store
                    ELSE Data(ls, actives[CHOOSE k \in ok : \A j \in ok : j <= k])

BugApplied(ls, id, current) == IF ls[id] = Unused THEN ls[Default] ELSE ls[id]

\* applyLayout: an element the layout does not mention stays where it is.
Applied(ls, id, current) ==
    LET shown == IF ls[id] = Unused THEN ls[Default] ELSE ls[id]
    IN  IF shown = NoEntry THEN current ELSE shown

FirstLayouts == [id \in LayoutId |-> IF id = Default THEN DefaultGeometry ELSE Unused]

\* LayoutManager.init on an empty localStorage.  Whether its save goes through
\* makes no difference to the next load: nothing stored reads as FirstLayouts.
Init ==
    /\ layouts = FirstLayouts /\ active = Default
    /\ store = Data(FirstLayouts, Default) /\ unsaved = FALSE /\ fails = 0
    /\ screen = DefaultGeometry
    /\ editMode = FALSE
----------------------------------------------------------------------------
\* LayoutManager.init again: the page is loaded anew.
Reload ==
    /\ layouts' = [store.layouts EXCEPT ![Default] = IF @ = Unused THEN DefaultGeometry ELSE @]
    /\ active' = store.active
    /\ screen' = Applied(layouts', active', DefaultGeometry)
    /\ editMode' = FALSE /\ unsaved' = FALSE
    /\ UNCHANGED <<store, fails>>

\* The switch button: setActiveLayout and setBgColor.
SetActiveLayout(id) ==
    /\ Exists(id)
    /\ active' = id
    /\ Saves(layouts, <<id, id>>)
    /\ screen' = Applied(layouts, id, screen)
    /\ UNCHANGED <<layouts, editMode>>

BugCreateLayout(id) ==
    /\ id \in FreshIds
    /\ layouts' = [layouts EXCEPT ![id] = IF Exists(active) THEN layouts[active]
                                          ELSE layouts[Default]]
    /\ UNCHANGED <<active, store, unsaved, fails, screen, editMode>>

\* A copy of what the active layout holds (not of an edit under way).
CreateLayout(id) ==
    /\ id \in FreshIds
    /\ layouts' = [layouts EXCEPT ![id] = IF Exists(active) THEN layouts[active]
                                          ELSE layouts[Default]]
    /\ Saves(layouts', <<active>>)
    /\ UNCHANGED <<active, screen, editMode>>

BugDeleteLayout(id) ==
    /\ Exists(id) /\ id # Default
    /\ layouts' = [layouts EXCEPT ![id] = Unused]
    /\ Saves(layouts', <<active>>)
    /\ IF active = id
       THEN active' = Default /\ screen' = Applied(layouts', Default, screen)
       ELSE UNCHANGED <<active, screen>>
    /\ UNCHANGED editMode

DeleteLayout(id) ==
    /\ Exists(id) /\ id # Default
    /\ layouts' = [layouts EXCEPT ![id] = Unused]
    /\ IF active = id
       THEN active' = Default /\ screen' = Applied(layouts', Default, screen)
       ELSE UNCHANGED <<active, screen>>
    /\ Saves(layouts', <<active'>>)
    /\ UNCHANGED editMode

\* reader.onload: importLayout, setActiveLayout and setBgColor.  The file says
\* nothing about the control or puts it anywhere, in any size: importLayout
\* asks only that there be elements.
ImportLayout(id, g) ==
    /\ id \in FreshIds
    /\ layouts' = [layouts EXCEPT ![id] = g] /\ active' = id
    /\ Saves(layouts', <<active, id, id>>)
    /\ screen' = Applied(layouts', id, screen)
    /\ UNCHANGED editMode

\* A new colour or name, and opening the settings: colours and names are left
\* out of this model, but each of these saves.
Resave ==
    /\ Saves(layouts, <<active>>)
    /\ UNCHANGED <<layouts, active, screen, editMode>>
----------------------------------------------------------------------------
(* Edit mode.                                                              *)

StartEditMode ==
    /\ editMode' = TRUE
    /\ UNCHANGED <<layouts, active, store, unsaved, fails, screen>>

Drag(g) ==
    /\ editMode /\ g.width <= MaxWidth
    /\ screen' = g
    /\ UNCHANGED <<layouts, active, store, unsaved, fails, editMode>>

Reach == (0 - Margin)..(Area + Margin)

\* onEditMove with dragMode "move".
Move(x) == Drag(Position(screen.left + x, screen.width))

BugWidenLeft(x) == [left |-> screen.left + (screen.width - Larger(MinSize, screen.width - x)),
                    width |-> Larger(MinSize, screen.width - x)]

\* onEditMove with a handle on the right (ne, se): the finger moves it by x.
WidenRight(x) == Position(screen.left, Larger(MinSize, screen.width + x))

\* The same with a handle on the left (nw, sw): the right edge should stay.
WidenLeft(x) ==
    LET w == Larger(MinSize, screen.width - x)
    IN  Position(screen.left + (screen.width - w), w)

\* A finger that starts on the right edge, or the left one, ends within Reach.
ResizeRight(x) == x + screen.left + screen.width \in Reach /\ Drag(WidenRight(x))
ResizeLeft(x)  == x + screen.left \in Reach /\ Drag(WidenLeft(x))

\* stopEditMode(true): what the screen shows goes into the active layout.
SaveEdit ==
    /\ editMode /\ editMode' = FALSE
    /\ layouts' = [layouts EXCEPT ![active] = screen]
    /\ Saves(layouts', <<active>>)
    /\ UNCHANGED <<active, screen>>

BugCancelEdit ==
    /\ editMode /\ editMode' = FALSE
    /\ UNCHANGED <<layouts, active, store, unsaved, fails, screen>>

\* stopEditMode(false): the active layout goes back onto the screen.
CancelEdit ==
    /\ editMode /\ editMode' = FALSE
    /\ screen' = Applied(layouts, active, screen)
    /\ UNCHANGED <<layouts, active, store, unsaved, fails>>
----------------------------------------------------------------------------
Entry == Geometry \cup {NoEntry, Unused}

PageTypeOK ==
    /\ layouts \in [LayoutId -> Entry] /\ active \in LayoutId
    /\ store \in [layouts : [LayoutId -> Entry], active : LayoutId]
    /\ unsaved \in BOOLEAN /\ fails \in 0..MaxFails
    /\ screen \in Geometry /\ editMode \in BOOLEAN

(***************************************************************************)
(* The active layout exists, here and in localStorage, whatever was        *)
(* deleted, imported or reloaded and whichever save failed: every caller   *)
(* of getActiveLayout uses the result unchecked.                           *)
(***************************************************************************)
ActiveExists == Exists(active) /\ store.layouts[store.active] # Unused

(***************************************************************************)
(* Outside edit mode a control stands where the active layout puts it: a   *)
(* drag that was not saved leaves no trace, and switching, deleting or     *)
(* importing takes effect at once, also in the middle of an edit.          *)
(*                                                                         *)
(* Nothing is claimed of a control the active layout does not mention (an  *)
(* imported layout may leave it out).  applyLayout (handler.rs:1555) goes  *)
(* through the elements of the layout only, so there a cancelled edit does *)
(* leave its drag on the screen (handler.rs:1953), until a layout that     *)
(* mentions the control is shown or the page is reloaded.                  *)
(***************************************************************************)
ScreenShowsActive ==
    ~editMode /\ layouts[active] # NoEntry => screen = layouts[active]

(***************************************************************************)
(* Nothing is lost by closing the page, unless localStorage has refused    *)
(* the last save.                                                          *)
(***************************************************************************)
SurvivesReload == ~unsaved => store = Data(layouts, active)

(***************************************************************************)
(* However a control is dragged and resized, over however many edits, its  *)
(* left edge stays in the design area with MinSize of it (or all of a      *)
(* smaller control) in view, so that it can be taken hold of again, and it *)
(* does not get smaller than MinSize.  (Its right edge may leave the area: *)
(* the code does not limit the width.)                                     *)
(*                                                                         *)
(* The exception is a file: importLayout (handler.rs:1605-1613) checks no  *)
(* position and no size.  A control out of reach stands exactly where some *)
(* file put it, and one below MinSize has the width some file gave it.     *)
(***************************************************************************)
WithinReach(g) == g.left \in 0..(Area - Smaller(MinSize, g.width))
LargeEnough(g) == g.width >= MinSize \/ \E h \in Imports : h.width = g.width

StaysInReach == (WithinReach(screen) \/ screen \in Imports) /\ LargeEnough(screen)
=============================================================================
