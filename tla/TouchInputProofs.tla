-------------------------- MODULE TouchInputProofs --------------------------
(***************************************************************************)
(* Proofs about Layouts and TouchInput, for any layouts, design area,      *)
(* controls and fingers.                                                   *)
(*                                                                         *)
(* The page: what LayoutManager holds and what localStorage holds are both *)
(* good data at all times - the default layout and the active one exist    *)
(* and every control stands where an edit or a file may put it - so that   *)
(* any reload and any switch finds a layout, and such a place, to show.    *)
(***************************************************************************)
EXTENDS TouchInput, FiniteSetTheorems, TLAPS

\* Where edits and files put a control.
Placeable == {g \in Geometry : (WithinReach(g) \/ g \in Imports) /\ LargeEnough(g)}

GoodData(d) ==
    /\ d \in [layouts : [LayoutId -> Placeable \cup {NoEntry, Unused}], active : LayoutId]
    /\ d.layouts[Default] # Unused /\ d.layouts[d.active] # Unused

Kept == GoodData(Data(layouts, active)) /\ GoodData(store) /\ screen \in Placeable

PageInv ==
    /\ Kept /\ ScreenShowsActive /\ SurvivesReload
    /\ unsaved \in BOOLEAN /\ fails \in 0..MaxFails /\ editMode \in BOOLEAN
----------------------------------------------------------------------------
(* The operators.                                                          *)

LEMMA Sizes == /\ Area \in Nat /\ MinSize \in Nat /\ MinSize >= 1 /\ MinSize <= Area
               /\ Margin \in Nat /\ MaxFails \in Nat
               /\ Default \in LayoutId /\ Unused \notin LayoutId
BY LayoutsAssumption

LEMMA Entries == ASSUME NEW g \in Placeable PROVE g # Unused /\ g # NoEntry
BY EntryAssumption DEF Placeable

LEMMA DefaultPlaceable == DefaultGeometry \in Placeable
BY Sizes DEF DefaultGeometry, Placeable, Geometry, WithinReach, LargeEnough, Smaller

LEMMA ImportPlaceable == Imports \subseteq Placeable
BY EntryAssumption DEF Placeable, LargeEnough

\* Whatever the finger does, Position leaves MinSize of the control in view.
LEMMA PositionPlaceable ==
    ASSUME NEW l \in Int, NEW w \in Nat, w >= MinSize \/ \E h \in Imports : h.width = w
    PROVE  Position(l, w) \in Placeable
<1>1. Larger(0, Smaller(Area - w, l)) \in 0..(Area - Smaller(MinSize, w))
  BY Sizes DEF Larger, Smaller
<1>2. Position(l, w) \in Geometry /\ Position(l, w).width = w
      /\ Position(l, w).left = Larger(0, Smaller(Area - w, l))
  BY <1>1, Sizes DEF Position, Geometry
<1> QED
  BY <1>1, <1>2 DEF Placeable, WithinReach, LargeEnough

LEMMA MovePlaceable ==
    ASSUME screen \in Placeable, NEW x \in Reach
    PROVE  /\ Position(screen.left + x, screen.width) \in Placeable
           /\ WidenRight(x) \in Placeable /\ WidenLeft(x) \in Placeable
<1>1. /\ x \in Int /\ screen.left \in Int /\ screen.width \in Nat
      /\ screen.width >= MinSize \/ \E h \in Imports : h.width = screen.width
  BY Sizes DEF Reach, Placeable, Geometry, LargeEnough
<1>2. ASSUME NEW y \in Int
      PROVE  Larger(MinSize, y) \in Nat /\ Larger(MinSize, y) >= MinSize
  BY Sizes DEF Larger
<1>3. Position(screen.left + x, screen.width) \in Placeable
  BY <1>1, PositionPlaceable
<1>4. WidenRight(x) \in Placeable
  <2>1. screen.width + x \in Int
    BY <1>1
  <2> QED
    BY <1>1, <1>2, <2>1, PositionPlaceable DEF WidenRight
<1>5. WidenLeft(x) \in Placeable
  <2>1. screen.width - x \in Int
    BY <1>1
  <2>2. PICK w \in Nat : w = Larger(MinSize, screen.width - x) /\ w >= MinSize
    BY <1>2, <2>1
  <2>3. screen.left + (screen.width - w) \in Int
    BY <1>1
  <2> QED
    BY <2>2, <2>3, PositionPlaceable DEF WidenLeft
<1> QED
  BY <1>3, <1>4, <1>5

\* A handler that saves leaves in localStorage what was there or the new
\* layouts with one of the active ids; and if the last call went through, with
\* the last of these.
Last(S) == CHOOSE k \in S : \A j \in S : j <= k

LEMMA SavesKeeps ==
    ASSUME NEW ls, NEW n \in 1..3, NEW actives \in [1..n -> LayoutId], Saves(ls, actives),
           fails \in 0..MaxFails
    PROVE  /\ store' = store \/ \E k \in 1..n : store' = Data(ls, actives[k])
           /\ ~unsaved' => store' = Data(ls, actives[n])
           /\ unsaved' \in BOOLEAN /\ fails' \in 0..MaxFails
<1>1. DOMAIN actives = 1..n /\ Len(actives) = n
  OBVIOUS
<1>2. PICK ok \in SUBSET (1..n) :
        /\ fails' = fails + Cardinality((1..n) \ ok) /\ fails' <= MaxFails
        /\ unsaved' = (n \in (1..n) \ ok)
        /\ store' = IF ok = {} THEN store
                    ELSE Data(ls, actives[Last(ok)])
  BY <1>1 DEF Saves, Last
<1>3. fails' \in 0..MaxFails
  <2>1. IsFiniteSet((1..n) \ ok)
    <3>1. IsFiniteSet(1..n)
      BY FS_Interval
    <3> QED
      BY <3>1, FS_Subset, (1..n) \ ok \in SUBSET (1..n)
  <2>2. Cardinality((1..n) \ ok) \in Nat
    BY <2>1, FS_CardinalityType
  <2> QED
    BY <1>2, <2>2, Sizes
<1>4. ASSUME ok # {} PROVE Last(ok) \in ok
  <2>1. ok \subseteq {1, 2, 3}
    OBVIOUS
  <2>2. \E k \in ok : \A j \in ok : j <= k
    <3>1. CASE 3 \in ok
      BY <2>1, <3>1
    <3>2. CASE 3 \notin ok /\ 2 \in ok
      BY <2>1, <3>2
    <3>3. CASE 3 \notin ok /\ 2 \notin ok
      <4>1. ok = {1}
        BY <1>4, <2>1, <3>3
      <4> QED
        BY <4>1
    <3> QED
      BY <3>1, <3>2, <3>3
  <2>3. Last(ok) \in ok /\ \A j \in ok : j <= Last(ok)
    BY <2>2 DEF Last
  <2> QED
    BY <2>3
<1>5. ASSUME ~unsaved' PROVE store' = Data(ls, actives[n])
  <2>1. n \in ok
    <3>1. unsaved' = (n \in (1..n) \ ok)
      BY <1>2
    <3>2. ~(n \in (1..n) \ ok)
      BY ONLY <1>5, <3>1, Zenon
    <3> QED
      BY <3>2
  <2>2. Last(ok) = n
    <3>1. \E k \in ok : \A j \in ok : j <= k
      BY <2>1
    <3>2. Last(ok) \in ok /\ \A j \in ok : j <= Last(ok)
      BY <3>1 DEF Last
    <3>3. PICK m \in 1..n : m = Last(ok)
      BY <3>2
    <3>4. n <= m
      BY <2>1, <3>2, <3>3
    <3> QED
      BY <3>3, <3>4
  <2> QED
    BY <1>2, <2>1, <2>2
<1>6. store' = store \/ \E k \in 1..n : store' = Data(ls, actives[k])
  <2>1. CASE ok = {}
    BY <1>2, <2>1
  <2>2. CASE ok # {}
    <3>1. PICK k \in 1..n : k = Last(ok)
      BY <1>4, <2>2
    <3> QED
      BY <1>2, <2>2, <3>1
  <2> QED
    BY <2>1, <2>2
<1>7. unsaved' \in BOOLEAN
  BY <1>2
<1> QED
  BY <1>3, <1>5, <1>6, <1>7
----------------------------------------------------------------------------
(* The steps of the page.                                                  *)

\* Saving what the page holds keeps good data in localStorage, and the same
\* data there and here unless the last call failed.
LEMMA SavedGood ==
    ASSUME NEW ls, NEW n \in 1..3, NEW actives \in [1..n -> LayoutId], Saves(ls, actives),
           fails \in 0..MaxFails, GoodData(store),
           \A k \in 1..n : GoodData(Data(ls, actives[k]))
    PROVE  /\ GoodData(store') /\ (~unsaved' => store' = Data(ls, actives[n]))
           /\ unsaved' \in BOOLEAN /\ fails' \in 0..MaxFails
BY SavesKeeps

LEMMA InitPage == Init => PageInv
<1> SUFFICES ASSUME Init PROVE PageInv
  OBVIOUS
<1>1. GoodData(Data(FirstLayouts, Default))
  BY DefaultPlaceable, Entries, Sizes DEF GoodData, Data, FirstLayouts
<1>2. Kept
  BY <1>1, DefaultPlaceable DEF Init, Kept
<1>3. ScreenShowsActive /\ SurvivesReload
  BY Sizes DEF Init, ScreenShowsActive, SurvivesReload, FirstLayouts
<1> QED
  BY <1>2, <1>3, Sizes, fails \in 0..MaxFails DEF Init, PageInv

\* What good data means, field by field.
LEMMA GoodFields ==
    ASSUME NEW ls, NEW a
    PROVE  GoodData(Data(ls, a)) <=>
           /\ ls \in [LayoutId -> Placeable \cup {NoEntry, Unused}] /\ a \in LayoutId
           /\ ls[Default] # Unused /\ ls[a] # Unused
BY DEF GoodData, Data

LEMMA GoodStore ==
    ASSUME GoodData(store)
    PROVE  store = Data(store.layouts, store.active)
BY DEF GoodData, Data

\* A layout that exists puts the control where it may stand.
LEMMA AppliedPlaceable ==
    ASSUME NEW ls \in [LayoutId -> Placeable \cup {NoEntry, Unused}], NEW id \in LayoutId,
           NEW g \in Placeable, ls[id] # Unused
    PROVE  /\ Applied(ls, id, g) \in Placeable
           /\ ls[id] # NoEntry => Applied(ls, id, g) = ls[id]
BY DEF Applied

LEMMA ReloadKeeps == ASSUME PageInv, Reload PROVE PageInv'
<1>1. GoodData(store) /\ store = Data(store.layouts, store.active)
  BY GoodStore DEF PageInv, Kept
<1>2. /\ store.layouts \in [LayoutId -> Placeable \cup {NoEntry, Unused}]
      /\ store.layouts[Default] # Unused /\ store.active \in LayoutId
      /\ store.layouts[store.active] # Unused
  BY <1>1 DEF GoodData
<1>3. layouts' = store.layouts /\ active' = store.active
  BY <1>2 DEF Reload
<1>4. screen' \in Placeable /\ (layouts'[active'] # NoEntry => screen' = layouts'[active'])
  BY <1>2, <1>3, AppliedPlaceable, DefaultPlaceable DEF Reload
<1>5. Kept'
  BY <1>1, <1>3, <1>4 DEF Kept, Reload
<1>6. ScreenShowsActive' /\ SurvivesReload'
  BY <1>1, <1>3, <1>4 DEF ScreenShowsActive, SurvivesReload, Reload
<1> QED
  BY <1>5, <1>6 DEF PageInv, Reload

\* A handler that shows and saves another state of the layouts.
LEMMA SwitchKeeps ==
    ASSUME PageInv, NEW ls, NEW id, NEW n \in 1..3, NEW actives \in [1..n -> LayoutId],
           layouts' = ls, active' = id, Saves(ls, actives),
           actives[n] = id, \A k \in 1..n : GoodData(Data(ls, actives[k])),
           screen' \in Placeable,
           ~editMode' /\ ls[id] # NoEntry => screen' = ls[id],
           editMode' \in BOOLEAN
    PROVE  PageInv'
<1>1. /\ GoodData(store') /\ (~unsaved' => store' = Data(ls, actives[n]))
      /\ unsaved' \in BOOLEAN /\ fails' \in 0..MaxFails
  BY SavedGood DEF PageInv, Kept
<1>2. Kept'
  BY <1>1 DEF Kept
<1>3. ScreenShowsActive' /\ SurvivesReload'
  BY <1>1 DEF ScreenShowsActive, SurvivesReload
<1> QED
  BY <1>1, <1>2, <1>3 DEF PageInv

LEMMA Now == /\ PageInv => /\ layouts \in [LayoutId -> Placeable \cup {NoEntry, Unused}]
                           /\ active \in LayoutId /\ layouts[Default] # Unused
                           /\ layouts[active] # Unused /\ screen \in Placeable
                           /\ editMode \in BOOLEAN
BY GoodFields DEF PageInv, Kept

LEMMA SetActiveKeeps ==
    ASSUME PageInv, NEW id \in LayoutId, SetActiveLayout(id) PROVE PageInv'
<1>1. layouts[id] # Unused /\ active' = id /\ Saves(layouts, <<id, id>>)
      /\ screen' = Applied(layouts, id, screen) /\ layouts' = layouts /\ editMode' = editMode
  BY DEF SetActiveLayout, Exists
<1>2. GoodData(Data(layouts, id))
  BY <1>1, Now, GoodFields
<1>3. screen' \in Placeable /\ (layouts[id] # NoEntry => screen' = layouts[id])
  BY <1>1, Now, AppliedPlaceable
<1>4. <<id, id>> \in [1..2 -> LayoutId]
  OBVIOUS
<1> QED
  BY <1>1, <1>2, <1>3, <1>4, Now, SwitchKeeps

LEMMA CreateKeeps ==
    ASSUME PageInv, NEW id \in LayoutId, CreateLayout(id) PROVE PageInv'
<1>1. /\ layouts[id] = Unused /\ layouts' = [layouts EXCEPT ![id] = layouts[active]]
      /\ Saves(layouts', <<active>>) /\ active' = active /\ screen' = screen
      /\ editMode' = editMode
  BY Now DEF CreateLayout, FreshIds, Exists
<1>2. layouts'[active] = layouts[active]
  BY <1>1, Now
<1>3. GoodData(Data(layouts', active))
  BY <1>1, <1>2, Now, GoodFields, Sizes
<1>4. <<active>> \in [1..1 -> LayoutId]
  BY Now
<1>5. ~editMode /\ layouts'[active] # NoEntry => screen = layouts'[active]
  BY <1>2 DEF PageInv, ScreenShowsActive
<1>6. PICK s \in [1..1 -> LayoutId] : s = <<active>>
  BY <1>4
<1>7. Saves(layouts', s) /\ s[1] = active /\ \A k \in 1..1 : GoodData(Data(layouts', s[k]))
  BY <1>1, <1>3, <1>6
<1> QED
  BY <1>1, <1>5, <1>7, 1 \in 1..3, Now, SwitchKeeps

LEMMA DeleteKeeps ==
    ASSUME PageInv, NEW id \in LayoutId, DeleteLayout(id) PROVE PageInv'
<1>1. /\ id # Default /\ layouts' = [layouts EXCEPT ![id] = Unused]
      /\ Saves(layouts', <<active'>>) /\ editMode' = editMode
  BY DEF DeleteLayout
<1>2. /\ layouts' \in [LayoutId -> Placeable \cup {NoEntry, Unused}]
      /\ layouts'[Default] # Unused
  BY <1>1, Now, Sizes
<1>3. /\ active' \in LayoutId /\ layouts'[active'] # Unused /\ screen' \in Placeable
      /\ ~editMode' /\ layouts'[active'] # NoEntry => screen' = layouts'[active']
  <2>1. CASE active = id
    <3>1. active' = Default /\ screen' = Applied(layouts', Default, screen)
      BY <2>1 DEF DeleteLayout
    <3> QED
      BY <1>2, <3>1, Now, AppliedPlaceable, Sizes
  <2>2. CASE active # id
    <3>1. active' = active /\ screen' = screen /\ layouts'[active'] = layouts[active]
      BY <1>1, <2>2, Now DEF DeleteLayout
    <3> QED
      BY <1>1, <3>1, Now DEF PageInv, ScreenShowsActive
  <2> QED
    BY <2>1, <2>2
<1>4. GoodData(Data(layouts', active'))
  BY <1>2, <1>3, GoodFields
<1>5. <<active'>> \in [1..1 -> LayoutId]
  BY <1>3
<1>6. PICK s \in [1..1 -> LayoutId] : s = <<active'>>
  BY <1>5
<1>7. Saves(layouts', s) /\ s[1] = active' /\ \A k \in 1..1 : GoodData(Data(layouts', s[k]))
  BY <1>1, <1>4, <1>6
<1>8. editMode' \in BOOLEAN
  BY <1>1, Now
<1> QED
  BY <1>3, <1>7, <1>8, 1 \in 1..3, SwitchKeeps

LEMMA ImportKeeps ==
    ASSUME PageInv, NEW id \in LayoutId, NEW g \in Imports \cup {NoEntry},
           ImportLayout(id, g)
    PROVE  PageInv'
<1>1. /\ layouts[id] = Unused /\ layouts' = [layouts EXCEPT ![id] = g] /\ active' = id
      /\ Saves(layouts', <<active, id, id>>) /\ screen' = Applied(layouts', id, screen)
      /\ editMode' = editMode
  BY DEF ImportLayout, FreshIds, Exists
<1>2. g \in Placeable \cup {NoEntry} /\ g # Unused
  BY ImportPlaceable, Entries, EntryAssumption
<1>3. /\ layouts' \in [LayoutId -> Placeable \cup {NoEntry, Unused}]
      /\ layouts'[Default] # Unused /\ layouts'[id] # Unused /\ layouts'[active] # Unused
  BY <1>1, <1>2, Now, Sizes
<1>4. GoodData(Data(layouts', id)) /\ GoodData(Data(layouts', active))
  BY <1>3, Now, GoodFields
<1>5. screen' \in Placeable /\ (layouts'[id] # NoEntry => screen' = layouts'[id])
  BY <1>1, <1>3, Now, AppliedPlaceable
<1>6. <<active, id, id>> \in [1..3 -> LayoutId]
  BY Now
<1>7. PICK s \in [1..3 -> LayoutId] : s = <<active, id, id>>
  BY <1>6
<1>8. Saves(layouts', s) /\ s[3] = id /\ \A k \in 1..3 : GoodData(Data(layouts', s[k]))
  BY <1>1, <1>4, <1>7
<1>9. editMode' \in BOOLEAN
  BY <1>1, Now
<1> QED
  BY <1>1, <1>5, <1>8, <1>9, 3 \in 1..3, SwitchKeeps

LEMMA SaveEditKeeps == ASSUME PageInv, Resave \/ SaveEdit PROVE PageInv'
<1>1. <<active>> \in [1..1 -> LayoutId]
  BY Now
<1>2. CASE Resave
  <2>1. /\ Saves(layouts, <<active>>) /\ layouts' = layouts /\ active' = active
        /\ screen' = screen /\ editMode' = editMode
    BY <1>2 DEF Resave
  <2>2. GoodData(Data(layouts, active))
    BY DEF PageInv, Kept
  <2>3. ~editMode /\ layouts[active] # NoEntry => screen = layouts[active]
    BY DEF PageInv, ScreenShowsActive
  <2> QED
    BY <1>1, <2>1, <2>2, <2>3, Now, SwitchKeeps
<1>3. CASE SaveEdit
  <2>1. /\ layouts' = [layouts EXCEPT ![active] = screen] /\ Saves(layouts', <<active>>)
        /\ active' = active /\ screen' = screen /\ editMode' = FALSE
    BY <1>3 DEF SaveEdit
  <2>2. screen # Unused /\ screen # NoEntry
    BY Now, Entries
  <2>3. layouts'[active] = screen
    BY <2>1, Now
  <2>4. GoodData(Data(layouts', active))
    BY <2>1, <2>2, Now, GoodFields, Sizes
  <2>5. PICK s \in [1..1 -> LayoutId] : s = <<active>>
    BY <1>1
  <2>6. /\ Saves(layouts', s) /\ s[1] = active
        /\ \A k \in 1..1 : GoodData(Data(layouts', s[k]))
    BY <2>1, <2>4, <2>5
  <2> QED
    BY <2>1, <2>3, <2>6, 1 \in 1..3, Now, SwitchKeeps
<1> QED
  BY <1>2, <1>3

\* Dragging, resizing and giving up change the screen only.
LEMMA EditKeeps ==
    ASSUME PageInv,
           \/ StartEditMode \/ CancelEdit
           \/ \E x \in Reach : Move(x) \/ ResizeRight(x) \/ ResizeLeft(x)
    PROVE  PageInv'
<1>1. UNCHANGED <<layouts, active, store, unsaved, fails>>
  BY DEF StartEditMode, CancelEdit, Move, ResizeRight, ResizeLeft, Drag
<1>2. /\ screen' \in Placeable /\ editMode' \in BOOLEAN
      /\ ~editMode' /\ layouts[active] # NoEntry => screen' = layouts[active]
  <2>1. CASE StartEditMode
    BY <2>1, Now DEF StartEditMode
  <2>2. CASE CancelEdit
    BY <2>2, Now, AppliedPlaceable DEF CancelEdit
  <2>3. ASSUME NEW x \in Reach, Move(x) \/ ResizeRight(x) \/ ResizeLeft(x)
        PROVE  screen' \in Placeable /\ editMode' = editMode /\ editMode
    BY <2>3, Now, MovePlaceable DEF Move, ResizeRight, ResizeLeft, Drag
  <2> QED
    BY <2>1, <2>2, <2>3, Now
<1> QED
  BY <1>1, <1>2 DEF PageInv, Kept, ScreenShowsActive, SurvivesReload

\* Fingers and the mouse leave the page alone.
LEMMA PageCases ==
    ASSUME [Next]_vars
    PROVE  \/ Reload \/ Resave \/ SaveEdit \/ StartEditMode \/ CancelEdit
           \/ \E x \in Reach : Move(x) \/ ResizeRight(x) \/ ResizeLeft(x)
           \/ \E id \in LayoutId : \/ SetActiveLayout(id) \/ CreateLayout(id) \/ DeleteLayout(id)
                                   \/ \E g \in Imports \cup {NoEntry} : ImportLayout(id, g)
           \/ UNCHANGED pageVars
BY DEF Next, vars, ReloadPage, TouchStart, TouchMove, TouchEnd, MouseDown, MouseLeave,
       MouseMove, MouseUp

LEMMA StepPage == PageInv /\ [Next]_vars => PageInv'
<1> SUFFICES ASSUME PageInv, [Next]_vars PROVE PageInv'
  OBVIOUS
<1>1. CASE UNCHANGED pageVars
  BY <1>1 DEF pageVars, PageInv, Kept, ScreenShowsActive, SurvivesReload
<1> QED
  BY <1>1, PageCases, ReloadKeeps, SetActiveKeeps, CreateKeeps, DeleteKeeps, ImportKeeps,
     SaveEditKeeps, EditKeeps

LEMMA PageHolds == Spec => []PageInv
BY InitPage, StepPage, PTL DEF Spec, AllInit

\* The active layout exists, here and in localStorage, after any sequence of
\* switches, imports, deletions, edits, failed saves and reloads.
THEOREM ActiveLayoutExists == Spec => []ActiveExists
<1>1. PageInv => ActiveExists
  BY Now DEF PageInv, Kept, GoodData, ActiveExists, Exists
<1> QED
  BY <1>1, PageHolds, PTL

\* Outside edit mode every control the active layout mentions stands where that
\* layout puts it.  (Nothing of one it does not mention: see ScreenShowsActive.)
THEOREM ScreenIsWhatLayoutSays == Spec => []ScreenShowsActive
<1>1. PageInv => ScreenShowsActive
  BY DEF PageInv
<1> QED
  BY <1>1, PageHolds, PTL

\* Unless the last save was refused, localStorage holds what the page holds.
THEOREM NothingLost == Spec => []SurvivesReload
<1>1. PageInv => SurvivesReload
  BY DEF PageInv
<1> QED
  BY <1>1, PageHolds, PTL

\* For any design area, minimum size, reach of the finger and files to import:
\* edits leave a control within reach and no smaller than MinSize, and where it
\* is not, a file has put it exactly there or given it exactly that width.
THEOREM OnlyFilesPutOutOfReach == Spec => []StaysInReach
<1>1. PageInv => StaysInReach
  BY DEF PageInv, Kept, Placeable, StaysInReach
<1> QED
  BY <1>1, PageHolds, PTL
----------------------------------------------------------------------------
(* Types.                                                                  *)

InputTyped ==
    /\ touching \in [Finger -> Control \cup {Nothing}]
    /\ mouse \in Control \cup {Nothing} /\ listening \in BOOLEAN
    /\ pressed \in [Control -> BOOLEAN]
    /\ tracking \in [Tracked -> Finger \cup {Nothing}]
    /\ missed \subseteq Control

LEMMA PageTyped == PageInv => PageTypeOK
<1> SUFFICES ASSUME PageInv PROVE PageTypeOK
  OBVIOUS
<1>1. Placeable \subseteq Geometry
  BY DEF Placeable
<1>2. layouts \in [LayoutId -> Entry] /\ active \in LayoutId /\ screen \in Geometry
  BY <1>1, Now DEF Entry
<1>3. store \in [layouts : [LayoutId -> Entry], active : LayoutId]
  BY <1>1 DEF PageInv, Kept, GoodData, Entry
<1> QED
  BY <1>2, <1>3 DEF PageInv, PageTypeOK

LEMMA PressTyped ==
    ASSUME InputTyped, NEW w \in Control, Press(w)
    PROVE  /\ pressed' \in [Control -> BOOLEAN]
           /\ \A v \in Control \ {w} : pressed'[v] = pressed[v]
<1>1. PICK b \in BOOLEAN : pressed' = [pressed EXCEPT ![w] = b]
  BY DEF Press
<1> QED
  BY <1>1 DEF InputTyped

LEMMA ReleaseTyped ==
    ASSUME InputTyped, NEW w \in Control, Release(w)
    PROVE  /\ pressed' \in [Control -> BOOLEAN] /\ pressed'[w] = FALSE
           /\ \A v \in Control \ {w} : pressed'[v] = pressed[v]
           /\ tracking' \in [Tracked -> Finger \cup {Nothing}]
           /\ missed' \subseteq Control
<1>1. pressed' = [pressed EXCEPT ![w] = FALSE]
  BY DEF Release
<1>2. pressed' \in [Control -> BOOLEAN]
  BY <1>1 DEF InputTyped
<1> QED
  BY <1>1, <1>2 DEF Release, InputTyped

\* The steps of fingers and mouse; every other step leaves the controls alone.
InputStep ==
    \/ \E f \in Finger : \/ \E w \in Control : TouchStart(f, w)
                         \/ TouchMove(f) \/ TouchEnd(f)
    \/ \E w \in Control : MouseDown(w) \/ MouseLeave(w)
    \/ MouseMove \/ MouseUp
    \/ ReloadPage

LEMMA InputCases == ASSUME [Next]_vars PROVE InputStep \/ UNCHANGED inputVars
BY DEF Next, vars, InputStep
----------------------------------------------------------------------------
(***************************************************************************)
(* Who holds what.  NothingStuck is not inductive: a second finger may     *)
(* leave a control that is pressed.  It is not the one that presses it,    *)
(* because a control that follows a pointer is pressed by the finger it    *)
(* follows or by the mouse it listens to.                                  *)
(***************************************************************************)
Follows(w) ==
    /\ tracking[w] # Nothing => touching[tracking[w]] = w
    /\ pressed[w] => tracking[w] # Nothing \/ (mouse = w /\ listening)

InputInv ==
    /\ InputTyped
    /\ listening => mouse \in Tracked
    /\ \A w \in Button \ missed : pressed[w] => Held(w)
    /\ \A w \in Tracked \ missed : Follows(w)

LEMMA InitInput == InputInit => InputInv
BY TouchAssumption DEF InputInit, InputInv, InputTyped, Follows, Control

LEMMA Disjoint ==
    /\ Nothing \notin Button /\ Nothing \notin Tracked /\ Nothing \notin Finger
    /\ Nothing \notin Control
    /\ \A w \in Button : w \notin Tracked /\ w \in Control
    /\ \A w \in Tracked : w \notin Button /\ w \in Control
    /\ \A w \in Control : w \in Button \/ w \in Tracked
BY TouchAssumption DEF Control

LEMMA StartKeeps ==
    ASSUME InputInv, NEW f \in Finger, NEW w \in Control, TouchStart(f, w) PROVE InputInv'
<1>1. /\ touching[f] = Nothing /\ touching' = [touching EXCEPT ![f] = w]
      /\ UNCHANGED <<mouse, listening, missed>>
  BY DEF TouchStart
<1>2. /\ touching' \in [Finger -> Control \cup {Nothing}] /\ touching'[f] = w
      /\ \A g \in Finger \ {f} : touching'[g] = touching[g]
  BY <1>1 DEF InputInv, InputTyped
<1>3. \A v \in Control : Held(v) => Held(v)'
  BY <1>1, <1>2, Disjoint DEF Held
<1>4. Held(w)'
  BY <1>2 DEF Held
<1>5. \A v \in Tracked : tracking[v] # Nothing /\ touching[tracking[v]] = v
                             => touching'[tracking[v]] = v
  BY <1>1, <1>2, Disjoint DEF InputInv, InputTyped
<1>6. CASE UNCHANGED <<pressed, tracking>>
  BY <1>1, <1>2, <1>3, <1>5, <1>6, Disjoint DEF InputInv, InputTyped, Follows
<1>7. CASE /\ Press(w)
           /\ IF w \in Tracked THEN tracking' = [tracking EXCEPT ![w] = f]
              ELSE UNCHANGED tracking
  <2>1. /\ pressed' \in [Control -> BOOLEAN]
        /\ \A v \in Control \ {w} : pressed'[v] = pressed[v]
    BY <1>7, PressTyped DEF InputInv
  <2>2. /\ tracking' \in [Tracked -> Finger \cup {Nothing}]
        /\ w \in Tracked => tracking'[w] = f
        /\ \A v \in Tracked \ {w} : tracking'[v] = tracking[v]
    BY <1>7 DEF InputInv, InputTyped
  <2>3. InputTyped'
    BY <1>1, <1>2, <2>1, <2>2 DEF InputInv, InputTyped
  <2>4. \A v \in Button \ missed' : pressed'[v] => Held(v)'
    BY <1>1, <1>3, <1>4, <2>1, Disjoint DEF InputInv
  <2>5. \A v \in Tracked \ missed' : Follows(v)'
    BY <1>1, <1>2, <1>5, <2>1, <2>2, Disjoint DEF InputInv, Follows
  <2> QED
    BY <1>1, <2>3, <2>4, <2>5 DEF InputInv
<1> QED
  BY <1>6, <1>7 DEF TouchStart

\* A release takes its control out of everybody's hands.
LEMMA EndKeeps ==
    ASSUME InputInv, NEW f \in Finger, TouchEnd(f) PROVE InputInv'
<1> DEFINE w == touching[f]
<1>1. /\ w \in Control /\ touching' = [touching EXCEPT ![f] = Nothing]
      /\ UNCHANGED <<mouse, listening>>
  BY DEF TouchEnd, InputInv, InputTyped
<1> HIDE DEF w
<1>2. /\ touching' \in [Finger -> Control \cup {Nothing}]
      /\ \A g \in Finger \ {f} : touching'[g] = touching[g]
  BY <1>1 DEF InputInv, InputTyped
<1>3. \A v \in Control \ {w} : Held(v) => Held(v)'
  BY <1>1, <1>2 DEF Held, w
<1>4. \A v \in Tracked \ {w} : tracking[v] # Nothing /\ touching[tracking[v]] = v
                                   => touching'[tracking[v]] = v
  BY <1>1, <1>2, Disjoint DEF InputInv, InputTyped, w
<1>5. CASE Release(w)
  <2>1. /\ pressed' \in [Control -> BOOLEAN] /\ pressed'[w] = FALSE
        /\ \A v \in Control \ {w} : pressed'[v] = pressed[v]
        /\ tracking' \in [Tracked -> Finger \cup {Nothing}]
        /\ missed' \subseteq Control
    BY <1>1, <1>5, ReleaseTyped DEF InputInv
  <2>2. /\ \A v \in Tracked \ {w} : tracking'[v] = tracking[v]
        /\ w \in Tracked => tracking'[w] = Nothing
        /\ missed' = missed \ {w}
    BY <1>5 DEF Release
  <2>3. InputTyped'
    BY <1>1, <1>2, <2>1 DEF InputInv, InputTyped
  <2>4. \A v \in Button \ missed' : pressed'[v] => Held(v)'
    BY <1>3, <2>1, <2>2, Disjoint DEF InputInv
  <2>5. \A v \in Tracked \ missed' : Follows(v)'
    BY <1>1, <1>4, <2>1, <2>2, Disjoint DEF InputInv, Follows
  <2> QED
    BY <1>1, <2>3, <2>4, <2>5 DEF InputInv
<1>6. CASE ~Release(w)
  <2>1. /\ editMode \/ ~Reacts(f, w)
        /\ missed' = IF editMode /\ Reacts(f, w) THEN missed \cup Left(w) ELSE missed
        /\ UNCHANGED <<pressed, tracking>>
    BY <1>6 DEF TouchEnd, w
  <2>2. InputTyped'
    BY <1>1, <1>2, <2>1 DEF InputInv, InputTyped, Left
  <2>3. w \notin missed' => (w \in Tracked /\ tracking[w] # f) \/ (w \in Button /\ ~pressed[w])
    BY <1>1, <2>1, Disjoint DEF Reacts, Left
  <2>4. \A v \in Button \ missed' : pressed'[v] => Held(v)'
    BY <1>3, <2>1, <2>3, Disjoint DEF InputInv
  <2>5. ASSUME NEW v \in Tracked \ missed' PROVE Follows(v)'
    <3>1. Follows(v)
      BY <2>1, <2>5 DEF InputInv
    <3>2. tracking[v] # Nothing => touching'[tracking[v]] = v
      <4>1. CASE v = w
        <5>1. tracking[v] # f
          BY <2>3, <2>5, <4>1, Disjoint
        <5> QED
          BY <1>2, <3>1, <5>1 DEF Follows, InputInv, InputTyped
      <4>2. CASE v # w
        BY <1>4, <3>1, <4>2 DEF Follows
      <4> QED
        BY <4>1, <4>2
    <3> QED
      BY <1>1, <2>1, <3>1, <3>2 DEF Follows
  <2> QED
    BY <1>1, <2>2, <2>4, <2>5 DEF InputInv
<1> QED
  BY <1>5, <1>6

LEMMA MoveKeeps ==
    ASSUME InputInv, NEW f \in Finger, TouchMove(f) PROVE InputInv'
<1>1. PICK w \in Tracked : w = touching[f] /\ tracking[w] = f
  BY DEF TouchMove
<1>2. /\ pressed' \in [Control -> BOOLEAN]
      /\ \A v \in Control \ {w} : pressed'[v] = pressed[v]
  BY <1>1, PressTyped, Disjoint DEF TouchMove, InputInv
<1>3. UNCHANGED <<touching, mouse, listening, tracking, missed>>
  BY DEF TouchMove
<1>4. \A v \in Button \ missed' : pressed'[v] => Held(v)'
  BY <1>2, <1>3, Disjoint DEF InputInv, Held
<1>5. \A v \in Tracked \ missed' : Follows(v)'
  BY <1>1, <1>2, <1>3, Disjoint DEF InputInv, Follows
<1> QED
  BY <1>2, <1>3, <1>4, <1>5 DEF InputInv, InputTyped

LEMMA MouseKeeps ==
    ASSUME InputInv, MouseMove \/ MouseUp \/ \E w \in Control : MouseDown(w) \/ MouseLeave(w)
    PROVE  InputInv'
<1>1. CASE MouseMove
  <2>1. mouse \in Tracked /\ listening /\ UNCHANGED <<touching, mouse, listening, tracking, missed>>
    BY <1>1 DEF MouseMove, InputInv
  <2>2. /\ pressed' \in [Control -> BOOLEAN]
        /\ \A v \in Control \ {mouse} : pressed'[v] = pressed[v]
    BY <1>1, <2>1, PressTyped, Disjoint DEF MouseMove, InputInv
  <2>3. \A v \in Button \ missed' : pressed'[v] => Held(v)'
    BY <2>1, <2>2, Disjoint DEF InputInv, Held
  <2>4. \A v \in Tracked \ missed' : Follows(v)'
    BY <2>1, <2>2, Disjoint DEF InputInv, Follows
  <2> QED
    BY <2>1, <2>2, <2>3, <2>4 DEF InputInv, InputTyped
<1>2. CASE MouseUp
  <2>1. /\ mouse \in Control /\ mouse' = Nothing /\ listening' = FALSE
        /\ UNCHANGED <<touching, tracking>>
    BY <1>2 DEF MouseUp, InputInv, InputTyped
  <2>2. \A v \in Control \ {mouse} : Held(v) => Held(v)'
    BY <2>1 DEF Held
  <2>3. CASE pressed' = [pressed EXCEPT ![mouse] = FALSE] /\ UNCHANGED missed
    <3>1. /\ pressed' \in [Control -> BOOLEAN] /\ ~pressed'[mouse]
          /\ \A v \in Control \ {mouse} : pressed'[v] = pressed[v]
      BY <2>1, <2>3 DEF InputInv, InputTyped
    <3>2. \A v \in Button \ missed' : pressed'[v] => Held(v)'
      BY <2>2, <2>3, <3>1, Disjoint DEF InputInv
    <3>3. \A v \in Tracked \ missed' : Follows(v)'
      BY <2>1, <2>3, <3>1, Disjoint DEF InputInv, Follows
    <3> QED
      BY <2>1, <2>3, <3>1, <3>2, <3>3 DEF InputInv, InputTyped
  <2>4. CASE /\ ~listening
             /\ missed' = IF mouse \in Button THEN missed \cup Left(mouse) ELSE missed
             /\ UNCHANGED pressed
    <3>1. \A v \in Button \ missed' : (v # mouse \/ ~pressed[v]) /\ v \notin missed
      BY <2>4 DEF Left
    <3>2. \A v \in Button \ missed' : pressed'[v] => Held(v)'
      BY <2>2, <2>4, <3>1, Disjoint DEF InputInv
    <3>3. \A v \in Tracked \ missed' : Follows(v)'
      BY <2>1, <2>4 DEF InputInv, Follows
    <3> QED
      BY <2>1, <2>4, <3>2, <3>3 DEF InputInv, InputTyped, Left
  <2> QED
    BY <1>2, <2>3, <2>4 DEF MouseUp
<1>3. ASSUME NEW w \in Control, MouseDown(w) PROVE InputInv'
  <2>1. /\ mouse = Nothing /\ mouse' = w /\ ~listening
        /\ UNCHANGED <<touching, tracking, missed>>
    BY <1>3, Disjoint DEF MouseDown, InputInv
  <2>2. listening' \in BOOLEAN /\ (listening' <=> ~editMode /\ w \in Tracked)
    BY <1>3 DEF MouseDown
  <2>3. Held(w)' /\ \A v \in Control : Held(v) => Held(v)'
    BY <2>1, Disjoint DEF Held
  <2>4. CASE UNCHANGED pressed
    <3>1. \A v \in Button \ missed' : pressed'[v] => Held(v)'
      BY <2>1, <2>3, <2>4, Disjoint DEF InputInv
    <3>2. \A v \in Tracked \ missed' : Follows(v)'
      BY <2>1, <2>4, Disjoint DEF InputInv, Follows
    <3> QED
      BY <2>1, <2>2, <2>4, <3>1, <3>2 DEF InputInv, InputTyped
  <2>5. CASE ~editMode /\ Press(w)
    <3>1. /\ pressed' \in [Control -> BOOLEAN]
          /\ \A v \in Control \ {w} : pressed'[v] = pressed[v]
      BY <2>5, PressTyped DEF InputInv
    <3>2. \A v \in Button \ missed' : pressed'[v] => Held(v)'
      BY <2>1, <2>3, <3>1, Disjoint DEF InputInv
    <3>3. \A v \in Tracked \ missed' : Follows(v)'
      BY <2>1, <2>2, <2>5, <3>1, Disjoint DEF InputInv, Follows
    <3> QED
      BY <2>1, <2>2, <3>1, <3>2, <3>3 DEF InputInv, InputTyped
  <2> QED
    BY <1>3, <2>4, <2>5 DEF MouseDown
<1>4. ASSUME NEW w \in Control, MouseLeave(w) PROVE InputInv'
  <2>1. /\ w \in Button /\ pressed' = [pressed EXCEPT ![w] = FALSE]
        /\ UNCHANGED <<touching, mouse, listening, tracking, missed>>
    BY <1>4 DEF MouseLeave
  <2>2. /\ pressed' \in [Control -> BOOLEAN] /\ ~pressed'[w]
        /\ \A v \in Control \ {w} : pressed'[v] = pressed[v]
    BY <2>1 DEF InputInv, InputTyped
  <2>3. \A v \in Button \ missed' : pressed'[v] => Held(v)'
    BY <2>1, <2>2, Disjoint DEF InputInv, Held
  <2>4. \A v \in Tracked \ missed' : Follows(v)'
    BY <2>1, <2>2, Disjoint DEF InputInv, Follows
  <2> QED
    BY <2>1, <2>2, <2>3, <2>4 DEF InputInv, InputTyped
<1> QED
  BY <1>1, <1>2, <1>3, <1>4

LEMMA ReloadedInput == ReloadPage => InputInv'
BY TouchAssumption DEF ReloadPage, InputInv, InputTyped, Follows, Control

LEMMA StepInput == InputInv /\ [Next]_vars => InputInv'
<1> SUFFICES ASSUME InputInv, [Next]_vars PROVE InputInv'
  OBVIOUS
<1>1. CASE UNCHANGED inputVars
  BY <1>1 DEF inputVars, InputInv, InputTyped, Follows, Held
<1>2. CASE InputStep
  BY <1>2, StartKeeps, EndKeeps, MoveKeeps, MouseKeeps, ReloadedInput DEF InputStep
<1> QED
  BY <1>1, <1>2, InputCases

LEMMA InputHolds == Spec => []InputInv
BY InitInput, StepInput, PTL DEF Spec, AllInit

\* Every variable of the page and of its controls keeps its type.
THEOREM TypesHold == Spec => []TypeOK
<1>1. PageInv /\ InputInv => TypeOK
  BY PageTyped DEF InputInv, InputTyped, TypeOK
<1> QED
  BY <1>1, PageHolds, InputHolds, PTL

\* No control is pressed that nobody holds, and none waits for a finger that
\* has gone, except those that a release in edit mode left so - for any number
\* of fingers, buttons and sticks, with the mouse in use as well.
THEOREM OnlyEditModeLeavesStuck == Spec => []NothingStuck
<1>1. InputInv => NothingStuck
  <2> SUFFICES ASSUME InputInv, NEW w \in Control \ missed
               PROVE /\ pressed[w] => Held(w)
                     /\ w \in Tracked /\ tracking[w] # Nothing => touching[tracking[w]] = w
    BY DEF NothingStuck
  <2>1. CASE w \in Button
    BY <2>1, Disjoint DEF InputInv
  <2>2. CASE w \in Tracked
    <3>1. Follows(w) /\ tracking[w] \in Finger \cup {Nothing}
      BY <2>2 DEF InputInv, InputTyped
    <3>2. tracking[w] # Nothing => Held(w)
      BY <3>1 DEF Follows, Held
    <3> QED
      BY <3>1, <3>2 DEF Follows, Held
  <2> QED
    BY <2>1, <2>2, Disjoint
<1> QED
  BY <1>1, InputHolds, PTL

\* A trigger, d-pad or stick that follows a finger is not disturbed when any
\* other finger comes down or goes up; a button that a finger holds is let go
\* only by a finger that goes up from that button.
THEOREM OtherFingersDisturbOnlyButtons == Spec => MultiTouchSafe
<1> DEFINE Safe(f, g) ==
        /\ \A w \in Tracked :
               Apart(w, f, g) /\ tracking[w] = f
                   => tracking'[w] = f /\ pressed'[w] = pressed[w]
        /\ \A w \in Button :
               Apart(w, f, g) /\ pressed[w] /\ touching[g] # w => pressed'[w]
<1>1. ASSUME InputTyped, [Next]_vars, NEW f \in Finger, NEW g \in Finger
      PROVE  Safe(f, g)
  <2>1. ASSUME NEW w \in Control, Apart(w, f, g),
               \/ w \in Tracked /\ tracking[w] = f
               \/ w \in Button /\ pressed[w] /\ touching[g] # w
        PROVE  /\ w \in Tracked => tracking'[w] = f /\ pressed'[w] = pressed[w]
               /\ w \in Button => pressed'[w]
    <3>1. ASSUME NEW h \in Finger, NEW v \in Control, TouchStart(h, v)
          PROVE  /\ w \in Tracked => tracking'[w] = f /\ pressed'[w] = pressed[w]
                 /\ w \in Button => pressed'[w]
      <4>1. CASE UNCHANGED <<pressed, tracking>>
        BY <2>1, <4>1, Disjoint
      <4>2. CASE /\ ~(v \in Tracked /\ tracking[v] # Nothing) /\ Press(v)
                 /\ IF v \in Tracked THEN tracking' = [tracking EXCEPT ![v] = h]
                    ELSE UNCHANGED tracking
        <5>1. CASE v # w
          BY <1>1, <2>1, <4>2, <5>1, PressTyped, Disjoint DEF InputTyped
        <5>2. CASE v = w
          <6>1. w \in Button /\ w \notin Tracked
            BY <2>1, <4>2, <5>2, Disjoint
          <6>2. pressed'[w]
            BY <1>1, <4>2, <5>2, <6>1 DEF Press, InputTyped
          <6> QED
            BY <6>1, <6>2
        <5> QED
          BY <5>1, <5>2
      <4> QED
        BY <3>1, <4>1, <4>2 DEF TouchStart
    <3>2. ASSUME NEW h \in Finger, TouchEnd(h)
          PROVE  /\ w \in Tracked => tracking'[w] = f /\ pressed'[w] = pressed[w]
                 /\ w \in Button => pressed'[w]
      <4>1. h = g
        BY <1>1, <2>1, <3>2 DEF TouchEnd, InputTyped, Apart
      <4>2. touching[g] \in Control
        BY <1>1, <3>2, <4>1 DEF TouchEnd, InputTyped
      <4>3. CASE UNCHANGED <<pressed, tracking>>
        BY <2>1, <4>3, Disjoint
      <4>4. CASE Reacts(g, touching[g]) /\ Release(touching[g])
        <5>1. touching[g] # w
          BY <2>1, <4>4, Disjoint DEF Reacts, Apart
        <5>2. pressed'[w] = pressed[w]
          BY <1>1, <4>2, <4>4, <5>1, ReleaseTyped
        <5> QED
          BY <2>1, <4>4, <5>1, <5>2, Disjoint DEF Release
      <4> QED
        BY <3>2, <4>1, <4>3, <4>4 DEF TouchEnd
    <3>3. touching'[f] # Nothing /\ touching' # touching
      BY <2>1, Disjoint DEF Apart
    <3>4. ~ReloadPage
      BY <3>3 DEF ReloadPage
    <3>5. \E h \in Finger : TouchEnd(h) \/ \E v \in Control : TouchStart(h, v)
      BY <1>1, <3>3, <3>4, InputCases
         DEF InputStep, inputVars, TouchMove, MouseDown, MouseLeave, MouseMove, MouseUp
    <3> QED
      BY <3>1, <3>2, <3>5
  <2> QED
    BY <2>1, Disjoint
<1>2. InputInv /\ [Next]_vars => \A f, g \in Finger : Safe(f, g)
  BY <1>1 DEF InputInv
<1> QED
  BY <1>2, InputHolds, PTL DEF Spec, MultiTouchSafe
=============================================================================
