SPECIFICATION Spec
CONSTANTS
    Default = Default
    Unused = Unused
    NoEntry = NoEntry
    LayoutId = {Default, l1}
    Area = 2
    MinSize = 2
    Imports <- Files
    Margin = 1
    MaxWidth = 3
    MaxFails = 1
    Button = {b}
    Tracked = {t}
    f1 = f1
    f2 = f2
    Finger = {f1, f2}
    Nothing = Nothing
INVARIANTS TypeOK ActiveExists ScreenShowsActive SurvivesReload StaysInReach NothingStuck
PROPERTY MultiTouchSafe
SYMMETRY Fingers
