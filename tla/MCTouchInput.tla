---------------------------- MODULE MCTouchInput ----------------------------
EXTENDS TouchInput, TLC
CONSTANTS f1, f2

\* Fingers are only told apart by their names.
Fingers == Permutations({f1, f2})

\* What files may say of the control: an ordinary place, and one out of the
\* area, where it is too small as well.
Files == {DefaultGeometry, [left |-> 3, width |-> 1]}
=============================================================================
