-------------------------------- MODULE Swipe --------------------------------
(***************************************************************************)
(* Rows of the app that are swiped to reveal a button                      *)
(* (EVYSwipeableRow.swift): the drag of each row, by a finger of its own,  *)
(* the row that is open according to the coordinator they share, and what  *)
(* each row shows.                                                         *)
(*                                                                         *)
(* Widths are multiples of the snap threshold.                             *)
(***************************************************************************)
EXTENDS Integers, FiniteSets

CONSTANTS
    View,         \* the rows on the screen
    Identity,     \* what the coordinator knows a row by: its id, and its datum's if it has one
    Dragged,      \* how far fingers drag, to the right
    Speed,        \* by how much the end of a drag is thrown further
    Careful,      \* does a row that ran its action rest before it is dragged again
    MaxSteps,     \* bound: touches
    MaxCancels,   \* bound: drags the system takes over
    MaxReturns,   \* bound: rows that are made anew
    None

Reveal  == 2           \* revealWidth; the threshold is 1
Stretch == 2 * Reveal  \* maxStretchWidth
Swept   == -8          \* the width of a row

SwipeAssumption ==
    /\ DOMAIN Identity = View /\ None \notin View
    /\ Dragged \subseteq Int /\ Speed \subseteq Int /\ Careful \in BOOLEAN
    /\ {MaxSteps, MaxCancels, MaxReturns} \subseteq Nat

VARIABLES
    openRow,      \* openRowId
    offset,       \* of each row
    dragging,     \* isDragging
    wasOpen,      \* wasOpenAtDragStart
    touched,      \* the translation of the finger on a row; None without one
    sweeping,     \* the rows whose sweep has not ended
    runs, steps, cancels, returns

vars == <<openRow, offset, dragging, wasOpen, touched, sweeping, runs, steps, cancels, returns>>

IsOpen(v) == openRow = Identity[v]

-----------------------------------------------------------------------------
(* EVYSwipeGeometry.                                                         *)

Base(open) == IF open THEN -Reveal ELSE 0

\* What goes beyond the stretch follows by a third.
DragOffset(translation, open) ==
    LET proposed == Base(open) + translation
    IN  IF proposed > 0 THEN 0
        ELSE IF proposed < -Stretch THEN -Stretch - ((-Stretch - proposed) \div 3)
        ELSE proposed

EndsOpen(translation, speed, open) ==
    (IF speed = 0 THEN DragOffset(translation, open) ELSE Base(open) + translation + speed) <= -1

-----------------------------------------------------------------------------
Init ==
    /\ openRow = None
    /\ offset   = [v \in View |-> 0]
    /\ dragging = [v \in View |-> FALSE]
    /\ wasOpen  = [v \in View |-> FALSE]
    /\ touched  = [v \in View |-> None]
    /\ sweeping = {}
    /\ runs = 0 /\ steps = 0 /\ cancels = 0 /\ returns = 0

\* A mutant: a row listens only for its own opening.
FollowOwn(offsets) ==
    offset' = [v \in View |->
        IF openRow' # openRow /\ ~dragging'[v] /\ openRow' = Identity[v] THEN -Reveal ELSE offsets[v]]

\* The rows are drawn anew: when the open row is another, each that is not
\* dragged goes where it belongs.
Follow(offsets) ==
    offset' = [v \in View |->
        IF openRow' # openRow /\ ~dragging'[v]
        THEN Base(openRow' = Identity[v]) ELSE offsets[v]]

Closed(v) == IF openRow = Identity[v] THEN None ELSE openRow

Settle(v, open) ==
    /\ openRow' = IF open THEN Identity[v] ELSE Closed(v)
    /\ Follow([offset EXCEPT ![v] = Base(open)])

Touch == steps < MaxSteps /\ steps' = steps + 1

\* A finger on the row moves, more to the side than up or down.
Drag(v, translation) ==
    /\ Touch
    /\ Careful => v \notin sweeping
    /\ touched' = [touched EXCEPT ![v] = translation]
    /\ UNCHANGED <<sweeping, runs, cancels, returns>>
    /\ IF ~IsOpen(v) /\ translation >= 0 THEN UNCHANGED <<openRow, offset, dragging, wasOpen>>
       ELSE /\ dragging' = [dragging EXCEPT ![v] = TRUE]
            /\ wasOpen' = IF dragging[v] THEN wasOpen ELSE [wasOpen EXCEPT ![v] = IsOpen(v)]
            /\ openRow' = IF ~dragging[v] /\ ~IsOpen(v) THEN None ELSE openRow
            /\ Follow([offset EXCEPT ![v] = DragOffset(translation, wasOpen'[v])])

EndDrag(v, speed) ==
    /\ touched[v] # None /\ touched' = [touched EXCEPT ![v] = None]
    /\ UNCHANGED <<wasOpen, sweeping, runs, steps, cancels, returns>>
    /\ IF ~dragging[v] THEN UNCHANGED <<openRow, offset, dragging>>
       ELSE /\ dragging' = [dragging EXCEPT ![v] = FALSE]
            /\ Settle(v, EndsOpen(touched[v], speed, wasOpen[v]))

\* The system takes the touch away: the end of the drag is not told.
Cancel(v) ==
    /\ cancels < MaxCancels /\ cancels' = cancels + 1
    /\ touched[v] # None /\ touched' = [touched EXCEPT ![v] = None]
    /\ UNCHANGED <<openRow, offset, dragging, wasOpen, sweeping, runs, steps, returns>>

\* A tap on the content of an open row closes it.
TapContent(v) ==
    /\ Touch /\ touched[v] = None
    /\ IsOpen(v) /\ ~dragging[v]
    /\ UNCHANGED <<dragging, wasOpen, touched, sweeping, runs, cancels, returns>>
    /\ Settle(v, FALSE)

\* executeWithCommitSweep.
TapButton(v) ==
    /\ Touch /\ touched[v] = None
    /\ offset[v] <= -1 /\ ~dragging[v]
    /\ UNCHANGED <<dragging, wasOpen, touched, cancels, returns>>
    /\ openRow' = Closed(v)
    /\ Follow([offset EXCEPT ![v] = Swept])
    /\ sweeping' = sweeping \cup {v}
    /\ runs' = runs + 1

SweepEnds(v) ==
    /\ v \in sweeping /\ sweeping' = sweeping \ {v}
    /\ offset' = [offset EXCEPT ![v] = 0]
    /\ UNCHANGED <<openRow, dragging, wasOpen, touched, runs, steps, cancels, returns>>

\* The page is left and opened again, or the row scrolled away and back.
Returns(v) ==
    /\ returns < MaxReturns /\ returns' = returns + 1
    /\ offset' = [offset EXCEPT ![v] = 0]
    /\ dragging' = [dragging EXCEPT ![v] = FALSE]
    /\ wasOpen' = [wasOpen EXCEPT ![v] = FALSE]
    /\ touched' = [touched EXCEPT ![v] = None]
    /\ sweeping' = sweeping \ {v}
    /\ UNCHANGED <<openRow, runs, steps, cancels>>

Next ==
    \E v \in View :
        \/ \E t \in Dragged : Drag(v, t)
        \/ \E s \in Speed : EndDrag(v, s)
        \/ Cancel(v) \/ TapContent(v) \/ TapButton(v) \/ SweepEnds(v) \/ Returns(v)

Spec == Init /\ [][Next]_vars

-----------------------------------------------------------------------------
(* Type invariant. *)
TypeOK ==
    /\ openRow \in {Identity[v] : v \in View} \cup {None}
    /\ offset \in [View -> Swept .. 0]
    /\ dragging \in [View -> BOOLEAN] /\ wasOpen \in [View -> BOOLEAN]
    /\ touched \in [View -> Dragged \cup {None}]
    /\ sweeping \subseteq View

Rests(v) == touched[v] = None /\ v \notin sweeping

(* Where no finger is, a row shows what the coordinator says of it: its button  *)
(* when it is the open one, and nothing else.  (Not so after a drag the system  *)
(* took over, when a row is made anew while it is open, or when one is opened   *)
(* before the sweep of its action ended.)                                       *)
RestingRowsFollow == \A v \in View : Rests(v) => offset[v] = Base(IsOpen(v)) /\ ~dragging[v]

(* Of the rows that are neither dragged nor swept away one at most shows its    *)
(* button, whatever the system takes over or makes anew.  (Not so for rows      *)
(* without an id of their own, which share an identity.)                        *)
OneRowIsOpen ==
    Cardinality({v \in View : v \notin sweeping /\ ~dragging[v] /\ offset[v] < 0}) <= 1

=============================================================================
