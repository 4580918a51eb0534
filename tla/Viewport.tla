------------------------------- MODULE Viewport -------------------------------
(***************************************************************************)
(* The builder's canvas: the camera that is panned and zoomed              *)
(* (useCamera.ts), the gestures that move it (useViewportGestures.ts), and *)
(* how it follows what is selected (useSelectionPanOnEnter.ts, the         *)
(* centring of CanvasViewport.tsx, preActivationCapture.ts).               *)
(*                                                                         *)
(* One axis, in units of which a page is several; a page is known by where *)
(* its centre is in the world.  All pages of a flow are shown in a row     *)
(* until one is active, which is shown alone.  A transition shows what it  *)
(* started from until it ends.                                             *)
(***************************************************************************)
EXTENDS Integers

CONSTANTS
    Place,        \* the centre of each page of each flow while none is active
    Alone,        \* the centre of the page that is active
    Width,        \* the width of the pages of a flow
    Center,       \* the middle of the viewport
    Inset,        \* COLLAPSED_PANEL_WIDTH_PX + CANVAS_EDGE_MARGIN_PX
    Padding,      \* paddingPx of fitToBounds
    Step,         \* how far a gesture moves the canvas
    Opened,       \* the pages the builder may be opened at; None for a flow
    Careful,      \* does the author select only what stands still
    MaxSteps,     \* bound: steps of the author
    None

Flow    == DOMAIN Place
Page(f) == DOMAIN Place[f]
Pages   == UNION {Page(f) : f \in Flow}
Scales  == {1, 2}   \* CAMERA_MIN_SCALE and CAMERA_MAX_SCALE
Tolerance == 3      \* a pan by less is skipped

ViewportAssumption ==
    /\ \A f \in Flow : Place[f] \in [Page(f) -> Int] /\ Width[f] \in Nat
    /\ {Alone, Center, Inset, Padding} \subseteq Int /\ Step \in Nat \ {0} /\ MaxSteps \in Nat
    /\ None \notin Int \cup Pages
    /\ Opened \subseteq Pages \cup {None} /\ Careful \in BOOLEAN

VARIABLES
    view,       \* camera, the transform painted and the one seen, the frame and the transition pending
    flow,       \* activeFlowId
    page,       \* activePageId, if an element is active
    captured,   \* capturedCenter
    centered,   \* hasCenteredOnMount
    drag,       \* the middle button: its velocity while it is held
    inertia,    \* the velocity of the pan that goes on
    aim,        \* what the last selection put in its place, until the author moves it
    moved,      \* by how much leaving a page moved it
    steps

vars == <<view, flow, page, captured, centered, drag, inertia, aim, moved, steps>>

-----------------------------------------------------------------------------
(* useCamera.                                                                *)

At(offset, scale) == [offset |-> offset, scale |-> scale]
Clamp(s) == IF s < 1 THEN 1 ELSE IF s > 2 THEN 2 ELSE s

\* The transform is set on the world; a transition under way starts again
\* from what is seen.
Apply(v) == [v EXCEPT !.painted = v.camera, !.seen = IF v.moving THEN @ ELSE v.camera]

Pan(v, d)     == [v EXCEPT !.camera.offset = @ + d, !.frame = TRUE]

\* A mutant: the world is left where it was.
SnapPanLater(v, d) == [v EXCEPT !.camera.offset = @ + d]
SnapPan(v, d) == Apply([v EXCEPT !.camera.offset = @ + d])

SmoothPanTo(v, offset) ==
    Apply([v EXCEPT !.frame = FALSE, !.moving = TRUE, !.camera.offset = offset])

ZoomAt(v, x, scale) ==
    LET old == v.camera
        new == Clamp(scale)
    IN  [v EXCEPT !.camera = At(x - ((x - old.offset) * new) \div old.scale, new), !.frame = TRUE]

\* The largest scale at which the content fits, its middle in the middle.
FitToBounds(v, width) ==
    LET new == IF width * 2 + 2 * Padding <= 2 * Center THEN 2 ELSE 1
    IN  [v EXCEPT !.camera = At(Center - (width * new) \div 2, new), !.frame = TRUE]

\* Where a point of the world is seen.
Screen(v, x) == v.seen.offset + v.seen.scale * x

\* A mutant: the distance on the screen is taken for one of the world.
PanToElementInWorld(v, x) ==
    LET delta == (Center - Screen(v, x)) \div v.seen.scale
    IN  IF delta \in -Tolerance .. Tolerance THEN v ELSE SmoothPanTo(v, v.camera.offset + delta)

PanToElement(v, x) ==
    LET delta == Center - Screen(v, x)
    IN  IF delta \in -Tolerance .. Tolerance THEN v ELSE SmoothPanTo(v, v.camera.offset + delta)

SnapTo(v, x, target) == LET d == target - Screen(v, x) IN IF d = 0 THEN v ELSE SnapPan(v, d)

-----------------------------------------------------------------------------
(* What a change of the selection does to the view, before it is painted.    *)

\* useSelectionPanOnEnter, when a page becomes active.
Entered(v, capture) ==
    IF capture # None THEN PanToElement(SnapTo(v, Alone, capture), Alone)
    ELSE SnapTo(v, Alone, Center)

\* A mutant: the page is left where the canvas was.
LeftUncompensated(v, p, f, capture) == v

\* The same when none is active any more: the page is where it was.
Left(v, p, f, capture) ==
    IF capture = None \/ p \notin Page(f) THEN v ELSE SnapTo(v, Place[f][p], capture)

\* horizontalCenterOffset, and the layout effect that snaps by it.
CenterContent(v, f) ==
    LET width == Width[f] * v.seen.scale
        left  == IF width <= 2 * Center - 2 * Inset THEN Center - width \div 2 ELSE Inset
    IN  SnapTo(v, 0, left)

\* A mutant: what was captured for leaving stays.
ConsumedEntering(entering, leaving, capture) == IF entering THEN None ELSE capture

Consumed(entering, leaving, capture) == IF entering \/ leaving THEN None ELSE capture

\* The render of flow f with page p active, or none; the capture is what was
\* captured when it began.
Render(f, p, capture) ==
    LET entering == page = None /\ p # None
        leaving  == page # None /\ p = None
        change   == f # flow
        followed == IF entering THEN Entered(view, capture)
                    ELSE IF leaving THEN Left(view, page, f, capture)
                    ELSE view
        reset    == IF change /\ p = None THEN SnapPan(followed, -view.camera.offset) ELSE followed
        centers  == p = None /\ (change \/ ~centered)
    IN  /\ flow' = f /\ page' = p
        /\ captured' = Consumed(entering, leaving, capture)
        /\ centered' = (centers \/ (centered /\ ~change))
        /\ view' = IF centers THEN CenterContent(reset, f) ELSE reset
        /\ aim' = IF entering THEN "page"
                  ELSE IF centers THEN "content"
                  ELSE IF leaving THEN "none"
                  ELSE aim
        /\ moved' = IF leaving /\ page \in Page(f)
                    THEN Screen(view', Place[f][page]) - Screen(view, Alone)
                    ELSE 0

Init ==
    /\ \E p \in Opened, f \in Flow :
          /\ p # None => p \in Page(f)
          /\ flow = f /\ page = p
          /\ centered = (p = None)
          /\ aim = IF p = None THEN "content" ELSE "page"
          /\ view = LET start == [camera |-> At(0, 1), painted |-> At(0, 1), seen |-> At(0, 1),
                                  frame |-> FALSE, moving |-> FALSE]
                    IN  IF p = None THEN CenterContent(start, f) ELSE Entered(start, None)
    /\ captured = None
    /\ drag = None /\ inertia = 0
    /\ moved = 0
    /\ steps = 0

Act   == steps < MaxSteps /\ steps' = steps + 1
Still == ~view.moving /\ ~view.frame /\ inertia = 0 /\ drag = None
Ready == Act /\ (Careful => Still) /\ UNCHANGED <<drag, inertia>>

Here == Screen(view, IF page = None THEN 0 ELSE Alone)

\* A page, or a row of it, is clicked: while none is active, where it is; a
\* row of the active page is captured too.
Select(p) ==
    /\ Ready /\ p \in Page(flow)
    /\ IF page = None THEN Render(flow, p, Screen(view, Place[flow][p]))
       ELSE p = page /\ Render(flow, p, Here)

\* The background, or the breadcrumb of what is selected.
Clear == Ready /\ page # None /\ Render(flow, None, Here)

\* Another flow, from the picker: of a new one its page is active.
ChooseFlow(f, p) == Ready /\ f # flow /\ Render(f, p, captured)

\* The browser's history, or a page that is removed: nothing is captured.
Show(p) == Ready /\ p \in Page(flow) \ {page} /\ Render(flow, p, captured)

-----------------------------------------------------------------------------
(* Gestures.                                                                 *)

Moves(v) == /\ Act /\ view' = v /\ aim' = "none" /\ moved' = 0
            /\ UNCHANGED <<flow, page, captured, centered>>

\* The wheel pans, over a page's interior too while a pan goes on.
Wheel(d) == Moves(Pan(view, d)) /\ UNCHANGED <<drag, inertia>>

\* The wheel with a modifier, or a pinch from the scale it started at.
Zoom(x, s) == s # view.camera.scale /\ Moves(ZoomAt(view, x, s)) /\ UNCHANGED <<drag, inertia>>

FitToView == Moves(FitToBounds(view, Width[flow])) /\ page = None /\ UNCHANGED <<drag, inertia>>

PointerDown == /\ drag = None /\ Moves(view) /\ drag' = 0 /\ inertia' = 0
PointerMove(d) == drag # None /\ Moves(Pan(view, d)) /\ drag' = d /\ UNCHANGED inertia
EndPan == drag # None /\ Moves(view) /\ drag' = None /\ inertia' = 2 * drag

-----------------------------------------------------------------------------
(* An animation frame: the transform that was asked for, then the pan that   *)
(* goes on, slower each time.                                                *)
Frame ==
    LET v      == [Apply(view) EXCEPT !.frame = FALSE]
        slower == Step * (inertia \div (2 * Step))
    IN  /\ view.frame \/ inertia # 0
        /\ inertia' = slower
        /\ view' = IF slower # 0 THEN Pan(v, slower) ELSE v
        /\ aim' = IF slower # 0 THEN "none" ELSE aim
        /\ UNCHANGED <<flow, page, captured, centered, drag, moved, steps>>

\* SMOOTH_PAN_MS later the transition is taken off the world.
TransitionEnds ==
    /\ view.moving
    /\ view' = [view EXCEPT !.moving = FALSE, !.seen = view.painted]
    /\ UNCHANGED <<flow, page, captured, centered, drag, inertia, aim, moved, steps>>

Next ==
    \/ \E p \in Pages : Select(p) \/ Show(p)
    \/ Clear
    \/ \E f \in Flow : \E p \in Page(f) \cup {None} : ChooseFlow(f, p)
    \/ \E d \in {-Step, Step} : Wheel(d)
    \/ \E s \in Scales : Zoom(Center, s) \/ Zoom(0, s)
    \/ FitToView \/ PointerDown \/ EndPan
    \/ \E d \in {0, Step} : PointerMove(d)
    \/ Frame \/ TransitionEnds

Spec == Init /\ [][Next]_vars

-----------------------------------------------------------------------------
(* Type invariant. *)
TypeOK ==
    /\ LET Transform == [offset : Int, scale : Scales]
       IN  view \in [camera : Transform, painted : Transform, seen : Transform,
                     frame : BOOLEAN, moving : BOOLEAN]
    /\ flow \in Flow /\ page \in Page(flow) \cup {None}
    /\ captured \in Int \cup {None} /\ drag \in Int \cup {None}
    /\ inertia \in Int /\ moved \in Int
    /\ centered \in BOOLEAN /\ aim \in {"page", "content", "none"}

(* The world is where the camera is, or a frame will put it there: no pan,      *)
(* zoom or snap is lost between those that paint at once and those that wait.   *)
CameraIsPainted == view.painted # view.camera => view.frame

(* A page that became active ends in the middle of the viewport, until the      *)
(* author moves it.  (Not so if the canvas still moved when it was selected.)   *)
SelectedIsCentered ==
    aim = "page" =>
        view.camera.offset + view.camera.scale * Alone - Center \in -Tolerance .. Tolerance

(* No position that was captured for an earlier selection is left for the next  *)
(* page that becomes active.                                                    *)
CaptureIsNotStale == page = None => captured = None

(* The page that is left stays where it was seen, but where the pages are       *)
(* centred for the first time.                                                  *)
LeavingKeepsItsPlace == aim # "content" => moved = 0

(* The same without exception.  (Not so after opening on a page.)               *)
LeavingNeverMoves == page = None => moved = 0

=============================================================================
