------------------------------ MODULE MCSelection ------------------------------
(* What the builder shows, for TLC: the constants of the selection and of the  *)
(* camera that follows it, and what is checked of them.                        *)
EXTENDS Integers, Sequences

CONSTANTS
    FlowPages, RowPaths, RowPages, FirstFlow,   \* flows, pages and rows: see Selection
    Addresses, MaxChoices, MaxGone,             \* where the builder is opened, and bounds
    PagePlaces, ActivePlace, PageWidths,        \* where pages are: see Viewport
    Middle, PanelInset, FitPadding, PanStep,    \* the viewport, and a gesture
    FirstShown, MaxPaces, NoPage                \* what the builder opens on, and a bound

VARIABLES
    selected, visits, entry, popped, removed, choices,
    view, flow, page, captured, centered, drag, inertia, aim, moved, paces

selection == <<selected, visits, entry, popped, removed, choices>>
viewport  == <<view, flow, page, captured, centered, drag, inertia, aim, moved, paces>>

Chosen == INSTANCE Selection
    WITH Page <- FlowPages, Path <- RowPaths, PageOf <- RowPages, First <- FirstFlow,
         Visited <- Addresses, Careful <- TRUE, MaxSteps <- MaxChoices, MaxRemovals <- MaxGone,
         shown <- selected, history <- visits, at <- entry, gone <- removed, steps <- choices

Camera == INSTANCE Viewport
    WITH Place <- PagePlaces, Alone <- ActivePlace, Width <- PageWidths, Center <- Middle,
         Inset <- PanelInset, Padding <- FitPadding, Step <- PanStep, Opened <- FirstShown,
         Careful <- TRUE, MaxSteps <- MaxPaces, None <- NoPage, steps <- paces

\* Two flows; a row with one inside it, and one on the other flow's page.  The
\* addresses: none, a row in its row, a row that is not there, a flow that is
\* not, and a row.
TwoFlows   == [f \in {"f", "g"} |-> IF f = "f" THEN << "p", "q" >> ELSE << "s" >>]
ThreePaths == [r \in {"a", "b", "c"} |-> IF r = "b" THEN << "a", "b" >> ELSE << r >>]
ThreePages == [r \in {"a", "b", "c"} |-> IF r = "c" THEN "s" ELSE "p"]
FiveAddresses ==
    {<< >>, << "f", "p", "a", "b" >>, << "f", "p", "a", "c" >>, << "x", "y" >>, << "g", "s", "c" >>}

\* Their pages side by side, one flow wider than the viewport; the builder opens
\* on a flow or on its first page.
SideBySide == [f \in {"f", "g"} |->
                  IF f = "f" THEN [p \in {"p", "q"} |-> IF p = "p" THEN 8 ELSE 24]
                  ELSE [p \in {"s"} |-> 8]]
TwoWidths  == [f \in {"f", "g"} |-> IF f = "f" THEN 32 ELSE 16]
FlowOrPage == {"p", NoPage}

ASSUME ChosenAssumption == Chosen!SelectionAssumption
ASSUME CameraAssumption == Camera!ViewportAssumption

-----------------------------------------------------------------------------
(* The properties: see Selection and Viewport. *)

SelectionIsFollowed ==
    /\ removed = {} => Chosen!ReloadShowsTheSame
    /\ Chosen!LoadsWhatIsThere
    /\ Camera!CameraIsPainted /\ Camera!SelectedIsCentered
    /\ Camera!CaptureIsNotStale /\ Camera!LeavingKeepsItsPlace

=============================================================================
