------------------------------- MODULE MCCanvas -------------------------------
(* What is dragged on a canvas, for TLC: its constants and what is checked of it. *)
EXTENDS Naturals, Sequences

CONSTANTS
    None,
    CanvasPages, CanvasRows, CanvasContainers,  \* the pages and rows there may be
    StartRows, StartPages, MaxCanvasDrops       \* the flow at first, and a bound: see PageGraph

VARIABLES pageIds, pages, rows, drawn, activePage, activeRow, configStack, drops

canvas == <<pageIds, pages, rows, drawn, activePage, activeRow, configStack, drops>>

Canvas == INSTANCE PageGraph
    WITH Page <- CanvasPages, Row <- CanvasRows, Container <- CanvasContainers, Start <- StartRows,
         MaxDrops <- MaxCanvasDrops, Inside <- FALSE, made <- drawn

\* A page with a container and a row; another page and a container may come.
TwoPages == [p \in {"p", "q"} |-> IF p = "p" THEN << "c", "a" >> ELSE << >>]
OnePage  == << "p" >>

ASSUME CanvasAssumption == Canvas!GraphAssumption

-----------------------------------------------------------------------------
(* The properties: see PageGraph. *)

GraphIsAForest   == Canvas!GraphIsAForest
DropsKeepTheRest == Canvas!DropsKeepTheRest

=============================================================================
