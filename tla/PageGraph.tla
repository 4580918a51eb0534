------------------------------- MODULE PageGraph -------------------------------
(***************************************************************************)
(* web/app/utils/flatGraph.ts, dropHandler.ts and state/reducers/          *)
(* pageReducer.ts: the pages and rows of a flow as the builder edits them. *)
(* A page lists its rows and may have a footer; a container row lists its  *)
(* children; any row may have a sheet.  Every drag ends in a drop on a     *)
(* target of the canvas, from which a destination is computed, and the     *)
(* reducer moves or adds the row there, selects it, and gives a row that   *)
(* gains a sheet an action that shows it.                                  *)
(***************************************************************************)
EXTENDS Naturals, Integers, Sequences, FiniteSets, SequencesExt

CONSTANTS
    Page, Row,      \* the pages and rows there may be, by id
    Container,      \* the rows that may have children
    None,           \* no row, no page
    Start,          \* the flow at first: [Page -> its rows], pages in the order of StartPages
    StartPages,
    MaxDrops,       \* bound on the drops
    Inside          \* a container may be dropped inside itself

GraphAssumption ==
    /\ Container \subseteq Row /\ None \notin Page \cup Row /\ Inside \in BOOLEAN
    /\ Start \in [Page -> Seq(Row)] /\ StartPages \in Seq(Page)
    /\ \A p \in Page : IsInjective(Start[p])
    /\ \A p, q \in Page : ToSet(Start[p]) \cap ToSet(Start[q]) # {} => p = q
    /\ \A p \in Page \ ToSet(StartPages) : Start[p] = << >>

VARIABLES
    pageIds,        \* the flow's page_ids
    pages,          \* pagesById: [Page -> [rows, footer]]
    rows,           \* rowsById: [Row -> its record or Missing]
    made,           \* the rows ever made
    activePage, activeRow, configStack,
    drops

graph     == <<pageIds, pages, rows>>
selection == <<activePage, activeRow, configStack>>
vars      == <<graph, made, selection, drops>>

\* A row: its children, its sheet, and the rows its unconditional taps show.
Missing   == [here |-> FALSE, children |-> << >>, sheet |-> None, shows |-> {}]
NewRow    == [Missing EXCEPT !.here = TRUE]
EmptyPage == [rows |-> << >>, footer |-> None]

Init ==
    /\ pageIds = StartPages
    /\ pages = [p \in Page |-> [EmptyPage EXCEPT !.rows = Start[p]]]
    /\ rows = [r \in Row |-> IF \E p \in Page : Contains(Start[p], r) THEN NewRow ELSE Missing]
    /\ made = {r \in Row : rows[r].here}
    /\ activePage = None /\ activeRow = None /\ configStack = << >>
    /\ drops = 0

-----------------------------------------------------------------------------
(* Walking the graph g = [pages, rows] *)

Graph == [pages |-> pages, rows |-> rows]

PageRootIds(g, p) == ToSet(g.pages[p].rows) \cup ({g.pages[p].footer} \ {None})
Links(g, r)       == ToSet(g.rows[r].children) \cup ({g.rows[r].sheet} \ {None})

\* collectSubtreeRowIds of all of ids: the least set of rows that has those of
\* ids and what its rows refer to.
Here(g)       == {r \in Row : g.rows[r].here}
IsClosed(g, S) == \A c \in S : Links(g, c) \cap Here(g) \subseteq S
Subtree(g, ids) ==
    {r \in Here(g) : \A S \in SUBSET Here(g) : ids \cap Here(g) \subseteq S /\ IsClosed(g, S) => r \in S}

\* collectPageRowIds; and of every page of the flow.
PageRows(g, p) == Subtree(g, PageRootIds(g, p))
Reachable(g)   == UNION {PageRows(g, p) : p \in ToSet(pageIds)}

\* findRowIdPath: from a root of a page down to row r.
RowIdPath(g, roots, r) ==
    LET up[n \in 1..Cardinality(Row)] ==
            LET below == IF n = 1 THEN << r >> ELSE up[n - 1]
                above == {c \in Row : below[1] \in Links(g, c)}
            IN  IF below[1] \in roots \/ above = {} THEN below
                ELSE << CHOOSE c \in above : TRUE >> \o below
    IN  up[Cardinality(Row)]

\* findRowContainer: the row of page p that holds r as a child or as its sheet.
Containers(g, p, r) == {c \in PageRows(g, p) : r \in Links(g, c)}
ContainerType(g, c, r) == IF g.rows[c].sheet = r THEN "sheet" ELSE "children"

-----------------------------------------------------------------------------
(* The mutations of flatGraph *)

Without(s, r) ==
    LET first[i \in 0 .. Len(s)] ==
            IF i = 0 THEN << >> ELSE IF s[i] = r THEN first[i - 1] ELSE Append(first[i - 1], s[i])
    IN  first[Len(s)]

\* insertAtIndex clamps the index, which counts from 0.
InsertAtIndex(s, r, i) ==
    InsertAt(s, 1 + (IF i < 0 THEN 0 ELSE IF i > Len(s) THEN Len(s) ELSE i), r)

\* A destination: a page, an index, and the container if it is in one.
Destination(p, i, c, type) == [page |-> p, index |-> i, container |-> c, type |-> type]
OnPage(p, i) == Destination(p, i, None, "page")

InsertIntoLocation(g, r, d) ==
    CASE d.type = "page" ->
            [g EXCEPT !.pages[d.page].rows = InsertAtIndex(@, r, d.index)]
      [] d.type = "sheet" ->
            IF g.rows[d.container].here THEN [g EXCEPT !.rows[d.container].sheet = r] ELSE g
      [] d.type = "children" ->
            IF g.rows[d.container].here
            THEN [g EXCEPT !.rows[d.container].children = InsertAtIndex(@, r, d.index)] ELSE g

\* Mutant: a row is looked for only among a page's own rows.
RemoveFromPageRows(g, p, r) == [g EXCEPT !.pages[p].rows = Without(@, r)]

\* removeFromLocation: from the rows of the page, its footer, or a container.
RemoveFromLocation(g, p, r) ==
    IF Contains(g.pages[p].rows, r) THEN [g EXCEPT !.pages[p].rows = Without(@, r)]
    ELSE IF g.pages[p].footer = r THEN [g EXCEPT !.pages[p].footer = None]
    ELSE IF Containers(g, p, r) = {} THEN g
    ELSE LET c == CHOOSE c \in Containers(g, p, r) : TRUE
         IN  IF ContainerType(g, c, r) = "sheet" THEN [g EXCEPT !.rows[c].sheet = None]
             ELSE [g EXCEPT !.rows[c].children = Without(@, r)]

\* Mutant: the rows of other pages than the first are taken for orphans.
CleanupOrphanedRowsOfOne(g) ==
    [g EXCEPT !.rows = [r \in Row |-> IF r \in PageRows(g, pageIds[1]) THEN g.rows[r] ELSE Missing]]

\* cleanupOrphanedRows: what no page of any flow reaches.
CleanupOrphanedRows(g) ==
    [g EXCEPT !.rows = [r \in Row |-> IF r \in Reachable(g) THEN g.rows[r] ELSE Missing]]

\* Mutant: the action is looked for, and none is added.
EnsureShowActionReplacing(g, c, r, replaced) ==
    [g EXCEPT !.rows[c].shows = IF replaced \in @ THEN (@ \ {replaced}) \cup {r} ELSE @]

\* ensureShowAction: the action that showed the replaced sheet shows the new
\* one, or an action is added.
EnsureShowAction(g, c, r, replaced) == [g EXCEPT !.rows[c].shows = (@ \ {replaced}) \cup {r}]

-----------------------------------------------------------------------------
(* The reducer *)

Become(g) == pages' = g.pages /\ rows' = g.rows /\ UNCHANGED pageIds

Select(p, r, stack) == activePage' = p /\ activeRow' = r /\ configStack' = stack

\* applyStructuralContainerDrop: in a sheet, the path to its container is
\* selected and the container shows the row; elsewhere, the row itself.
ApplyStructuralContainerDrop(g, d, r) ==
    IF d.type # "sheet" THEN Become(g) /\ Select(activePage, r, << >>)
    ELSE LET path == RowIdPath(g, PageRootIds(g, d.page), d.container)
         IN  IF path[1] \notin PageRootIds(g, d.page)
             THEN Become(g) /\ Select(activePage, r, << >>)
             ELSE /\ Become(EnsureShowAction(g, d.container, r, rows[d.container].sheet))
                  /\ Select(activePage, path[1], Append(Tail(path), r))

\* Mutant: a moved row is not taken from where it was.
MoveRowCopying(r, p, d) ==
    ApplyStructuralContainerDrop(InsertIntoLocation(Graph, r, d), d, r) /\ UNCHANGED made

\* MOVE_ROW.
MoveRow(r, p, d) ==
    /\ ApplyStructuralContainerDrop(InsertIntoLocation(RemoveFromLocation(Graph, p, r), r, d), d, r)
    /\ UNCHANGED made

\* ADD_ROW: a palette row under a new id.
AddRow(r, d) ==
    /\ r \notin made /\ made' = made \cup {r}
    /\ ApplyStructuralContainerDrop(InsertIntoLocation([Graph EXCEPT !.rows[r] = NewRow], r, d), d, r)

\* MOVE_ROW_TO_FOOTER and ADD_ROW_AS_FOOTER.
MoveRowToFooter(r, p, dest) ==
    /\ Become([RemoveFromLocation(Graph, p, r) EXCEPT !.pages[dest].footer = r])
    /\ Select(activePage, r, << >>) /\ UNCHANGED made
AddRowAsFooter(r, dest) ==
    /\ r \notin made /\ made' = made \cup {r}
    /\ Become([Graph EXCEPT !.rows[r] = NewRow, !.pages[dest].footer = r])
    /\ Select(activePage, r, << >>)

\* REMOVE_ROW: what was only reached through the row goes with it.
RemoveRow(r, p) ==
    /\ Become(CleanupOrphanedRows(RemoveFromLocation(Graph, p, r)))
    /\ UNCHANGED <<made, selection>>

-----------------------------------------------------------------------------
(* handleDrop: the destinations a drop may have *)

Index(s, r) == (CHOOSE i \in DOMAIN s : s[i] = r) - 1

Edge == {"before", "after"}

\* On an edge of row t of page p.
AtRow(p, t, edge) ==
    LET g      == Graph
        shift  == IF edge = "before" THEN -1 ELSE 1
        c      == CHOOSE c \in Containers(g, p, t) : TRUE
    IN  IF Containers(g, p, t) = {}
        THEN OnPage(p, shift + (IF Contains(pages[p].rows, t) THEN Index(pages[p].rows, t)
                                ELSE Len(pages[p].rows)))
        ELSE IF ContainerType(g, c, t) = "sheet" THEN Destination(p, shift, c, "sheet")
        ELSE Destination(p, shift + Index(rows[c].children, t), c, "children")

\* At the start or the end of page p, in a container without children, and in
\* the sheet of a row.
AtPage(p)        == {OnPage(p, 0), OnPage(p, Len(pages[p].rows))}
InEmptyContainer(p, c) == Destination(p, 0, c, "children")
InSheet(p, c)    == Destination(p, 0, c, "sheet")

\* The destinations on page p.
Destinations(p) ==
    AtPage(p)
        \cup {AtRow(p, t, e) : t \in PageRows(Graph, p), e \in Edge}
        \cup {InEmptyContainer(p, c) : c \in {c \in PageRows(Graph, p) \cap Container : rows[c].children = << >>}}
        \cup {InSheet(p, c) : c \in PageRows(Graph, p)}

\* A container is dropped inside itself.
WithinItself(r, d) == d.container \in Subtree(Graph, {r})

Drag(r, p) == r \in PageRows(Graph, p) /\ p \in ToSet(pageIds)

\* handleDrop: on the canvas, on the footer of a page that has none, or back
\* on the panel of rows.
Drop ==
    /\ drops < MaxDrops /\ drops' = drops + 1
    /\ \E r \in Row, dest \in ToSet(pageIds) :
          \/ \E p \in Page, d \in Destinations(dest) :
                Drag(r, p) /\ (Inside \/ ~ WithinItself(r, d)) /\ MoveRow(r, p, d)
          \/ \E d \in Destinations(dest) : AddRow(r, d)
          \/ \E p \in Page : Drag(r, p) /\ pages[dest].footer = None /\ MoveRowToFooter(r, p, dest)
          \/ pages[dest].footer = None /\ AddRowAsFooter(r, dest)
          \/ Drag(r, dest) /\ RemoveRow(r, dest)

-----------------------------------------------------------------------------
(* Selection and pages *)

\* SET_ACTIVE_ROW without a stack; selecting what is selected clears.
SetActiveRow(r) ==
    LET p    == CHOOSE p \in ToSet(pageIds) : r \in PageRows(Graph, p)
        path == RowIdPath(Graph, PageRootIds(Graph, p), r)
    IN  /\ r \in Reachable(Graph)
        /\ IF activeRow = path[1] /\ configStack = Tail(path) THEN Select(None, None, << >>)
           ELSE Select(p, path[1], Tail(path))
        /\ UNCHANGED <<graph, made, drops>>

\* ADD_PAGE and REMOVE_PAGE; a flow keeps a page.
AddPage(p) ==
    /\ p \notin ToSet(pageIds) /\ pageIds' = Append(pageIds, p)
    /\ pages' = [pages EXCEPT ![p] = EmptyPage]
    /\ Select(p, None, << >>) /\ UNCHANGED <<rows, made, drops>>

RemovePage(p) ==
    /\ Len(pageIds) > 1 /\ Contains(pageIds, p)
    /\ pageIds' = Without(pageIds, p)
    /\ pages' = [pages EXCEPT ![p] = EmptyPage]
    /\ LET kept == UNION {PageRows(Graph, q) : q \in ToSet(pageIds')}
       IN  rows' = [r \in Row |-> IF r \in kept THEN rows[r] ELSE Missing]
    /\ IF activePage = p THEN Select(pageIds'[1], None, << >>) ELSE UNCHANGED selection
    /\ UNCHANGED <<made, drops>>

Next ==
    \/ Drop
    \/ \E r \in Row : SetActiveRow(r)
    \/ \E p \in Page : AddPage(p) \/ RemovePage(p)

Spec == Init /\ [][Next]_vars

-----------------------------------------------------------------------------
(* Properties *)

Places(r) ==
    Cardinality({p \in Page : Contains(pages[p].rows, r)})
      + Cardinality({p \in Page : pages[p].footer = r})
      + Cardinality({c \in Row : Contains(rows[c].children, r)})
      + Cardinality({c \in Row : rows[c].sheet = r})

\* The pages and rows are forests: a row that is referred to exists, and is
\* referred to from one place, once.
GraphIsAForest ==
    /\ \A r \in Row : Places(r) <= 1
    /\ \A r \in (UNION {Links(Graph, c) : c \in Row}) \cup (UNION {PageRootIds(Graph, p) : p \in Page}) :
          rows[r].here
    /\ \A p \in Page : IsInjective(pages[p].rows)
    /\ \A c \in Row : IsInjective(rows[c].children)

\* A drop takes nothing off the canvas but the row that is removed, or the
\* sheet that another replaces, with what is below it.
DropsKeepTheRest ==
    [][drops' # drops =>
          LET lost == Reachable(Graph) \ Reachable(Graph)'
          IN  lost # {} =>
                \E r \in lost :
                    /\ lost \subseteq Subtree(Graph, {r})
                    /\ ~ rows'[r].here
                         \/ \E c \in Row : rows[c].sheet = r /\ rows'[c].sheet \notin {None, r}]_vars

\* A row that has a sheet has an action that shows it.
SheetsAreShown == \A c \in Row : rows[c].sheet # None => rows[c].sheet \in rows[c].shows

\* What a drop selects is a path of the graph, from the selected row down.
DropSelectsAPath ==
    [][activeRow' # None /\ drops' # drops /\ <<activeRow', configStack'>> # <<activeRow, configStack>> =>
          LET path  == << activeRow' >> \o configStack'
              after == [pages |-> pages', rows |-> rows']
          IN  /\ activeRow' \in Reachable(Graph)'
              /\ \A i \in 1..(Len(path) - 1) : path[i + 1] \in Links(after, path[i])]_vars

\* The canvas shows a line on the edge of the row that is dragged over: the
\* row that is dropped there is next to that edge.
DropLandsAtTheEdge ==
    [][\A p \in Page, t, r \in Row, e \in Edge :
          t # r /\ Drag(r, p) /\ {t, r} \subseteq ToSet(pages[p].rows) /\ drops' # drops
            /\ MoveRow(r, p, AtRow(p, t, e))
          => Index(pages'[p].rows, r) - Index(pages'[p].rows, t) = IF e = "before" THEN -1 ELSE 1]_vars

=============================================================================
