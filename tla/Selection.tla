------------------------------ MODULE Selection ------------------------------
(***************************************************************************)
(* What the builder shows and its address: the selection of a flow, a page *)
(* and a row with the rows opened in it (pageReducer.ts), the browser's    *)
(* history that follows it (useUrlSync.ts), and an address read back when  *)
(* the builder loads or the author goes back (urlUtils.ts).                *)
(*                                                                         *)
(* A row is known by its path from the root of its page.  Rows and pages   *)
(* may be removed, here or elsewhere; they do not come back.               *)
(***************************************************************************)
EXTENDS Naturals, FiniteSets, SequencesExt

CONSTANTS
    Page,          \* the pages of a flow, in order, for each flow
    Path,          \* for each row, the rows above it on its page and itself
    PageOf,        \* the page of a row
    First,         \* the flow shown when the address names none
    Visited,       \* addresses the builder may be opened at
    Careful,       \* does the author go back only to an address that changes what is shown
    MaxSteps,      \* bound: steps of the author
    MaxRemovals    \* bound: rows and pages removed

Flow   == DOMAIN Page
Row    == DOMAIN Path
Pages  == UNION {Range(Page[f]) : f \in Flow}
NoId   == ""

\* A page is of one flow, once; a row of a page is in the rows above it.
SelectionAssumption ==
    /\ First \in Flow /\ Visited \subseteq Seq(STRING)
    /\ Flow \cup Pages \cup Row \cup {NoId} \subseteq STRING
    /\ NoId \notin Pages \cup Row /\ Pages \cap Row = {}
    /\ \A f \in Flow : Page[f] \in Seq(Pages) /\ Page[f] # << >>
    /\ \A f, g \in Flow : \A i \in DOMAIN Page[f], j \in DOMAIN Page[g] :
          Page[f][i] = Page[g][j] => f = g /\ i = j
    /\ \A r \in Row :
          /\ Path[r] \in Seq(Row) /\ Path[r] # << >> /\ Last(Path[r]) = r /\ PageOf[r] \in Pages
          /\ \A i \in DOMAIN Path[r] :
                Path[Path[r][i]] = SubSeq(Path[r], 1, i) /\ PageOf[Path[r][i]] = PageOf[r]
    /\ Careful \in BOOLEAN /\ {MaxSteps, MaxRemovals} \subseteq Nat

VARIABLES
    shown,      \* activeFlowId, activePageId, activeRowId and configStack
    history,    \* the addresses of the browser's history
    at,         \* the entry it is at
    popped,     \* isPopStateNavigation
    gone,       \* rows and pages that were removed
    steps

vars == <<shown, history, at, popped, gone, steps>>

Selected(flow, page, row, stack) == [flow |-> flow, page |-> page, row |-> row, stack |-> stack]
Cleared(s) == Selected(s.flow, NoId, NoId, << >>)

IsChild(parent, r) == r \in Row /\ Path[r] = Append(Path[parent], r)

\* The pages a flow has, the first of those that are not in some set, and the
\* rows that are on a page.
Live(f)         == Range(Page[f]) \ gone
FirstBut(f, ps) == Page[f][CHOOSE i \in DOMAIN Page[f] :
                              Page[f][i] \notin ps /\ \A j \in DOMAIN Page[f] : Page[f][j] \notin ps => i <= j]
On(page)        == {r \in Row : PageOf[r] = page /\ page \notin gone /\ Range(Path[r]) \cap gone = {}}
RowsOf(flow)    == UNION {On(p) : p \in Live(flow)}

-----------------------------------------------------------------------------
(* Addresses: /flow/page/row/.../row.                                        *)

BuildUrl(s) ==
    IF s.page = NoId THEN << s.flow >>
    ELSE << s.flow, s.page >> \o IF s.row = NoId THEN << >> ELSE << s.row >> \o s.stack

Segments(url) == SubSeq(url, 3, Len(url))

ResolveUrlIds(url) ==
    CASE url = << >>                -> << First, NoId >>
      [] url # << >> /\ url[1] \notin Flow -> << First, FirstBut(First, gone) >>
      [] url # << >> /\ url[1] \in Flow ->
            << url[1], IF Len(url) < 2 THEN NoId
                       ELSE IF url[2] \in Live(url[1]) THEN url[2]
                       ELSE FirstBut(url[1], gone) >>

\* A mutant: segments are taken as they are.
TrustedSegments(page, segments) == IF page = NoId THEN << >> ELSE segments

\* The longest start of the segments that is a chain of rows from one of the page.
Validated(page, segments) ==
    IF segments = << >> \/ page = NoId THEN << >>
    ELSE IF segments[1] \notin On(page) THEN << >>
    ELSE LET chains == {n \in 1 .. Len(segments) :
                           \A i \in 2 .. n : IsChild(segments[i - 1], segments[i])
                                             /\ segments[i] \notin gone}
         IN  SubSeq(segments, 1, CHOOSE n \in chains : \A m \in chains : m <= n)

\* The selection the builder opens at an address.
Load(url) ==
    LET ids  == ResolveUrlIds(url)
        rows == Validated(ids[2], Segments(url))
    IN  IF rows = << >> THEN Selected(ids[1], ids[2], NoId, << >>)
        ELSE Selected(ids[1], ids[2], Head(rows), Tail(rows))

-----------------------------------------------------------------------------
(* pageReducer.  Selecting what is selected clears the selection.            *)

SetActiveFlow(s, flow) == Cleared([s EXCEPT !.flow = flow])

\* A mutant: the rows that were open stay open.
SetActivePageKeepingRows(s, page) ==
    IF page \in gone THEN s
    ELSE IF s.page = page /\ s.row = NoId /\ s.stack = << >> THEN Cleared(s)
    ELSE Selected(s.flow, page, NoId, s.stack)

SetActivePage(s, page) ==
    IF page \in gone THEN s
    ELSE IF s.page = page /\ s.row = NoId /\ s.stack = << >> THEN Cleared(s)
    ELSE Selected(s.flow, page, NoId, << >>)

SetActiveRow(s, row, stack) ==
    IF row \notin RowsOf(s.flow) THEN s
    ELSE IF s.row = row /\ s.stack = stack THEN Cleared(s)
    ELSE Selected(s.flow, PageOf[row], row, stack)

\* A row that is clicked is shown in the rows above it.
ClickRow(s, row) == SetActiveRow(s, Head(Path[row]), Tail(Path[row]))

NavigateBreadcrumb(s, length) ==
    IF Len(s.stack) = length THEN Cleared(s) ELSE [s EXCEPT !.stack = SubSeq(@, 1, length)]

\* handlePopState: the selections one address asks for, in one render.
PopState(s, url) ==
    LET ids  == ResolveUrlIds(url)
        rows == Validated(ids[2], Segments(url))
        flow == IF ids[1] # s.flow THEN SetActiveFlow(s, ids[1]) ELSE s
    IN  IF rows # << >> THEN SetActiveRow(flow, Head(rows), Tail(rows))
        ELSE IF ids[2] # NoId THEN SetActivePage(flow, ids[2])
        ELSE flow

-----------------------------------------------------------------------------
Init ==
    /\ gone = {}
    /\ \E url \in Visited : shown = Load(url)
    /\ history = << BuildUrl(shown) >>
    /\ at = 1
    /\ popped = FALSE
    /\ steps = 0

\* A step of the author changes the selection; the effect of useUrlSync runs
\* when it did, and pushes the address unless the history just moved.
Becomes(selection) ==
    LET url == BuildUrl(selection) IN
    /\ steps < MaxSteps /\ steps' = steps + 1
    /\ shown' = selection
    /\ IF selection = shown \/ popped \/ url = history[at]
       THEN UNCHANGED <<history, at>>
       ELSE history' = Append(SubSeq(history, 1, at), url) /\ at' = at + 1
    /\ popped' = (popped /\ selection = shown)

ChooseFlow(f)  == f \in Flow /\ Becomes(SetActiveFlow(shown, f)) /\ UNCHANGED gone
ChoosePage(p)  == p \in Live(shown.flow) /\ Becomes(SetActivePage(shown, p)) /\ UNCHANGED gone
ChooseRow(r)   == r \in RowsOf(shown.flow) /\ Becomes(ClickRow(shown, r)) /\ UNCHANGED gone
ClickOutside   == Becomes(Cleared(shown)) /\ UNCHANGED gone

\* A row opened in the panel of the one that contains it.
OpenChild(r) ==
    /\ shown.row # NoId
    /\ LET open == Last(<< shown.row >> \o shown.stack)
       IN  open \notin gone /\ r \in RowsOf(shown.flow) /\ IsChild(open, r)
    /\ Becomes([shown EXCEPT !.stack = Append(@, r)])
    /\ UNCHANGED gone

Breadcrumb(length) ==
    /\ shown.row # NoId /\ shown.row \notin gone
    /\ length <= Len(shown.stack) /\ (length # 0 => shown.stack[length] \notin gone)
    /\ Becomes(NavigateBreadcrumb(shown, length))
    /\ UNCHANGED gone

\* Back, forward, or to an entry further away.
Go(entry) ==
    LET url   == history[entry]
        after == PopState(shown, url)
    IN  /\ entry # at
        /\ Careful => after # shown /\ url # history[at]
        /\ steps < MaxSteps
        /\ steps' = steps + 1
        /\ at' = entry
        /\ shown' = after
        /\ popped' = (after = shown)
        /\ UNCHANGED <<history, gone>>

RemovePage(p) ==
    /\ Cardinality(gone) < MaxRemovals
    /\ p \in Live(shown.flow) /\ Live(shown.flow) # {p}
    /\ gone' = gone \cup {p}
    /\ IF shown.page = p
       THEN Becomes(Selected(shown.flow, FirstBut(shown.flow, gone'), NoId, << >>))
       ELSE Becomes(shown)

\* The selection stays on a row that is removed.
RemoveRow(r) ==
    /\ Cardinality(gone) < MaxRemovals
    /\ r \in RowsOf(shown.flow)
    /\ gone' = gone \cup {r}
    /\ Becomes(shown)

Next ==
    \/ \E f \in Flow : ChooseFlow(f)
    \/ \E p \in Pages : ChoosePage(p) \/ RemovePage(p)
    \/ \E r \in Row : ChooseRow(r) \/ OpenChild(r) \/ RemoveRow(r)
    \/ \E n \in 0 .. 2 : Breadcrumb(n)
    \/ \E e \in 1 .. Len(history) : Go(e)
    \/ ClickOutside

Spec == Init /\ [][Next]_vars

-----------------------------------------------------------------------------
(* Type invariant. *)
TypeOK ==
    /\ shown \in [flow : Flow, page : Pages \cup {NoId}, row : Row \cup {NoId}, stack : Seq(Row)]
    /\ at \in 1 .. Len(history)
    /\ popped \in BOOLEAN
    /\ gone \subseteq Pages \cup Row

(* Loading the builder at its address shows what it shows.  (Not so after       *)
(* going back to the address of a flow, which changes nothing, or to one that   *)
(* asks for what is shown, which clears it; nor once the row shown is removed.)  *)
ReloadShowsTheSame == Load(history[at]) = shown

(* An address in the history, though pages and rows of it were removed since,   *)
(* opens on what is there: a page of the flow, and rows each inside the other.  *)
LoadsWhatIsThere ==
    \A e \in 1 .. Len(history) :
        LET s == Load(history[e]) IN
        /\ s.page # NoId => s.page \in Live(s.flow)
        /\ s.row # NoId  => s.row \in On(s.page)
        /\ \A i \in 1 .. Len(s.stack) :
              s.stack[i] \in On(s.page) /\ IsChild((<< s.row >> \o s.stack)[i], s.stack[i])

(* Every change of the selection by the author can be gone back from: the next  *)
(* address is pushed.  (Not so after going back to where nothing changes.)      *)
NothingIsSwallowed == ~popped

=============================================================================
