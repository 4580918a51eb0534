-------------------------------- MODULE Drafts --------------------------------
(***************************************************************************)
(* The drafts of the app while it moves between pages: pages seed the      *)
(* drafts of their rows when they appear, rows write to them, a flow that  *)
(* creates something merges them into it, and leaving a flow deletes them. *)
(*                                                                         *)
(* A value is a function from the paths below it to texts: a text is       *)
(* << >> :> "x", a dictionary has no << >>.  A path that begins with       *)
(* "item" is a field of the entity the flow creates; any other is an alias *)
(* of the page.  The handler of a change of routes and the appearance of   *)
(* the page are two steps whose order SwiftUI does not promise.            *)
(***************************************************************************)
EXTENDS Naturals, SequencesExt

CONSTANTS
    Home,        \* the flow under the stack of routes
    HomePage,    \* its first page
    Flow,        \* the other flows
    Creating,    \* those that submit an item
    Pages,       \* flow -> its pages
    Rows,        \* page -> set of [path, initial]: its rows that have a destination
    Typed,       \* the texts a user may type
    MaxSteps     \* bound: what the user does

DraftsAssumption ==
    /\ Home \notin Flow /\ Creating \subseteq Flow
    /\ \A f \in Flow, g \in Flow : f # g => Pages[f] \cap Pages[g] = {}

VARIABLES
    routes,      \* the stack above the home page
    left,        \* the flow the handler of a change of routes has to leave; "" when it ran
    appearing,   \* has the page on top still to appear
    drafts,      \* <<scope, path>> -> value
    addresses,   \* the addresses sent to the api, with what the user saw as instructions
    submitted,   \* the last item created, with what had been entered
    entered,     \* path -> text: what the user saw or typed since the flow was entered
    steps

vars == <<routes, left, appearing, drafts, addresses, submitted, entered, steps>>

Item         == << "item" >>
AddressId    == << "item", "address_id" >>
Address      == << "address" >>
Instructions == << "address", "instructions" >>

Route == UNION {{[flow |-> f, page |-> p] : p \in Pages[f]} : f \in Flow}
Top(rs)     == IF rs = << >> THEN [flow |-> Home, page |-> HomePage] ELSE Last(rs)
CurrentFlow == Top(routes).flow

-----------------------------------------------------------------------------
(* Values. *)

Is(text) == [k \in {<< >>} |-> text]

Below(path, value) == {path \o k : k \in DOMAIN value}

\* EVYDataPatcher.patch and evyJsonUpdating: nothing is put below a text.
Patch(value, path, new) ==
    IF \E k \in DOMAIN value : IsStrictPrefix(k, path) THEN value
    ELSE [k \in {q \in DOMAIN value : ~IsPrefix(path, q)} \cup Below(path, new) |->
            IF IsPrefix(path, k) THEN new[SubSeq(k, Len(path) + 1, Len(k))] ELSE value[k]]

Nothing == [k \in {} |-> ""]

(* Scopes: EVYFlowStore.draftScopeId, effectiveDraftScopeId of a page. *)

CreateScope(flow)    == << "create", flow >>
EphemeralScope(page) == << "ephemeral", page >>
ScopeOf(route) ==
    IF route.flow \in Creating THEN CreateScope(route.flow) ELSE EphemeralScope(route.page)
Scope == ScopeOf(Top(routes))

PathsIn(ds, scope) == {d[2] : d \in {e \in DOMAIN ds : e[1] = scope}}

\* draftMatch: the draft on the longest prefix of a path.
Matches(ds, scope, path) == {q \in PathsIn(ds, scope) : IsPrefix(q, path)}
Match(ds, scope, path) ==
    CHOOSE q \in Matches(ds, scope, path) :
        \A r \in Matches(ds, scope, path) : Len(r) <= Len(q)

Rest(path, prefix) == SubSeq(path, Len(prefix) + 1, Len(path))

\* _resolveBindingRoot and parseProp, which stays where it cannot descend.
Read(ds, scope, path) ==
    IF Matches(ds, scope, path) = {} THEN Nothing
    ELSE LET q     == Match(ds, scope, path)
             found == ds[<<scope, q>>]
             below == {k \in DOMAIN found : IsPrefix(Rest(path, q), k)}
         IN  IF below = {} THEN found
             ELSE [k \in {SubSeq(b, Len(Rest(path, q)) + 1, Len(b)) : b \in below} |->
                      found[Rest(path, q) \o k]]

Put(ds, scope, path, value) ==
    [d \in DOMAIN ds \cup {<<scope, path>>} |-> IF d = <<scope, path>> THEN value ELSE ds[d]]

\* updateData.
Write(ds, scope, path, value) ==
    IF Matches(ds, scope, path) = {} THEN Put(ds, scope, path, value)
    ELSE LET q == Match(ds, scope, path)
         IN  IF q = path THEN Put(ds, scope, path, value)
             ELSE Put(ds, scope, q, Patch(ds[<<scope, q>>], Rest(path, q), value))

\* A mutant: an existing draft is seeded again.
EnsureDraftExistsAgain(ds, scope, row) == Put(ds, scope, row.path, Is(row.initial))

\* ensureDraftExists looks for a draft on the very path.
EnsureDraftExists(ds, scope, row) ==
    IF row.path \in PathsIn(ds, scope) THEN ds ELSE Put(ds, scope, row.path, Is(row.initial))

BootstrapDrafts(ds, route) ==
    FoldSet(LAMBDA row, acc : EnsureDraftExists(acc, ScopeOf(route), row), ds, Rows[route.page])

Without(ds, scopes) == [d \in {e \in DOMAIN ds : e[1] \notin scopes} |-> ds[d]]

\* resetEphemeralDrafts.
Ephemerals(flow) ==
    {EphemeralScope(p) : p \in IF flow = Home THEN {HomePage} ELSE Pages[flow]}

-----------------------------------------------------------------------------
Init ==
    /\ routes = << >>
    /\ left = "" /\ appearing = TRUE
    /\ drafts = Nothing
    /\ addresses = {}
    /\ submitted = [item |-> Nothing, entered |-> Nothing]
    /\ entered = Nothing
    /\ steps = 0

Settled == left = "" /\ ~appearing
UserActs == Settled /\ steps < MaxSteps /\ steps' = steps + 1

\* The routes become rs; what was entered is forgotten with the flow.
GoTo(rs) ==
    /\ routes' = rs
    /\ left' = IF rs = routes THEN "" ELSE CurrentFlow
    /\ appearing' = (rs # routes)
    /\ entered' = IF Top(rs).flow = CurrentFlow THEN entered ELSE Nothing

RoutesAfterNavigating(rs, route) ==
    IF route.flow = Home
    THEN IF Top(rs).flow # Home THEN << >> ELSE Append(rs, route)
    ELSE IF Contains(rs, route)
         THEN SubSeq(rs, 1, SelectLastInSeq(rs, LAMBDA r : r = route) - 1)
         ELSE Append(rs, route)

RoutesAfterClosing(rs) ==
    LET of == {i \in DOMAIN rs : rs[i].flow = Top(rs).flow}
    IN  IF of = {} THEN << >>
        ELSE SubSeq(rs, 1, (CHOOSE i \in of : \A j \in of : i <= j) - 1)

Navigate(route) ==
    /\ UserActs
    /\ GoTo(RoutesAfterNavigating(routes, route))
    /\ UNCHANGED <<drafts, addresses, submitted>>

Close ==
    /\ UserActs
    /\ GoTo(RoutesAfterClosing(routes))
    /\ UNCHANGED <<drafts, addresses, submitted>>

\* The back button of the navigation stack.
Back ==
    /\ UserActs /\ routes # << >>
    /\ GoTo(Front(routes))
    /\ UNCHANGED <<drafts, addresses, submitted>>

\* A mutant: only the ephemeral drafts go.
RoutesChangedKeepingCreation ==
    /\ left # ""
    /\ left' = ""
    /\ drafts' = IF left = CurrentFlow THEN drafts
                 ELSE Without(drafts, Ephemerals(left) \cup Ephemerals(CurrentFlow))
    /\ UNCHANGED <<routes, appearing, addresses, submitted, entered, steps>>

RoutesChanged ==
    /\ left # ""
    /\ left' = ""
    /\ drafts' = IF left = CurrentFlow THEN drafts
                 ELSE Without(drafts, {CreateScope(f) : f \in {left} \cap Creating}
                                      \cup Ephemerals(left) \cup Ephemerals(CurrentFlow))
    /\ UNCHANGED <<routes, appearing, addresses, submitted, entered, steps>>

\* activatePageScope; the user sees the initial texts of rows he left alone.
Appear ==
    /\ appearing
    /\ appearing' = FALSE
    /\ drafts' = BootstrapDrafts(drafts, Top(routes))
    /\ entered' = FoldSet(LAMBDA row, acc : IF row.path \in DOMAIN acc THEN acc
                              ELSE Patch(acc, row.path, Is(row.initial)),
                          entered, Rows[Top(routes).page])
    /\ UNCHANGED <<routes, left, addresses, submitted, steps>>

-----------------------------------------------------------------------------
(* What the rows do. *)

\* An input, text area or dropdown; clear() writes "" the same way.
Edit(row, text) ==
    /\ UserActs
    /\ row \in Rows[Top(routes).page] /\ row.path # Address
    /\ drafts' = Write(drafts, Scope, row.path, Is(text))
    /\ entered' = Patch(entered, row.path, Is(text))
    /\ UNCHANGED <<routes, left, appearing, addresses, submitted>>

\* Send the address as it is read, with the instructions the page shows.
SendAddress(ds) ==
    addresses' = addresses \cup {[sent  |-> Read(ds, Scope, Address),
                                  shown |-> Read(ds, Scope, Instructions)]}

\* searchDestinationValue keeps what a dictionary already has.
Kept(place) ==
    LET existing == Read(drafts, Scope, Address)
    IN  IF << >> \in DOMAIN existing THEN place
        ELSE [k \in DOMAIN place \cup DOMAIN existing |->
                IF k \in DOMAIN place THEN place[k] ELSE existing[k]]

\* A place is picked: the address is created, or updated when there is one,
\* and a new one is linked to the item.
PickAddress(street) ==
    LET picked  == Write(drafts, Scope, Address, Kept([k \in {<< "street" >>} |-> street]))
        linked  == Write(Write(picked, Scope, << "address", "id" >>, Is("id")),
                         Scope, AddressId, Is("id"))
        unknown == Read(drafts, Scope, AddressId) \in {Nothing, Is("")}
    IN  /\ UserActs
        /\ \E row \in Rows[Top(routes).page] : row.path = Address
        /\ SendAddress(picked)
        /\ drafts' = IF unknown THEN linked ELSE picked
        /\ entered' = IF unknown THEN Patch(entered, AddressId, Is("id")) ELSE entered
        /\ UNCHANGED <<routes, left, appearing, submitted>>

IsField(path) == IsStrictPrefix(Item, path)

\* Submit creates: the drafts on fields of the item that are not "".
Merged(ds, scope) ==
    FoldSet(LAMBDA path, item : Patch(item, path, ds[<<scope, path>>]), Nothing,
            {p \in PathsIn(ds, scope) : IsField(p) /\ ds[<<scope, p>>] # Is("")})

\* {create(...,submit)}, {close()}.
Submit ==
    /\ UserActs /\ CurrentFlow \in Creating
    /\ submitted' = [item    |-> Merged(drafts, Scope), entered |-> entered]
    /\ drafts' = Without(drafts, {Scope} \cup Ephemerals(CurrentFlow))
    /\ GoTo(RoutesAfterClosing(routes))
    /\ UNCHANGED addresses

Next ==
    \/ RoutesChanged \/ Appear
    \/ \E route \in Route \cup {[flow |-> Home, page |-> HomePage]} : Navigate(route)
    \/ Close \/ Back \/ Submit
    \/ \E text \in Typed \cup {""} :
          \E row \in Rows[Top(routes).page] : Edit(row, text)
    \/ \E street \in Typed : PickAddress(street)

Spec == Init /\ [][Next]_vars

-----------------------------------------------------------------------------
(* Properties. *)

\* What is submitted is what the user saw in the fields of the flow's pages: no
\* default is lost or put back over an edit by a page that appears again, no
\* alias of a page gets in, nothing of an earlier visit (create of
\* EVY+Mutations.swift, sdui.md "Initial values").
SubmittedIsWhatWasEntered ==
    LET fields == {p \in DOMAIN submitted.entered :
                      IsField(p) /\ submitted.entered[p] # ""}
    IN  submitted.item = [p \in fields |-> submitted.entered[p]]

\* Once a change of routes has been handled, no draft is left of a flow the user
\* is not in (ContentView.swift).
DraftsEndWithTheirFlow ==
    Settled =>
        \A d \in DOMAIN drafts :
            d[1] \in {CreateScope(CurrentFlow)} \cup Ephemerals(CurrentFlow)

\* An address is sent with the instructions its page shows, typed or default.
\* The code breaks this: the page seeds a draft of its own for the instructions,
\* and the address is read from the draft above it.
AddressCarriesInstructions ==
    \A a \in addresses :
        /\ << "instructions" >> \in DOMAIN a.sent
        /\ a.sent[<< "instructions" >>] = a.shown[<< >>]

\* Navigating to a page of another flow shows that page.  The code breaks this:
\* a route that is in the stack already is removed from it.
NavigateShowsThePage ==
    [][\A route \in Route : Navigate(route) => Top(routes') = route]_vars

=============================================================================
