------------------------------- MODULE Selecting -------------------------------
(***************************************************************************)
(* The controls of the app in which something is chosen: calendars, inline *)
(* pickers, dropdowns, timeslot pickers and checks, on pages one above the *)
(* other.  Each remembers what it last read (EVYState) and reads again     *)
(* when a change is told of that affects what it watches.  A page that     *)
(* appears seeds the drafts of its controls that are not there yet.        *)
(*                                                                         *)
(* A value is a list; a text is a list of one, the empty text the empty    *)
(* list.  A slot of a calendar is <<day, time>>.                           *)
(***************************************************************************)
EXTENDS Naturals, SequencesExt

CONSTANTS
    Page, First,   \* the pages, and the one at the bottom
    FlowOf,        \* page -> its flow
    ScopeOf,       \* page -> the scope of its drafts: its flow's if that creates, else its own
    Entity,        \* scope -> the entity it creates, as a path; << >> when it creates none
    Control,       \* the controls, each on a page
    Kind, PageOf,  \* control -> its kind, its page
    Destination,   \* control -> the path it writes
    Beside,        \* control -> the paths it reads besides: a secondary selection, a source
    Option,        \* control -> what it offers, when no path tells
    DraftOf,       \* path -> the path of the draft that holds it: a destination's is its own
    Within,        \* path -> what the draft holds -> what it holds at the path, a part of it
    Seeded,        \* scope -> path -> what a new draft holds, or the data that is there
    Today, Times,  \* the days every calendar shows; the times of a day, in order
    MaxTaps, MaxMoves,
    None

Scope == {ScopeOf[p] : p \in Page}
Path  == DOMAIN DraftOf

SelectingAssumption ==
    /\ First \in Page /\ DOMAIN FlowOf = Page /\ DOMAIN ScopeOf = Page /\ DOMAIN Entity = Scope
    /\ \A c \in Control : DraftOf[Destination[c]] = Destination[c]
    /\ \A c \in Control : PageOf[c] \in Page /\ Destination[c] \in Path /\ Beside[c] \subseteq Path
    /\ \A p \in Path : IsPrefix(DraftOf[p], p)
    /\ DOMAIN Seeded = Scope /\ \A s \in Scope : DOMAIN Seeded[s] = Path
    /\ Today \subseteq Nat /\ Times \in Seq(Nat) /\ MaxTaps \in Nat /\ MaxMoves \in Nat

VARIABLES
    pages,    \* the pages from the first to the one on top
    appearing, \* has the page on top still to appear
    stored,   \* scope -> path -> the value the draft holds, None without one
    shown,    \* the controls of these pages -> watched path -> what it read
    meant,    \* scope -> path -> the set of what people see they chose
    taps, moves

vars == <<pages, appearing, stored, shown, meant, taps, moves>>

On(ps)    == {c \in Control : PageOf[c] \in ToSet(ps)}
ActiveOf(ps) == ScopeOf[Last(ps)]
Home(c)   == ScopeOf[PageOf[c]]
Watched(c) == {Destination[c]} \cup Beside[c]

Destinations(ps) == {Destination[c] : c \in {d \in Control : PageOf[d] \in ps}}

-----------------------------------------------------------------------------
(* EVYState and the changes it is told of. *)

\* A mutant: a change affects only what has its very path.
AffectsItself(key, watch) == watch = key

\* EVYValueChange.affects: one is the beginning of the other.
Affects(key, watch) == watch # << >> /\ (IsPrefix(key, watch) \/ IsPrefix(watch, key))

\* What a draft is filed under: a field of the entity loses its name.
Binding(scope, path) ==
    IF Entity[scope] # << >> /\ IsStrictPrefix(Entity[scope], path)
    THEN SubSeq(path, Len(Entity[scope]) + 1, Len(path))
    ELSE path

\* A mutant: only the name it is filed under is told.
KeysFiled(scope, path) == {Binding(scope, path)}

\* EVYDraftStore.notifyUpdate.
Keys(scope, path) ==
    LET key == Binding(scope, path)
    IN  {key} \cup IF Entity[scope] = << >> \/ IsStrictPrefix(Entity[scope], key) THEN {}
                   ELSE {Entity[scope] \o key}

Held(store, s, p) ==
    LET draft == store[s][DraftOf[p]]
        value == IF draft = None THEN << >> ELSE draft
    IN  IF DraftOf[p] = p THEN value ELSE Within[p][value]

\* A mutant: a control reads in the scope of the page on top.
ReadOnTop(store, c, ps) == [p \in Watched(c) |-> Held(store, ActiveOf(ps), p)]

\* A control reads in its own scope, whichever page is on top.
Read(store, c, ps) == [p \in Watched(c) |-> Held(store, Home(c), p)]

Notify(keys) ==
    shown' = [c \in On(pages) |->
        IF \E k \in keys, w \in Watched(c) : Affects(k, w) THEN Read(stored', c, pages) ELSE shown[c]]

\* updateData: the draft of a destination is there since its page appeared.
Write(c, value) ==
    LET s == ActiveOf(pages)
        d == Destination[c]
    IN  /\ stored' = [stored EXCEPT ![s][d] = value]
        /\ Notify(Keys(s, d))

-----------------------------------------------------------------------------
(* What a calendar shows. *)

Chosen(c)  == shown[c][Destination[c]]
Slots(c)   == UNION {ToSet(shown[c][p]) : p \in Watched(c)}

\* The days it always has and those of any selection, in their order.
Days(c) ==
    LET all == Today \cup {s[1] : s \in Slots(c)}
    IN  [x \in 1..Cardinality(all) |-> CHOOSE d \in all : Cardinality({e \in all : e < d}) = x - 1]
Columns(c) == 1..Len(Days(c))
Rows       == DOMAIN Times

\* buildCalendarSlots: the days one after the other.
Grid(c) ==
    LET days == Days(c)
    IN  [i \in 1..(Len(days) * Len(Times)) |->
            <<days[((i - 1) \div Len(Times)) + 1], Times[((i - 1) % Len(Times)) + 1]>>]

\* A mutant: the slots are taken for the rows one after the other.
SlotByRows(c, x, y) == Grid(c)[(y - 1) * Len(Days(c)) + x]

\* calculateIndex.
SlotAt(c, x, y) == Grid(c)[(x - 1) * Len(Times) + y]

Column(c, x) == LET day == Days(c)[x] IN SelectSeq(Grid(c), LAMBDA s : s[1] = day)
Row(c, y)    == SelectSeq(Grid(c), LAMBDA s : s[2] = Times[y])

\* Is a label drawn as full?
ColumnIsFull(c, x) == ToSet(Column(c, x)) \subseteq ToSet(Chosen(c))
RowIsFull(c, y)    == ToSet(Row(c, y)) \subseteq ToSet(Chosen(c))

\* What a control draws, and what of it it draws as chosen.
Offered(c) ==
    CASE Kind[c] = "calendar" -> ToSet(Grid(c))
      [] Kind[c] = "timeslot" -> UNION {ToSet(shown[c][p]) : p \in Beside[c]}
      [] OTHER                -> Option[c]
Drawn(c) == ToSet(Chosen(c)) \cap Offered(c)

-----------------------------------------------------------------------------
\* The drafts of a page are there when it has appeared.
Seed(store, p) ==
    [store EXCEPT ![ScopeOf[p]] = [q \in Path |->
        IF q \in Destinations({p}) /\ @[q] = None THEN Seeded[ScopeOf[p]][q] ELSE @[q]]]

\* What a scope holds without drafts: data nobody chooses here.
WithoutDrafts(s) == [q \in Path |-> IF q \in Destinations(Page) THEN None ELSE Seeded[s][q]]

Init ==
    /\ pages = << First >> /\ appearing = TRUE
    /\ stored = [s \in Scope |-> WithoutDrafts(s)]
    /\ shown = [c \in On(<< First >>) |-> Read(stored, c, << First >>)]
    /\ meant = [s \in Scope |-> [p \in Path |-> {}]]
    /\ taps = 0 /\ moves = 0

\* A mutant: some of the batch being chosen is enough to clear it.
ToggledAny(batch, list) ==
    IF ToSet(batch) \cap ToSet(list) # {}
    THEN SelectSeq(list, LAMBDA s : s \notin ToSet(batch))
    ELSE list \o SelectSeq(batch, LAMBDA s : s \notin ToSet(list))

\* EVYSelectionHelpers.toggledIdentifiers.
Toggled(batch, list) ==
    IF batch = << >> THEN list
    ELSE IF ToSet(batch) \subseteq ToSet(list)
         THEN SelectSeq(list, LAMBDA s : s \notin ToSet(batch))
         ELSE list \o SelectSeq(batch, LAMBDA s : s \notin ToSet(list))

\* A person taps on a control of the page on top, and means what it then is.
Tap(c, meaning) ==
    /\ taps < MaxTaps /\ taps' = taps + 1
    /\ PageOf[c] = Last(pages) /\ ~appearing
    /\ meant' = [meant EXCEPT ![Home(c)][Destination[c]] = meaning]
    /\ UNCHANGED <<pages, appearing, moves>>

Meant(c) == meant[Home(c)][Destination[c]]

\* togglePrimarySelection toggles what the draft holds now.
Toggle(c, batch) == Write(c, Toggled(batch, stored[ActiveOf(pages)][Destination[c]]))

TapSlot(c) ==
    \E x \in Columns(c), y \in Rows :
        LET s == <<Days(c)[x], Times[y]>>
        IN  /\ Tap(c, IF s \in Drawn(c) THEN Meant(c) \ {s} ELSE Meant(c) \cup {s})
            /\ Toggle(c, << SlotAt(c, x, y) >>)

TapColumn(c) ==
    \E x \in Columns(c) :
        LET all == {<<Days(c)[x], t>> : t \in ToSet(Times)}
        IN  /\ Tap(c, IF ColumnIsFull(c, x) THEN Meant(c) \ all ELSE Meant(c) \cup all)
            /\ Toggle(c, Column(c, x))

TapRow(c) ==
    \E y \in Rows :
        LET all == {<<d, Times[y]>> : d \in ToSet(Days(c))}
        IN  /\ Tap(c, IF RowIsFull(c, y) THEN Meant(c) \ all ELSE Meant(c) \cup all)
            /\ Toggle(c, Row(c, y))

\* EVYInlinePicker toggles what it remembers.
TapInline(c) ==
    \E o \in Option[c] :
        /\ Tap(c, IF o \in Drawn(c) THEN Meant(c) \ {o} ELSE Meant(c) \cup {o})
        /\ Write(c, Toggled(<< o >>, Chosen(c)))

\* EVYSelectItem: what is chosen is chosen no more, or takes the other's place.
TapItem(c) ==
    \E o \in Option[c] :
        /\ Tap(c, IF o \in Drawn(c) THEN {} ELSE {o})
        /\ Write(c, IF o \notin ToSet(Chosen(c)) THEN << o >> ELSE << >>)

TapTimeslot(c) ==
    \E s \in Offered(c) :
        /\ Tap(c, {s})
        /\ Write(c, << s >>)

Choose(c) ==
    CASE Kind[c] = "calendar" -> TapSlot(c) \/ TapColumn(c) \/ TapRow(c)
      [] Kind[c] = "inline"   -> TapInline(c)
      [] Kind[c] = "timeslot" -> TapTimeslot(c)
      [] OTHER                -> TapItem(c)

\* The scopes whose drafts go when a page of another flow comes on top: what
\* the flow that is left creates, and what the pages of either hold.
Ended(from, to) ==
    IF FlowOf[from] = FlowOf[to] THEN {}
    ELSE {ScopeOf[p] : p \in {q \in Page :
             FlowOf[q] = FlowOf[from] \/ (FlowOf[q] = FlowOf[to] /\ Entity[ScopeOf[q]] = << >>)}}

\* The routes change, before the page that is then on top appears; nobody is
\* told of the drafts that go.
RoutesChange(ps) ==
    /\ ~appearing /\ appearing' = TRUE
    /\ moves < MaxMoves /\ moves' = moves + 1
    /\ pages' = ps
    /\ LET ended == Ended(Last(pages), Last(ps))
       IN  /\ stored' = [s \in Scope |-> IF s \in ended THEN WithoutDrafts(s) ELSE stored[s]]
           /\ meant' = [s \in Scope |-> IF s \in ended THEN [p \in Path |-> {}] ELSE meant[s]]
    /\ UNCHANGED taps

\* A page comes on top; its controls read what is there before it appears.
Enter(p) ==
    /\ p \notin ToSet(pages) /\ RoutesChange(Append(pages, p))
    /\ shown' = [c \in On(pages') |-> IF c \in DOMAIN shown THEN shown[c] ELSE Read(stored', c, pages')]

\* A mutant: the drafts are seeded and nobody is told.
Unnoticed(store) == shown

\* Everything is told to read again.
Refreshed(store) == [c \in DOMAIN shown |-> Read(store, c, pages)]

\* activatePageScope: the drafts of the page are seeded.
Appear ==
    /\ appearing /\ appearing' = FALSE
    /\ stored' = Seed(stored, Last(pages))
    /\ shown' = Refreshed(stored')
    /\ meant' = [meant EXCEPT ![ActiveOf(pages)] = [q \in Path |->
            IF stored[ActiveOf(pages)][q] # stored'[ActiveOf(pages)][q]
            THEN ToSet(Seeded[ActiveOf(pages)][q]) ELSE @[q]]]
    /\ UNCHANGED <<pages, taps, moves>>

\* The page on top goes, and the one below appears again.
Leave ==
    /\ Len(pages) > 1 /\ RoutesChange(Front(pages))
    /\ shown' = [c \in On(pages') |-> shown[c]]

Next == (\E c \in DOMAIN shown : Choose(c)) \/ (\E p \in Page : Enter(p)) \/ Appear \/ Leave

Spec == Init /\ [][Next]_vars

-----------------------------------------------------------------------------
TypeOK ==
    /\ pages \in Seq(Page) /\ appearing \in BOOLEAN /\ DOMAIN shown = On(pages)
    /\ \A s \in Scope, p \in Path : stored[s][p] # None => IsInjective(stored[s][p])
    /\ taps \in 0..MaxTaps /\ moves \in 0..MaxMoves

\* Once the page on top has appeared, every control, the ones under other
\* pages too, has read what its own scope holds at all it watches: a part of
\* what another control wrote, what a control of another page wrote under
\* another name, and not what another scope holds under the same name.
ShownIsHeld ==
    ~appearing => \A c \in DOMAIN shown, p \in Path :
        p \in Watched(c) => shown[c][p] = Held(stored, Home(c), p)

\* And it draws as chosen exactly what people saw themselves choose of what it
\* draws, one slot or a whole row or column at a time, whichever days the grid
\* has by then.
ControlsShowTheChoices ==
    ~appearing => \A c \in DOMAIN shown :
        Drawn(c) = meant[Home(c)][Destination[c]] \cap Offered(c)

=============================================================================
