--------------------------------- MODULE MCApp ---------------------------------
(* The app's machines for TLC, one at a time: `part` chooses at the start      *)
(* which of them runs, and under which bounds.  They share no state.           *)
EXTENDS Integers, Sequences

CONSTANTS
    None,
    Word, NoWord,   \* what is typed into a search field
    MaxSearches,    \* bound: changes of its text, from its first
    MaxErrors,      \* bound: searches that fail
    CoreRows,       \* the rows of the core resources, in the order they are read in,
    ServiceRows,    \* and of the service's
    Addressed, NoRow, PrivateRows, OwnRows, DeclarableRows,
    PushedRows,     \* the core rows of a device that stays connected
    MaxStamps, MaxPushed, MaxCuts,  \* bounds: writes, and what fails
    Listed,         \* the ids of the records an app writes, as the server lists them
    RecordPages,    \* pages that show one of them
    MaxOvertaking, MaxInOrder,      \* bounds: writes whose requests overtake each other, or do not,
    MaxRefreshes, MaxLost           \* syncs, and requests that fail

VARIABLES
    part,
    row, clock, inflight, online, pushes, held, created, declared, cursor, issuedFor,
    sync, failures,
    routes, left, appearing, drafts, addresses, submitted, entered, steps,
    text, current, tasks, results, hasSearched, isSearching, errors,
    tiles, button, selected, picks, uploads, deleting, committed, files, faults, losses,
    server, deleted, stores, cache, active, requests, notified, written, synced, lost, own,
    openRow, offset, dragging, wasOpen, touched, sweeping, runs, touches, cancels, returns,
    pages, opening, stored, shown, meant, taps, moves

rows   == <<row, clock, inflight, online, pushes, held, created, declared, cursor, issuedFor,
            sync, failures>>
forms  == <<routes, left, appearing, drafts, addresses, submitted, entered, steps>>
search == <<text, current, tasks, results, hasSearched, isSearching, errors>>
photos == <<tiles, button, selected, picks, uploads, deleting, committed, files, faults, losses>>
writes == <<server, deleted, stores, cache, active, requests, notified, written, synced, lost, own>>
swipes == <<openRow, offset, dragging, wasOpen, touched, sweeping, runs, touches, cancels, returns>>
choices == <<pages, opening, stored, shown, meant, taps, moves>>
vars   == <<part, rows, forms, search, photos, writes, swipes, choices>>

\* A device that comes and goes.
Resumed == INSTANCE Sync
    WITH Core <- CoreRows, Service <- ServiceRows, Parent <- Addressed, Private <- PrivateRows,
         Own <- OwnRows, Declarable <- DeclarableRows, MaxStamp <- MaxStamps,
         MaxFailures <- MaxCuts, WritesDuring <- FALSE, Overlap <- FALSE, ServiceDeletes <- FALSE

\* One that stays connected while writes overlap.
Alone == [r \in UNION {PushedRows[i] : i \in DOMAIN PushedRows} |-> NoRow]

Connected == INSTANCE Sync
    WITH Core <- PushedRows, Service <- << >>, Parent <- Alone, Private <- {}, Own <- {},
         Declarable <- {}, MaxStamp <- MaxPushed, MaxFailures <- 0,
         WritesDuring <- FALSE, Overlap <- TRUE, ServiceDeletes <- FALSE

\* The instance: a page it may have created, a conversation about it and an
\* item.  The order is another's until a launch declares it.
Resources    == << {"page"}, {"order", "reply"} >>
Items        == << {"item"} >>
Enquiry      == [r \in {"page", "order", "reply", "item"} |-> IF r = "reply" THEN "page" ELSE ""]
TwoResources == << {"page"}, {"order"} >>

\* The flow that sells an item, as it is seeded, and one that shows items.
Path(p) == [initial |-> "default", path |-> p]

Forms == INSTANCE Drafts
    WITH Home <- "home", HomePage <- "root", Flow <- {"sell", "look"}, Creating <- {"sell"},
         Pages <- [f \in {"sell", "look"} |->
                      IF f = "sell" THEN {"describe", "transfer"} ELSE {"view"}],
         Rows  <- [p \in {"root", "describe", "transfer", "view"} |->
                      CASE p = "describe" -> {Path(<< "item", "title" >>)}
                        [] p = "transfer" -> {[initial |-> "", path |-> << "address" >>],
                                              Path(<< "address", "instructions" >>)}
                        [] p = "view"     -> {Path(<< "slot" >>)}
                        [] p = "root"     -> {}],
         Typed <- {"typed"}, MaxSteps <- 7

Field == INSTANCE Search
    WITH MaxTasks <- MaxSearches, Text <- Word, Blank <- NoWord, MaxFailures <- MaxErrors,
         failures <- errors

Carousel == INSTANCE Photos
    WITH MaxPicks <- 3, MaxFailures <- 2, MaxLosses <- 1, failures <- faults

\* The rows of a resource and the app's own writes of them, whose requests
\* reach the server in any order, or in the order they were made.
Overtaking == INSTANCE Mutations
    WITH Ids <- Listed, Page <- RecordPages, Ordered <- FALSE,
         MaxWrites <- MaxOvertaking, MaxSyncs <- MaxRefreshes, MaxFaults <- 0,
         pushes <- notified, syncs <- synced, faults <- lost

InOrder == INSTANCE Mutations
    WITH Ids <- Listed, Page <- RecordPages, Ordered <- TRUE,
         MaxWrites <- MaxInOrder, MaxSyncs <- MaxRefreshes, MaxFaults <- MaxLost,
         pushes <- notified, syncs <- synced, faults <- lost

TwoRecords == << "a", "b" >>

\* Two rows whose data have ids.
Swiped == INSTANCE Swipe
    WITH View <- {"a", "b"}, Identity <- [v \in {"a", "b"} |-> v],
         Dragged <- {-5, -2, -1, 1}, Speed <- {-2, 0, 2}, Careful <- TRUE,
         MaxSteps <- 5, MaxCancels <- 0, MaxReturns <- 0, steps <- touches

\* The same where the system takes a drag over and a row is made anew.
Disturbed == INSTANCE Swipe
    WITH View <- {"a", "b"}, Identity <- [v \in {"a", "b"} |-> v],
         Dragged <- {-5, -2, -1, 1}, Speed <- {-2, 0, 2}, Careful <- FALSE,
         MaxSteps <- 4, MaxCancels <- 1, MaxReturns <- 1, steps <- touches

\* A page on which a place is chosen, and one of the slots it has, and one of
\* the same flow with a check of its own; above them the two pages of a flow
\* that sells an item, on which slots to pick it up and to deliver it are
\* chosen.  The place, the check and the item's slots have the same name.
Pickup    == << "marketplace", "items", "pickup" >>
Delivery  == << "marketplace", "items", "delivery" >>
Tags      == << "marketplace", "items", "tags" >>
Earlier   == << "earlier" >>
Place     == << "pickup" >>
Places    == << "pickup", "slots" >>
Destinations ==
    [pick |-> Pickup, tags |-> Tags, again |-> Pickup, deliver |-> Delivery,
     place |-> Place, slot |-> << "slot" >>, agreed |-> Place]
Controls  == DOMAIN Destinations
Screens   == {"view", "terms", "sell", "more"}
Paths     == {Destinations[c] : c \in Controls} \cup {Earlier, Places}

Controlled == INSTANCE Selecting
    WITH Page <- Screens, First <- "view",
         FlowOf <- [p \in Screens |-> IF p \in {"view", "terms"} THEN "buying" ELSE "selling"],
         ScopeOf <- [p \in Screens |-> IF p \in {"view", "terms"} THEN p ELSE "sell"],
         Entity <- [s \in {"view", "terms", "sell"} |->
                       IF s = "sell" THEN << "marketplace", "items" >> ELSE << >>],
         Control <- Controls, Destination <- Destinations,
         Kind <- [c \in Controls |->
                     CASE c \in {"pick", "again", "deliver"} -> "calendar"
                       [] c = "tags" -> "inline"
                       [] c = "slot" -> "timeslot"
                       [] OTHER      -> "item"],
         PageOf <- [c \in Controls |->
                       CASE c \in {"pick", "tags"} -> "sell"
                         [] c \in {"again", "deliver"} -> "more"
                         [] c = "agreed" -> "terms"
                         [] OTHER -> "view"],
         Beside <- [c \in Controls |->
                       CASE c = "pick"    -> {Delivery, Earlier}
                         [] c = "deliver" -> {Pickup}
                         [] c = "slot"    -> {Places}
                         [] OTHER         -> {}],
         Option <- [c \in Controls |->
                       CASE c = "tags"   -> {"x", "y"}
                         [] c = "place"  -> {"u", "v"}
                         [] c = "agreed" -> {"true"}
                         [] OTHER        -> {}],
         DraftOf <- [p \in Paths |-> IF p = Places THEN Place ELSE p],
         Within <- [p \in {Places} |-> [v \in {<< >>, << "u" >>, << "v" >>, << "true" >>} |->
                       CASE v = << >>   -> << >>
                         [] v = << "u" >> -> << <<1, 1>>, <<2, 2>> >>
                         [] OTHER       -> << <<2, 2>> >>]],
         Seeded <- [s \in {"view", "terms", "sell"} |-> [p \in Paths |->
                       CASE p = Earlier -> << <<9, 1>>, <<1, 5>> >>
                         [] p = Tags    -> << "x" >>
                         [] OTHER       -> << >>]],
         Today <- {1, 2}, Times <- << 1, 2 >>, MaxTaps <- 3, MaxMoves <- 3,
         appearing <- opening

ASSUME Swiped!SwipeAssumption /\ Disturbed!SwipeAssumption
ASSUME Controlled!SelectingAssumption

\* A conversation is about a row everybody may see: an answer to a private row
\* may be missed, for the response that brings the row does not bring it.
ASSUME RowsAssumption ==
    /\ Resumed!SyncAssumption /\ Connected!SyncAssumption
    /\ \A r \in Resumed!Row : Addressed[r] \notin PrivateRows

ASSUME Forms!DraftsAssumption /\ Carousel!PhotosAssumption
ASSUME FieldAssumption == Field!SearchAssumption
ASSUME WritesAssumption == Overtaking!MutationsAssumption /\ InOrder!MutationsAssumption

\* The controls are many: they are not even drawn for the other machines.
Off == 0

Init ==
    /\ part \in {"resumed", "connected", "forms", "search", "photos", "overtaking", "inorder",
                 "swiped", "disturbed", "controlled"}
    /\ IF part = "connected" THEN Connected!Init ELSE Resumed!Init
    /\ Forms!Init /\ Field!Init /\ Carousel!Init
    /\ InOrder!Init /\ active = CHOOSE p \in RecordPages : TRUE
    /\ Swiped!Init
    /\ IF part = "controlled" THEN Controlled!Init
       ELSE pages = Off /\ opening = Off /\ stored = Off /\ shown = Off /\ meant = Off
            /\ taps = Off /\ moves = Off

\* What the machines that do not run keep.
OnlyRows    == UNCHANGED <<part, forms, search, photos, writes, swipes, choices>>
OnlyForms   == UNCHANGED <<part, rows, search, photos, writes, swipes, choices>>
OnlySearch  == UNCHANGED <<part, rows, forms, photos, writes, swipes, choices>>
OnlyPhotos  == UNCHANGED <<part, rows, forms, search, writes, swipes, choices>>
OnlyWrites  == UNCHANGED <<part, rows, forms, search, photos, swipes, choices>>
OnlySwipes  == UNCHANGED <<part, rows, forms, search, photos, writes, choices>>
OnlyChoices == UNCHANGED <<part, rows, forms, search, photos, writes, swipes>>

ResumedNext    == part = "resumed"    /\ Resumed!Next    /\ OnlyRows
ConnectedNext  == part = "connected"  /\ Connected!Next  /\ OnlyRows
FormsNext      == part = "forms"      /\ Forms!Next      /\ OnlyForms
FieldNext      == part = "search"     /\ Field!Next      /\ OnlySearch
CarouselNext   == part = "photos"     /\ Carousel!Next   /\ OnlyPhotos
OvertakingNext == part = "overtaking" /\ Overtaking!Next /\ OnlyWrites
InOrderNext    == part = "inorder"    /\ InOrder!Next    /\ OnlyWrites
SwipedNext     == part = "swiped"     /\ Swiped!Next     /\ OnlySwipes
DisturbedNext  == part = "disturbed"  /\ Disturbed!Next  /\ OnlySwipes
ControlledNext == part = "controlled" /\ Controlled!Next /\ OnlyChoices

Next == ResumedNext \/ ConnectedNext \/ FormsNext \/ FieldNext \/ CarouselNext
        \/ OvertakingNext \/ InOrderNext \/ SwipedNext \/ DisturbedNext
        \/ ControlledNext

Spec == Init /\ [][Next]_vars

-----------------------------------------------------------------------------
(* The properties of the parts: see there. *)

NothingIsMissed ==
    /\ part = "resumed"   => Resumed!NothingIsMissed
    /\ part = "connected" => Connected!NothingIsMissed

LocalRowsAreTheServers ==
    /\ part \in {"overtaking", "inorder"} => InOrder!OneStorePerRecord /\ InOrder!QuietIsTheServer
    /\ part = "inorder" => InOrder!LastWriteStays
ChangesDoNotReorder == InOrder!ChangesDoNotReorder

DraftsAreTheirFlows ==
    part = "forms" => Forms!SubmittedIsWhatWasEntered /\ Forms!DraftsEndWithTheirFlow

AddressCarriesInstructions == Forms!AddressCarriesInstructions

ResultsAreOfTheText == part = "search" => Field!ResultsAreOfTheText

ControlsAreTheirData ==
    /\ part = "photos"     => Carousel!CommittedIsStored
    /\ part = "swiped"     => Swiped!RestingRowsFollow /\ Swiped!OneRowIsOpen
    /\ part = "disturbed"  => Disturbed!OneRowIsOpen
    /\ part = "controlled" => Controlled!ShownIsHeld /\ Controlled!ControlsShowTheChoices

=============================================================================
