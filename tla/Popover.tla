------------------------------- MODULE Popover -------------------------------
(***************************************************************************)
(* The builder's select (PopoverSelect.tsx): a menu that is opened and     *)
(* closed by the keyboard, by clicks and, where it is told to, by the      *)
(* pointer coming and going, with a delay; its search field, the option    *)
(* that is highlighted and the one that is picked; options that change     *)
(* while it is open.                                                       *)
(*                                                                         *)
(* A query is how many characters were typed.                              *)
(***************************************************************************)
EXTENDS Naturals, SequencesExt

CONSTANTS
    Lists,        \* the options there may be, in order; the first to begin with
    Matching,     \* Matching[n]: the options whose label holds the n characters typed
    Act,          \* options that act and are not chosen
    Hover,        \* openOnHover
    MaxSteps,     \* bound: steps of the author
    MaxOthers,    \* bound: changes of the options
    None

Option == UNION {Range(l) : l \in Range(Lists)}

PopoverAssumption ==
    /\ Lists # << >> /\ \A l \in Range(Lists) : IsInjective(l)
    /\ \A n \in DOMAIN Matching : Matching[n] \subseteq Option
    /\ Act \subseteq Option /\ Hover \in BOOLEAN
    /\ {MaxSteps, MaxOthers} \subseteq Nat

VARIABLES
    options,
    value,       \* the option that is chosen
    open,        \* isOpen
    index,       \* activeIndex; 0 is -1
    query,       \* searchQuery
    pointer,     \* where it is: on the trigger, on the menu, elsewhere
    timer,       \* hoverCloseTimerRef
    focus,       \* what has it: the trigger, the search field, another
    focusing,    \* focusSearch waits for a frame
    visited,     \* was the pointer on the trigger or the menu since it opened
    marked,      \* the option the author saw highlighted
    picked,      \* what Enter picked, and what it should have
    acted,       \* the last option that acted
    steps, others

menu == <<open, index, query, visited, marked>>
vars == <<options, value, menu, pointer, timer, focus, focusing, picked, acted, steps, others>>

Shown(list, n) == IF n = 0 THEN list ELSE SelectSeq(list, LAMBDA o : n \in DOMAIN Matching /\ o \in Matching[n])
Filtered       == Shown(options, query)
IndexOf(list, o) == IF o \in Range(list) THEN CHOOSE i \in 1 .. Len(list) : list[i] = o ELSE 0

Init ==
    /\ options = Lists[1] /\ value \in Range(options) \ Act
    /\ open = FALSE /\ index = 0 /\ query = 0
    /\ pointer = "elsewhere" /\ timer = FALSE
    /\ focus = "another" /\ focusing = FALSE
    /\ visited = FALSE /\ marked = None
    /\ picked = [is |-> None, should |-> None] /\ acted = None
    /\ steps = 0 /\ others = 0

Step == steps < MaxSteps /\ steps' = steps + 1 /\ UNCHANGED <<options, others>>

\* Once it is shown the search field is given the focus.
Open(at) ==
    /\ open' = TRUE /\ query' = 0
    /\ index' = IndexOf(options, value)
    /\ marked' = (IF value \in Range(options) THEN value ELSE None)
    /\ visited' = (at # "elsewhere")
    /\ focusing' = TRUE

\* Closing gives the focus back to the trigger, but by the delay or a click.
Close(focused) ==
    /\ open' = FALSE /\ index' = 0 /\ query' = 0 /\ marked' = None /\ visited' = FALSE
    /\ timer' = FALSE
    /\ focus' = focused

Stays == UNCHANGED <<value, picked, acted>>

-----------------------------------------------------------------------------
(* The pointer.                                                              *)

EnterTrigger ==
    /\ Step /\ pointer = "elsewhere"
    /\ pointer' = "trigger"
    /\ timer' = (timer /\ ~Hover)
    /\ IF Hover /\ ~open THEN Open("trigger")
       ELSE visited' = open /\ UNCHANGED <<open, index, query, marked, focusing>>
    /\ UNCHANGED focus /\ Stays

\* A mutant: the menu lets the delay run.
EnterMenuUnnoticed ==
    /\ Step /\ pointer = "elsewhere" /\ open
    /\ pointer' = "menu" /\ visited' = TRUE
    /\ UNCHANGED <<open, index, query, marked, timer, focus, focusing>> /\ Stays

EnterMenu ==
    /\ Step /\ pointer = "elsewhere" /\ open
    /\ pointer' = "menu" /\ visited' = TRUE
    /\ timer' = (timer /\ ~Hover)
    /\ UNCHANGED <<open, index, query, marked, focus, focusing>> /\ Stays

Leave ==
    /\ Step /\ pointer # "elsewhere"
    /\ pointer' = "elsewhere"
    /\ timer' = (timer \/ Hover)
    /\ UNCHANGED <<menu, focus, focusing>> /\ Stays

\* HOVER_CLOSE_DELAY_MS later.
TimerFires ==
    /\ timer
    /\ Close(IF focus = "search" THEN "another" ELSE focus)
    /\ UNCHANGED <<options, pointer, focusing, steps, others>> /\ Stays

ClickTrigger ==
    /\ Step /\ pointer = "trigger"
    /\ IF open /\ Hover THEN focusing' = TRUE /\ UNCHANGED <<menu, timer, focus>>
       ELSE IF open THEN Close("trigger") /\ UNCHANGED focusing
       ELSE Open(pointer) /\ focus' = "trigger" /\ UNCHANGED timer
    /\ UNCHANGED pointer /\ Stays

ClickOutside ==
    /\ Step /\ pointer = "elsewhere"
    /\ focus' = "another"
    /\ IF open THEN Close("another") ELSE UNCHANGED <<menu, timer>>
    /\ UNCHANGED <<pointer, focusing>> /\ Stays

-----------------------------------------------------------------------------
(* Picking.                                                                  *)

Select(o) ==
    /\ IF o \in Act THEN acted' = o /\ UNCHANGED value ELSE value' = o /\ UNCHANGED acted
    /\ Close("trigger")
    /\ pointer' = IF pointer = "menu" THEN "elsewhere" ELSE pointer

ClickOption(i) ==
    /\ Step /\ pointer = "menu" /\ i \in DOMAIN Filtered
    /\ Select(Filtered[i])
    /\ UNCHANGED <<focusing, picked>>

\* Nothing is picked but what is highlighted, or the first if nothing is.
Enter ==
    /\ Step /\ focus = "search" /\ Filtered # << >>
    /\ LET o == IF index \in DOMAIN Filtered THEN Filtered[index] ELSE Filtered[1] IN
       /\ Select(o)
       /\ picked' = [is |-> o, should |-> IF marked \in Range(Filtered) THEN marked ELSE Filtered[1]]
    /\ UNCHANGED focusing

-----------------------------------------------------------------------------
(* Keys.                                                                     *)

Highlight(i) == /\ index' = i
                /\ marked' = IF i \in DOMAIN Filtered THEN Filtered[i] ELSE None

ArrowDown ==
    /\ Step /\ focus = "search"
    /\ Highlight(IF index < Len(Filtered) THEN index + 1 ELSE Len(Filtered))
    /\ UNCHANGED <<open, query, visited, pointer, timer, focus, focusing>> /\ Stays

ArrowUp ==
    /\ Step /\ focus = "search"
    /\ Highlight(IF index > 2 THEN index - 1 ELSE 1)
    /\ UNCHANGED <<open, query, visited, pointer, timer, focus, focusing>> /\ Stays

Escape ==
    /\ Step /\ open /\ focus \in {"search", "trigger"}
    /\ Close("trigger")
    /\ pointer' = IF pointer = "menu" THEN "elsewhere" ELSE pointer
    /\ UNCHANGED focusing /\ Stays

ArrowDownOnTrigger ==
    /\ Step /\ focus = "trigger"
    /\ IF open THEN focusing' = TRUE /\ UNCHANGED menu ELSE Open(pointer)
    /\ UNCHANGED <<pointer, timer, focus>> /\ Stays

\* A mutant: the option that was highlighted stays so.
TypeOnly(n) == query' = n /\ marked' = None /\ UNCHANGED index

Typed(n) == query' = n /\ marked' = None /\ index' = 0

\* In the search field, or while the trigger has the focus still.
TypeKey ==
    /\ Step /\ open /\ focus \in {"search", "trigger"}
    /\ Typed(query + 1)
    /\ focusing' = (focusing \/ focus = "trigger")
    /\ UNCHANGED <<open, visited, pointer, timer, focus>> /\ Stays

Erase ==
    /\ Step /\ focus = "search" /\ query > 0
    /\ Typed(query - 1)
    /\ UNCHANGED <<open, visited, pointer, timer, focus, focusing>> /\ Stays

\* The next frame: the search field takes the focus if it is there.
Frame ==
    /\ focusing /\ focusing' = FALSE
    /\ focus' = IF open THEN "search" ELSE focus
    /\ UNCHANGED <<options, value, menu, pointer, timer, picked, acted, steps, others>>

TabOnto ==
    /\ Step /\ focus = "another"
    /\ focus' = "trigger"
    /\ UNCHANGED <<menu, pointer, timer, focusing>> /\ Stays

\* Another builder's flow or page comes, or goes.
OptionsChange(list) ==
    /\ others < MaxOthers /\ others' = others + 1
    /\ list # options /\ options' = list
    /\ UNCHANGED <<value, menu, pointer, timer, focus, focusing, picked, acted, steps>>

Next ==
    \/ EnterTrigger \/ EnterMenu \/ Leave \/ TimerFires \/ ClickTrigger \/ ClickOutside
    \/ \E i \in 1 .. Len(options) : ClickOption(i)
    \/ Enter \/ ArrowDown \/ ArrowUp \/ Escape \/ ArrowDownOnTrigger \/ TypeKey \/ Erase
    \/ Frame \/ TabOnto
    \/ \E list \in Range(Lists) : OptionsChange(list)

Spec == Init /\ [][Next]_vars

-----------------------------------------------------------------------------
(* Type invariant. *)
TypeOK ==
    /\ {open, timer, focusing, visited} \subseteq BOOLEAN
    /\ index \in Nat /\ query \in Nat
    /\ pointer \in {"trigger", "menu", "elsewhere"} /\ focus \in {"trigger", "search", "another"}
    /\ {marked, acted, value} \subseteq Option \cup {None}

(* A menu the pointer was on closes after the pointer left it, and is not about *)
(* to be closed while the pointer is on it or on the trigger.                   *)
PointerDecides ==
    /\ timer => pointer = "elsewhere"
    /\ Hover /\ open /\ visited /\ pointer = "elsewhere" => timer

(* Enter picks what the author saw highlighted, whatever was typed between.     *)
(* (Not so when the options change while the menu is open.)                     *)
PicksWhatIsHighlighted == picked.is = picked.should

(* A menu that was opened by the keyboard is not closed by a pointer that left  *)
(* before.  (Not so: opening leaves the delay running.)                         *)
OpenedByKeysStays == open /\ timer => visited

=============================================================================
