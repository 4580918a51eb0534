------------------------------- MODULE Choosing -------------------------------
(***************************************************************************)
(* A field of the builder that offers what may be written at the caret     *)
(* (AutocompleteSearch.tsx): the word around the caret and what stands     *)
(* before it (idTokenSearch.ts), the candidates for it (idCandidates.ts),  *)
(* the keys, each pressed and released, the mouse, and a value that is     *)
(* changed elsewhere.                                                      *)
(*                                                                         *)
(* A text is a sequence of characters of few kinds.  Positions count the   *)
(* characters before them.                                                 *)
(***************************************************************************)
EXTENDS Naturals, SequencesExt

CONSTANTS
    Letter,       \* the characters of identifiers
    Typed,        \* the characters that are typed
    Known,        \* the texts of the candidates for the start of an expression, in order
    Attributes,   \* the same for the attributes of what has some
    MaxShown,     \* MAX_FILTERED_CANDIDATES
    InDialog,     \* is the field in a dialog
    MaxLength,    \* bound: length of the text
    MaxKeys,      \* bound: keys and clicks
    MaxOthers,    \* bound: changes of the value elsewhere
    None

Before == {"{", ",", "("}   \* rootSuggestionTriggers
Blank  == " "
Key    == Typed \cup {"Backspace", "ArrowLeft", "ArrowDown", "ArrowUp", "Enter", "Escape", "Tab"}

ChoosingAssumption ==
    /\ Letter \cap (Before \cup {Blank, "."}) = {}
    /\ \A k \in Range(Known) : k # << >>
    /\ \A q \in DOMAIN Attributes : q # << >>
    /\ InDialog \in BOOLEAN
    /\ {MaxShown, MaxLength, MaxKeys, MaxOthers} \subseteq Nat

VARIABLES
    value, caret,
    focused,     \* isFieldFocused
    open,        \* isOpen
    token,       \* activeToken: where the word begins and ends, and its text
    context,     \* activeSuggestionContext
    index,       \* activeIndex
    pending,     \* pendingFocusCursorRef
    held,        \* the key that is pressed
    dialog,      \* is the dialog open
    outcome,     \* what the last choice made of the text, and what it should have
    dismissed,   \* was the last thing done to choose, or to press Escape
    keys, others

field == <<value, caret, focused, pending>>
list  == <<open, token, context, index>>
vars  == <<field, list, held, dialog, outcome, dismissed, keys, others>>

-----------------------------------------------------------------------------
(* idTokenSearch.                                                            *)

IsLetter(text, i) == i \in 1 .. Len(text) /\ text[i] \in Letter

\* A mutant: the word ends at the caret.
TokenToCaret(text, at) ==
    LET start == CHOOSE s \in 0 .. at :
                    (\A i \in s + 1 .. at : IsLetter(text, i)) /\ ~IsLetter(text, s)
    IN  IF start = at THEN None ELSE [start |-> start, end |-> at, text |-> SubSeq(text, start + 1, at)]

\* The letters around a position, if there are any.
TokenAt(text, at) ==
    LET start == CHOOSE s \in 0 .. at :
                    (\A i \in s + 1 .. at : IsLetter(text, i)) /\ ~IsLetter(text, s)
        end   == CHOOSE e \in at .. Len(text) :
                    (\A i \in at + 1 .. e : IsLetter(text, i)) /\ ~IsLetter(text, e + 1)
    IN  IF start = end THEN None
        ELSE [start |-> start, end |-> end, text |-> SubSeq(text, start + 1, end)]

\* The last position up to `from` that no blank precedes.
BeforeBlanks(text, from) ==
    CHOOSE i \in 0 .. from :
        (\A j \in i + 1 .. from : text[j] = Blank) /\ (i # 0 => text[i] # Blank)

SegmentStart(text, end) ==
    CHOOSE s \in 0 .. end : (\A i \in s + 1 .. end : IsLetter(text, i)) /\ ~IsLetter(text, s)

\* The path before a dot: the reference it begins with if it is all there is,
\* else its last two segments, or the only one.
Qualifier(text, dot) ==
    LET end    == BeforeBlanks(text, dot - 1)
        last   == SegmentStart(text, end)
        first  == IF last > 0 /\ text[last] = "." THEN SegmentStart(text, last - 1) ELSE last
        dots   == {i \in 1 .. end : text[i] = "."}
        isPath == \A i \in 1 .. end : IsLetter(text, i) \/ text[i] = "."
        second == {i \in dots : Cardinality({j \in dots : j < i}) = 1}
    IN  IF isPath /\ second # {} /\ \A i \in dots : IsLetter(text, i - 1)
        THEN SubSeq(text, 1, (CHOOSE i \in second : TRUE) - 1)
        ELSE IF first < last - 1 /\ last < end THEN SubSeq(text, first + 1, end)
        ELSE SubSeq(text, last + 1, end)

\* findSuggestionContextAtCursor.
Context(text, at) ==
    LET word    == TokenAt(text, at)
        trigger == BeforeBlanks(text, IF word = None THEN at ELSE word.start)
    IN  IF trigger = 0 THEN << "none" >>
        ELSE IF text[trigger] \in Before THEN << "root" >>
        ELSE IF text[trigger] = "." /\ Qualifier(text, trigger) # << >>
             THEN << "attribute", Qualifier(text, trigger) >>
        ELSE << "none" >>

Replaced(text, from, to, by) == SubSeq(text, 1, from) \o by \o SubSeq(text, to + 1, Len(text))

-----------------------------------------------------------------------------
(* idCandidates.                                                             *)

LastSegment(text) ==
    LET dots == {i \in 1 .. Len(text) : text[i] = "."}
    IN  IF dots = {} THEN text
        ELSE SubSeq(text, 1 + (CHOOSE i \in dots : \A j \in dots : j <= i), Len(text))

Filter(candidates, query) ==
    LET found == SelectSeq(candidates, LAMBDA c : IsPrefix(query, c) \/ IsPrefix(query, LastSegment(c)))
    IN  SubSeq(found, 1, IF Len(found) < MaxShown THEN Len(found) ELSE MaxShown)

Query(word) == IF word = None THEN << >> ELSE word.text

CandidatesFor(where, word) ==
    CASE where = << "root" >> -> Filter(Known, Query(word))
      [] where[1] = "attribute" /\ where[2] \in DOMAIN Attributes ->
            Filter(Attributes[where[2]], Query(word))
      [] OTHER -> << >>

Candidates  == CandidatesFor(context, token)
Highlighted == IF index < 1 THEN 1 ELSE IF index > Len(Candidates) THEN Len(Candidates) ELSE index
Rendered    == focused /\ open /\ Candidates # << >>

-----------------------------------------------------------------------------
Init ==
    /\ value = << >> /\ caret = 0
    /\ focused = FALSE /\ open = FALSE
    /\ token = None /\ context = << "none" >> /\ index = 0
    /\ pending = None /\ held = None
    /\ dialog = InDialog
    /\ outcome = [is |-> << >>, should |-> << >>]
    /\ dismissed = FALSE
    /\ keys = 0 /\ others = 0

Close == open' = FALSE /\ index' = 0 /\ token' = None /\ context' = << "none" >>

\* updateActiveTokenFromValue.
Suggest(text, at) ==
    /\ token' = TokenAt(text, at)
    /\ context' = Context(text, at)
    /\ open' = (Context(text, at) # << "none" >>)
    /\ index' = 1

Act == keys < MaxKeys /\ keys' = keys + 1 /\ UNCHANGED <<others>>

\* handleInputChange.
Change(text, at) ==
    /\ Len(text) <= MaxLength
    /\ value' = text /\ caret' = at
    /\ Suggest(text, at)
    /\ dismissed' = FALSE
    /\ UNCHANGED <<focused, pending, dialog, outcome>>

\* What choosing should make of the text: the letters that reach the caret go.
WordReplaced(candidate) ==
    LET word  == {i \in 1 .. Len(value) : \A j \in (i .. caret) \cup (caret + 1 .. i) \cup {i} :
                                              value[j] \in Letter}
        left  == {i \in word : i <= caret}
    IN  SubSeq(value, 1, caret - Cardinality(left)) \o candidate
        \o SubSeq(value, caret + Cardinality(word \ left) + 1, Len(value))

\* commitCandidate; the layout effect that puts the caret runs if the value changed.
Commit(candidate) ==
    LET from == IF token = None THEN caret ELSE token.start
        to   == IF token = None THEN caret ELSE token.end
        next == Replaced(value, from, to, candidate)
        at   == from + Len(candidate)
    IN  /\ Len(next) <= MaxLength
        /\ value' = next
        /\ IF next # value THEN caret' = at /\ pending' = None
           ELSE pending' = at /\ UNCHANGED caret
        /\ outcome' = [is |-> next, should |-> WordReplaced(candidate)]
        /\ Close
        /\ dismissed' = TRUE
        /\ UNCHANGED <<focused, dialog>>

Type(k) == k \in Typed /\ Change(Replaced(value, caret, caret, << k >>), caret + 1)

Erase(k) ==
    /\ k = "Backspace" /\ caret > 0
    /\ Change(Replaced(value, caret - 1, caret, << >>), caret - 1)

\* The browser moves the caret; the field learns of it when the key is released.
MoveLeft(k) ==
    /\ k = "ArrowLeft" /\ caret > 0
    /\ caret' = caret - 1 /\ dismissed' = FALSE
    /\ UNCHANGED <<value, focused, pending, list, dialog, outcome>>

Navigate(k) ==
    /\ k \in {"ArrowDown", "ArrowUp"}
    /\ dismissed' = FALSE
    /\ IF k = "ArrowDown"
       THEN open' = TRUE /\ index' = IF index < Len(Candidates) THEN index + 1 ELSE Len(Candidates)
       ELSE index' = (IF index > 2 THEN index - 1 ELSE 1) /\ UNCHANGED open
    /\ UNCHANGED <<field, token, context, dialog, outcome>>

Enter(k) == k = "Enter" /\ Candidates # << >> /\ Commit(Candidates[Highlighted])

\* The dialog hears of it too.
Escape(k) ==
    /\ k = "Escape"
    /\ Close
    /\ dismissed' = TRUE
    /\ dialog' = FALSE
    /\ UNCHANGED <<field, outcome>>

Present == InDialog => dialog

Press(k) ==
    /\ Act /\ Present /\ focused /\ held = None
    /\ Type(k) \/ Erase(k) \/ MoveLeft(k) \/ Navigate(k) \/ Enter(k) \/ Escape(k)
    /\ held' = k

\* A mutant: the caret's keys are not listened to.
ReleaseArrows ==
    /\ Present /\ held # None
    /\ IF held \in {"ArrowDown", "ArrowUp", "ArrowLeft"} THEN UNCHANGED list ELSE Suggest(value, caret)
    /\ held' = None
    /\ UNCHANGED <<field, dialog, outcome, dismissed, keys, others>>

Release ==
    /\ Present /\ held # None
    /\ IF held \in {"ArrowDown", "ArrowUp"} THEN UNCHANGED list ELSE Suggest(value, caret)
    /\ held' = None
    /\ UNCHANGED <<field, dialog, outcome, dismissed, keys, others>>

TabInto ==
    /\ Act /\ Present /\ ~focused /\ held = None
    /\ focused' = TRUE /\ caret' = Len(value) /\ held' = "Tab"
    /\ dismissed' = FALSE
    /\ UNCHANGED <<value, pending, list, dialog, outcome>>

Click(at) ==
    /\ Act /\ Present /\ held = None
    /\ focused' = TRUE /\ caret' = at
    /\ Suggest(value, at)
    /\ dismissed' = FALSE
    /\ UNCHANGED <<value, pending, held, dialog, outcome>>

ClickOption(i) == /\ Act /\ Present /\ held = None /\ Rendered
                  /\ Commit(Candidates[i])
                  /\ UNCHANGED held

\* A click outside, or the focus moves on.
Blur ==
    /\ Act /\ Present /\ focused /\ held = None
    /\ focused' = FALSE
    /\ Close
    /\ dismissed' = FALSE
    /\ UNCHANGED <<value, caret, pending, held, dialog, outcome>>

\* The value is another: what is offered stays as it was.
ChangedElsewhere(text) ==
    /\ others < MaxOthers /\ others' = others + 1
    /\ text # value /\ value' = text
    /\ IF pending = None THEN caret' = Len(text) /\ UNCHANGED focused
       ELSE caret' = (IF pending < Len(text) THEN pending ELSE Len(text)) /\ focused' = TRUE
    /\ pending' = None
    /\ UNCHANGED <<list, held, dialog, outcome, dismissed, keys>>

Next ==
    \/ \E k \in Key : Press(k)
    \/ Release \/ TabInto \/ Blur
    \/ \E at \in 0 .. Len(value) : Click(at)
    \/ \E i \in 1 .. Len(Candidates) : ClickOption(i)
    \/ \E text \in {<< >>, << "{" >> \o Known[1]} : ChangedElsewhere(text)

Spec == Init /\ [][Next]_vars

-----------------------------------------------------------------------------
(* Type invariant. *)
TypeOK ==
    /\ caret \in 0 .. Len(value)
    /\ {focused, open, dialog, dismissed} \subseteq BOOLEAN
    /\ token \in [start : Nat, end : Nat, text : Seq(Letter)] \cup {None}
    /\ index \in Nat /\ pending \in Nat \cup {None}
    /\ held \in Key \cup {None}

(* What is offered is for where the caret is, once the key that moved it is     *)
(* released.  (Not so when the value changes elsewhere.)                        *)
ListIsForTheCaret ==
    Rendered /\ held = None => context = Context(value, caret) /\ token = TokenAt(value, caret)

(* A candidate that is chosen takes the place of the word around the caret, all *)
(* of it, and of nothing else.  (Not so when the value changes elsewhere.)      *)
ChosenReplacesTheWord == outcome.is = outcome.should

(* A list that was closed by choosing from it, or by Escape, stays closed until *)
(* the author goes on.  (Not so: the release of the key opens it again.)        *)
DismissedStaysClosed == dismissed => ~Rendered

(* Escape with the list open closes the list, and not the dialog it is in.      *)
(* (Not so: the dialog hears the key too.)                                      *)
EscapeClosesTheListOnly == [][ Rendered => dialog' = dialog ]_vars

(* A value that changes elsewhere does not take the focus.  (Not so after a     *)
(* candidate was chosen that changed nothing.)                                  *)
FocusIsNotTaken == [][ others' # others => focused' = focused ]_vars

=============================================================================
