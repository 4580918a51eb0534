--------------------------------- MODULE MCWeb ---------------------------------
(* The builder's machines for TLC, one at a time: `part` chooses at the start  *)
(* which of them runs, and under which bounds.  They share no state.           *)
(* The saves are in MCBuilder, the canvas in MCCanvas, what is shown of it in  *)
(* MCSelection.                                                                *)
EXTENDS Naturals, Sequences, MCBuilder, MCCanvas, MCSelection

VARIABLES
    part,
    stored, expression, editing, meant, edits,
    branches, editingIndex, popup, opened, fields, intended, submits, fillings, others,
    text, caret, focused, pending, suggested, token, context, suggestion, held, dialog,
    outcome, dismissed, keys, rewrites,
    options, choice, unfolded, highlight, query, pointer, timer, focus, focusing, visited,
    marked, picked, acted, motions, relists

condition == <<stored, expression, editing, meant, edits>>
action  == <<branches, editingIndex, popup, opened, fields, intended, submits, fillings, others>>
field     == <<text, caret, focused, pending, suggested, token, context, suggestion, held,
               dialog, outcome, dismissed, keys, rewrites>>
menu      == <<options, choice, unfolded, highlight, query, pointer, timer, focus, focusing,
               visited, marked, picked, acted, motions, relists>>
vars    == <<part, builder, canvas, condition, action, selection, viewport, field, menu>>

\* The popup's conditions as people write them: none, one literal, a
\* comparison in parentheses it does not need, a literal that is compared, and
\* one that needs its parentheses; and one with parentheses in parentheses.
Written ==
    {<< >>, <<"true">>, <<"(", "a", "==", "b", ")">>, <<"true", "==", "a">>,
     <<"(", "a", "==", "b", "||", "b", "==", "b", ")", "&&", "a", "==", "a">>}

Nested == <<"a", "==", "b", "&&", "(", "b", "==", "b", "||",
            "(", "a", "==", "a", "&&", "false", ")", ")">>

Condition == INSTANCE Conditions WITH Operand <- {"a", "b"}, MaxEdits <- 3
Deep      == INSTANCE Conditions
    WITH Operand <- {"a", "b"}, Written <- {Nested}, MaxEdits <- 2

\* An action that submits, one that changes the draft, or none.
Only(call) == << [s \in {"true", "false"} |-> IF s = "true" THEN call ELSE None] >>
Submit     == [fn |-> "create", args |-> << "item", "submit" >>]
IntoDraft  == [fn |-> "update", args |-> << "item", "{}", "{key: value}", "draft" >>]

Action == INSTANCE Actions
    WITH Resource <- {"item", "order"}, Stored <- {<< >>, Only(Submit), Only(IntoDraft)},
         HasSheet <- TRUE, Careful <- TRUE, MaxActions <- 1, MaxEdits <- 4, MaxOthers <- 0,
         actions <- branches, editing <- editingIndex, meant <- intended, edits <- fillings

\* A field of the popup: what is known begins the same, and has attributes.
Suggesting == INSTANCE Choosing
    WITH Letter <- {"a", "b"}, Typed <- {"a", "b", "{", ".", " "},
         Known <- << <<"a", ".", "b">>, <<"a">> >>,
         Attributes <- [q \in {<<"a", ".", "b">>, <<"a">>} |->
                           IF q = <<"a">> THEN << <<"b">>, <<"b", "a">> >> ELSE << <<"a">> >>],
         MaxShown <- 2, InDialog <- TRUE, MaxLength <- 4, MaxKeys <- 6, MaxOthers <- 0,
         value <- text, open <- suggested, index <- suggestion, others <- rewrites

\* A menu that opens under the pointer, one that does not, and one that does and
\* whose options change; the last option makes something new.
Options  == << <<"x", "y", "new">>, <<"w", "x", "y", "new">>, <<"y", "new">> >>
Searched == << {"w", "y", "new"}, {"y"} >>

Hovered == INSTANCE Popover
    WITH Lists <- Options, Matching <- Searched, Act <- {"new"}, Hover <- TRUE,
         MaxSteps <- 7, MaxOthers <- 0,
         value <- choice, open <- unfolded, index <- highlight, steps <- motions, others <- relists

Clicked == INSTANCE Popover
    WITH Lists <- Options, Matching <- Searched, Act <- {"new"}, Hover <- FALSE,
         MaxSteps <- 7, MaxOthers <- 0,
         value <- choice, open <- unfolded, index <- highlight, steps <- motions, others <- relists

Relisted == INSTANCE Popover
    WITH Lists <- Options, Matching <- Searched, Act <- {"new"}, Hover <- TRUE,
         MaxSteps <- 5, MaxOthers <- 1,
         value <- choice, open <- unfolded, index <- highlight, steps <- motions, others <- relists

ASSUME Suggesting!ChoosingAssumption
ASSUME Hovered!PopoverAssumption /\ Clicked!PopoverAssumption /\ Relisted!PopoverAssumption
ASSUME Action!ActionsAssumption
ASSUME Condition!ConditionsAssumption /\ Deep!ConditionsAssumption

Init ==
    /\ part \in {"builder", "canvas", "condition", "deep", "action",
                 "selection", "viewport", "field", "hovered", "clicked",
                 "relisted"}
    /\ Built!Init /\ Canvas!Init /\ Action!Init /\ Chosen!Init
    /\ part # "builder" => setting = CHOOSE s \in Settings : TRUE
    /\ IF part = "deep" THEN Deep!Init ELSE Condition!Init
    /\ part \notin {"condition", "deep"} => stored = << >>
    /\ part # "action" => branches = << >> /\ submits = None
    /\ part # "selection" => selected = Chosen!Load(<< >>)
    /\ Camera!Init /\ Suggesting!Init /\ Hovered!Init
    /\ part # "viewport" => page = NoPage /\ flow = "f"
    /\ part \notin {"hovered", "clicked", "relisted"} => choice = "x"

\* What the machines that do not run keep.
OnlyBuilder   == UNCHANGED <<part, canvas, condition, action, selection, viewport, field, menu>>
OnlyCanvas    == UNCHANGED <<part, builder, condition, action, selection, viewport, field, menu>>
OnlyCondition == UNCHANGED <<part, builder, canvas, action, selection, viewport, field, menu>>
OnlyAction    == UNCHANGED <<part, builder, canvas, condition, selection, viewport, field, menu>>
OnlySelection == UNCHANGED <<part, builder, canvas, condition, action, viewport, field, menu>>
OnlyViewport  == UNCHANGED <<part, builder, canvas, condition, action, selection, field, menu>>
OnlyField     == UNCHANGED <<part, builder, canvas, condition, action, selection, viewport, menu>>
OnlyMenu      == UNCHANGED <<part, builder, canvas, condition, action, selection, viewport, field>>

BuiltNext      == part = "builder"   /\ Built!Next      /\ OnlyBuilder
CanvasNext     == part = "canvas"    /\ Canvas!Next     /\ OnlyCanvas
ConditionNext  == part = "condition" /\ Condition!Next  /\ OnlyCondition
DeepNext       == part = "deep"      /\ Deep!Next       /\ OnlyCondition
ActionNext     == part = "action"    /\ Action!Next     /\ OnlyAction
ChosenNext     == part = "selection" /\ Chosen!Next     /\ OnlySelection
CameraNext     == part = "viewport"  /\ Camera!Next     /\ OnlyViewport
SuggestingNext == part = "field"     /\ Suggesting!Next /\ OnlyField
HoveredNext    == part = "hovered"   /\ Hovered!Next    /\ OnlyMenu
ClickedNext    == part = "clicked"   /\ Clicked!Next    /\ OnlyMenu
RelistedNext   == part = "relisted"  /\ Relisted!Next   /\ OnlyMenu

Next == BuiltNext \/ CanvasNext \/ ConditionNext \/ DeepNext \/ ActionNext \/ ChosenNext
        \/ CameraNext \/ SuggestingNext \/ HoveredNext \/ ClickedNext \/ RelistedNext

Spec == Init /\ [][Next]_vars

-----------------------------------------------------------------------------
(* The properties of the parts, each in the parts it is about: see there. *)

EditedIsWhatWasMeant ==
    /\ part = "condition" => Condition!SavedIsWhatWasMeant /\ Condition!OpeningChangesNothing
    /\ part = "deep"      => Deep!SavedIsWhatWasMeant /\ Deep!OpeningChangesNothing
    /\ part = "action"    => Action!SavedIsWhatWasMeant /\ Action!SubmitsAreDeclared
    /\ part = "field"     => Suggesting!ListIsForTheCaret /\ Suggesting!ChosenReplacesTheWord
    /\ part = "hovered"   => Hovered!PointerDecides /\ Hovered!PicksWhatIsHighlighted
    /\ part = "clicked"   => Clicked!PicksWhatIsHighlighted
    /\ part = "relisted"  => Relisted!PointerDecides

=============================================================================
