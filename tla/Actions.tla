------------------------------- MODULE Actions -------------------------------
(***************************************************************************)
(* The actions of a row: the list (ActionEditor), the popup that edits one *)
(* of them (ActionPopup, BranchEditor), what saving makes of it            *)
(* (actionBranch.ts, actionAst.ts) and what the app reads in the text      *)
(* (EVYActionParser.swift) and runs (EVYActionRunner.swift).               *)
(*                                                                         *)
(* The text of a branch is the call it splits into; None is the empty      *)
(* text.  Arguments are words of Text, told apart by how they are read.    *)
(* The condition of an action is the subject of Conditions.                *)
(***************************************************************************)
EXTENDS Naturals, SequencesExt

CONSTANTS
    Resource,    \* references of resources
    Stored,      \* the lists of actions that may be stored to begin with
    HasSheet,    \* has the row a sheet
    Careful,     \* does the author leave no gap, and keep to functions that stay chosen
    MaxActions,  \* bound: actions of the row
    MaxEdits,    \* bound: edits in the popup
    MaxOthers,   \* bound: changes another builder makes
    None         \* no text, no popup, no declaration

ZeroArg   == {"close"}   \* and the three photo functions, which are read alike
RowTarget == {"show", "expand_text"}
OneText   == {"highlight_required", "select", "copy_to_clipboard"}
Function  == ZeroArg \cup RowTarget \cup OneText \cup {"clear", "navigate", "create", "update"}

\* Maps, braces around something that is no map, a text with a comma outside of
\* quotes and brackets, and plain words.
Object == {"{}", "{key: value}"}
Braced == Object \cup {"{path}"}
Text   == Resource \cup Braced \cup {"id", "path", "a, b", "submit", "draft"}

Call(fn, args) == [fn |-> fn, args |-> args]
Arg(args, i)   == IF i <= Len(args) THEN args[i] ELSE ""

Side   == {"true", "false"}
Branch == [fn : Function, args : Seq(Text)] \cup {None}

ActionsAssumption ==
    /\ \A list \in Stored : list \in Seq([Side -> Branch])
    /\ Resource \cap {"{}", "{key: value}", "{path}", "id", "path", "a, b", "submit", "draft"} = {}
    /\ {HasSheet, Careful} \subseteq BOOLEAN
    /\ {MaxActions, MaxEdits, MaxOthers} \subseteq Nat

VARIABLES
    actions,     \* the stored list: a branch for each side
    editing,     \* editingIndex; 0 is null
    popup,       \* the branches of the open popup
    opened,      \* the action it was opened on
    fields,      \* what the author chose and typed there, field by field
    meant,       \* what the stored actions were meant to do
    submits,     \* the resource the flow declares it submits
    edits, others

vars == <<actions, editing, popup, opened, fields, meant, submits, edits, others>>

-----------------------------------------------------------------------------
(* Writing a call as text and reading it: empty arguments leave no argument,  *)
(* and a comma at the top makes two.                                         *)

Split(args) ==
    FoldLeft(LAMBDA read, a : CASE a = ""     -> read
                                [] a = "a, b" -> read \o << "path", "path" >>
                                [] OTHER      -> Append(read, a),
             << >>, args)

Serialize(fn, args) ==
    IF fn \in RowTarget THEN IF Arg(args, 1) = "" THEN None ELSE Call(fn, << args[1] >>)
    ELSE Call(fn, IF fn \in ZeroArg THEN << >> ELSE Split(args))

(* parseActionExpression: the calls the builder and the server refuse.       *)

CreateRefused(args) ==
    \/ Len(args) < 2
    \/ args[1] \notin Resource
    \/ args[2] = "submit" /\ Len(args) # 2
    \/ args[2] \in Braced \ Object
    \/ Len(args) > 3

UpdateRefused(args) ==
    \/ Len(args) \notin {3, 4}
    \/ args[1] \notin Resource
    \/ Len(args) = 4 /\ args[4] # "draft"
    \/ args[2] \notin Object
    \/ (Len(args) = 4) # (args[2] = "{}")
    \/ args[3] \in (Braced \ Object) \cup {"{}"}

NavigateRefused(args) == Len(args) \notin {2, 3} \/ (Len(args) = 3 /\ args[3] \notin Object)

Refused(call) ==
    LET args == call.args IN
    CASE call.fn \in ZeroArg             -> args # << >>
      [] call.fn \in RowTarget \cup OneText -> Len(args) # 1
      [] call.fn = "clear"               -> Len(args) # 1 \/ args[1] \in Resource
      [] call.fn = "navigate"            -> NavigateRefused(args)
      [] call.fn = "create"              -> CreateRefused(args)
      [] call.fn = "update"              -> UpdateRefused(args)

(* finalizeBranchForSave: a create without data submits the draft of the flow *)
(* where the flow declares it submits that resource, and cannot be saved      *)
(* where it does not.                                                         *)

HasInlineData(args) == Arg(args, 2) \notin {"", "submit"}
OffersSubmit(args)  == Arg(args, 1) # "" /\ Arg(args, 1) = submits

CreateMode(args) ==
    CASE HasInlineData(args) -> args
      [] OffersSubmit(args)  -> << args[1], "submit" >>
      [] OTHER               -> << args[1] >>

IsCreate(branch) == branch # None /\ branch.fn = "create" /\ Arg(branch.args, 1) # ""

Finalized(branch) ==
    IF ~IsCreate(branch) THEN branch
    ELSE Serialize("create", CreateMode(branch.args))

Savable(branch) ==
    IsCreate(branch) =>
        LET args == CreateMode(branch.args)
        IN  HasInlineData(args) \/ (OffersSubmit(args) /\ Arg(args, 2) = "submit")

\* branchForStorage throws on a branch the parser refuses, and nothing is saved.
StorableAnyway(branch) == TRUE
Storable(branch)       == branch # None => ~Refused(branch)

-----------------------------------------------------------------------------
(* EVYActionParser of the app: the calls it accepts.                         *)

AppAccepts(call) ==
    LET args == call.args
        n    == Len(args)
        isObjectOrPath(a) == a \in Object \/ a \notin Braced
    IN  \/ call.fn \in ZeroArg /\ n = 0
        \/ call.fn \in RowTarget \cup OneText /\ n = 1
        \/ call.fn = "clear" /\ n = 1 /\ args[1] \notin Resource
        \/ call.fn = "navigate" /\ (n = 2 \/ (n = 3 /\ args[3] \in Object))
        \/ /\ call.fn = "create" /\ n \in 2 .. 3 /\ args[1] \in Resource
           /\ IF args[2] = "submit" THEN n = 2 ELSE isObjectOrPath(args[2])
        \/ /\ call.fn = "update" /\ n \in 3 .. 4 /\ args[1] \in Resource
           /\ isObjectOrPath(args[3]) /\ args[3] # "{}"
           /\ IF n = 4 THEN args[2] = "{}" /\ args[4] = "draft"
                       ELSE args[2] \in Object \ {"{}"}

Creation(resource, data, into)    == [op |-> "create", resource |-> resource, data |-> data, into |-> into]
Submission(resource)              == [op |-> "submit", resource |-> resource]
Change(resource, filter, changes) == [op |-> "update", resource |-> resource, filter |-> filter, changes |-> changes]
DraftChange(resource, changes)    == [op |-> "draft", resource |-> resource, changes |-> changes]

\* What EVYActionRunner does on a branch; "error" where the text cannot be read.
AppRuns(branch) ==
    IF branch = None THEN None
    ELSE IF ~AppAccepts(branch) THEN [op |-> "error"]
    ELSE LET args == branch.args IN
         CASE branch.fn = "create" /\ args[2] = "submit" -> Submission(args[1])
           [] branch.fn = "create" /\ args[2] # "submit" -> Creation(args[1], args[2], Arg(args, 3))
           [] branch.fn = "update" /\ Len(args) = 3 -> Change(args[1], args[2], args[3])
           [] branch.fn = "update" /\ Len(args) = 4 -> DraftChange(args[1], args[3])
           [] OTHER -> [op |-> branch.fn, of |-> args]

\* What the labels of the popup say of the fields an author filled.
Meaning(f) ==
    LET args == f.args IN
    CASE f.fn = "" -> None
      [] f.fn = "create" /\ OffersSubmit(args) /\ ~HasInlineData(args) -> Submission(args[1])
      [] f.fn = "create" /\ ~(OffersSubmit(args) /\ ~HasInlineData(args)) ->
            Creation(Arg(args, 1), Arg(args, 2), Arg(args, 3))
      [] f.fn = "update" /\ Arg(args, 4) # "draft" -> Change(Arg(args, 1), Arg(args, 2), Arg(args, 3))
      [] f.fn = "update" /\ Arg(args, 4) = "draft" -> DraftChange(args[1], args[3])
      [] OTHER -> [op |-> f.fn, of |-> SelectSeq(args, LAMBDA a : a # "")]

-----------------------------------------------------------------------------
(* The popup.                                                                *)

\* The hint that a create submits the flow's draft takes the place of its data.
Hinted(branch) ==
    branch # None /\ branch.fn = "create" /\ OffersSubmit(branch.args) /\ ~HasInlineData(branch.args)

\* The fields BranchEditor shows for a branch.
Shown(branch) ==
    LET has(i)  == Arg(branch.args, i) # ""
        isDraft == Arg(branch.args, 4) = "draft"
    IN  CASE branch = None -> {}
          [] branch.fn = "navigate" -> {1} \cup {i \in 2 .. 3 : \A j \in 1 .. i - 1 : has(j)}
          [] branch.fn = "create"   -> {1} \cup IF has(1) /\ ~Hinted(branch) THEN {2, 3} ELSE {}
          [] branch.fn = "update"   -> {1} \cup IF ~has(1) THEN {} ELSE IF isDraft THEN {3} ELSE {2, 3}
          [] branch.fn = "highlight_required" -> {1} \cup IF has(1) THEN {2} ELSE {}
          [] branch.fn \in RowTarget \cup {"clear", "select", "copy_to_clipboard"} -> {1}
          [] branch.fn \in ZeroArg  -> {}

\* What each of them takes: one of a list, or a text.
Takes(fn, i) ==
    CASE fn \in RowTarget \/ (fn = "navigate" /\ i < 3) -> {"id"}
      [] fn = "navigate" /\ i = 3                 -> {"", "{key: value}"}
      [] fn \in {"create", "update"} /\ i = 1     -> Resource
      [] fn \in {"create", "update"} /\ i > 1     -> {"", "path", "{path}", "{key: value}"}
      [] fn \in {"clear", "highlight_required"}   -> {"path"}
      [] fn \in {"select", "copy_to_clipboard"}   -> {"path", "a, b"}

With(args, i, value) ==
    [j \in 1 .. (IF i > Len(args) THEN i ELSE Len(args)) |-> IF j = i THEN value ELSE Arg(args, j)]

\* The fields of a branch as it is stored.
Filled(branch) == IF branch = None THEN Call("", << >>) ELSE branch

\* What the stored actions submit.
SubmitTargets ==
    LET calls == {actions[i][s] : i \in 1 .. Len(actions), s \in Side} \ {None}
    IN  {call.args[1] : call \in {c \in calls : AppRuns(c).op = "submit"}}

Init ==
    /\ actions \in Stored
    /\ editing = 0
    /\ popup = None /\ opened = None /\ fields = None
    /\ meant = [i \in 1 .. Len(actions) |-> [s \in Side |-> AppRuns(actions[i][s])]]
    /\ submits \in Resource \cup {None}
    /\ SubmitTargets \subseteq {submits}
    /\ edits = 0
    /\ others = 0

\* The popup shows the action at `at`, where there is one.  It takes the
\* branches when it appears and keeps its own from then on.
Show(list, at) ==
    /\ editing' = at
    /\ IF at \notin 1 .. Len(list)
       THEN popup' = None /\ opened' = None /\ fields' = None
       ELSE IF popup # None THEN UNCHANGED <<popup, opened, fields>>
       ELSE /\ popup' = list[at] /\ opened' = list[at]
            /\ fields' = [s \in Side |-> Filled(list[at][s])]

Open(i) ==
    /\ popup = None
    /\ Show(actions, i)
    /\ UNCHANGED <<actions, meant, submits, edits, others>>

Blank == [s \in Side |-> None]

Add ==
    /\ popup = None
    /\ Len(actions) < MaxActions
    /\ actions' = Append(actions, Blank)
    /\ meant' = Append(meant, Blank)
    /\ Show(actions', Len(actions) + 1)
    /\ UNCHANGED <<submits, edits, others>>

RemoveAction(i) ==
    /\ popup = None
    /\ actions' = RemoveAt(actions, i)
    /\ meant' = RemoveAt(meant, i)
    /\ Show(actions', editing)
    /\ UNCHANGED <<submits, edits, others>>

Filling(side, branch, put) ==
    /\ edits < MaxEdits
    /\ edits' = edits + 1
    /\ popup' = [popup EXCEPT ![side] = branch]
    /\ fields' = [fields EXCEPT ![side] = put]
    /\ UNCHANGED <<actions, editing, opened, meant, submits, others>>

\* Choosing a function empties its fields, but for two that have a default.
ChooseFunction(side, fn) ==
    LET args == CASE fn = "show" /\ HasSheet -> << "id" >>
                  [] fn = "select"           -> << "path" >>
                  [] OTHER                   -> << >>
    IN  /\ popup # None
        /\ Careful => Serialize(fn, args) # None
        /\ Filling(side, Serialize(fn, args), Call(fn, args))

ChooseNone(side) == popup # None /\ Filling(side, None, Call("", << >>))

\* A gap: a field left empty before one that is filled.
HasGap(args) == \E i \in 1 .. Len(args) : args[i] = "" /\ \E j \in i + 1 .. Len(args) : args[j] # ""

SetArguments(side, args, put) ==
    /\ Careful => ~HasGap(args)
    /\ Filling(side, Serialize(popup[side].fn, args), Call(popup[side].fn, put))

\* handleArgChange: the field's text takes its place among those read back.
SetField(side, i, value) ==
    /\ popup # None
    /\ popup[side] # None
    /\ i \in Shown(popup[side])
    /\ value \in Takes(popup[side].fn, i)
    /\ SetArguments(side, With(popup[side].args, i, value), With(fields[side].args, i, value))

\* The mode of an update: into the draft, or of the records that match.
Moded(args, mode) ==
    IF mode = "draft" THEN With(With(args, 2, "{}"), 4, "draft") ELSE With(With(args, 2, ""), 4, "")

SetMode(side, mode) ==
    /\ popup # None
    /\ popup[side] # None
    /\ popup[side].fn = "update" /\ Arg(popup[side].args, 1) # ""
    /\ SetArguments(side, Moded(popup[side].args, mode), Moded(fields[side].args, mode))

Close == editing' = 0 /\ popup' = None /\ opened' = None /\ fields' = None

Save ==
    /\ popup # None
    /\ \A s \in Side : Savable(popup[s]) /\ Storable(Finalized(popup[s]))
    /\ actions' = [actions EXCEPT ![editing] = [s \in Side |-> Finalized(popup[s])]]
    /\ meant' = [meant EXCEPT ![editing] = [s \in Side |-> Meaning(fields[s])]]
    /\ Close
    /\ UNCHANGED <<submits, edits, others>>

Cancel ==
    /\ popup # None
    /\ Close
    /\ UNCHANGED <<actions, meant, submits, edits, others>>

(* The settings of the flow, from the header or from the hint in the popup.   *)

MayDeclareAnything(resource) == TRUE
MayDeclare(resource)         == SubmitTargets \subseteq {resource}

Declare(resource) ==
    /\ MayDeclare(resource)
    /\ popup # None => \E s \in Side : Hinted(popup[s])
    /\ submits # resource
    /\ submits' = resource
    /\ UNCHANGED <<actions, editing, popup, opened, fields, meant, edits, others>>

(* Another builder's change arrives while this one looks at the row.          *)

Other == others < MaxOthers /\ others' = others + 1 /\ UNCHANGED edits

OthersAdd ==
    /\ Other
    /\ Len(actions) < MaxActions
    /\ actions' = Append(actions, Blank)
    /\ meant' = Append(meant, Blank)
    /\ Show(actions', editing)
    /\ UNCHANGED submits

OthersRemove(i) ==
    /\ Other
    /\ actions' = RemoveAt(actions, i)
    /\ meant' = RemoveAt(meant, i)
    /\ Show(actions', editing)
    /\ UNCHANGED submits

OthersDeclare(resource) ==
    /\ Other
    /\ submits' = resource
    /\ UNCHANGED <<actions, editing, popup, opened, fields, meant>>

Next ==
    \/ \E i \in 1 .. Len(actions) : Open(i) \/ RemoveAction(i) \/ OthersRemove(i)
    \/ Add \/ OthersAdd \/ Save \/ Cancel
    \/ \E s \in Side :
          \/ ChooseNone(s)
          \/ \E fn \in Function : ChooseFunction(s, fn)
          \/ \E i \in 1 .. 3, value \in Text \cup {""} : SetField(s, i, value)
          \/ \E mode \in {"store", "draft"} : SetMode(s, mode)
    \/ \E r \in Resource \cup {None} : Declare(r) \/ OthersDeclare(r)

Spec == Init /\ [][Next]_vars

-----------------------------------------------------------------------------
(* Type invariant. *)
TypeOK ==
    /\ actions \in Seq([Side -> Branch]) /\ Len(meant) = Len(actions)
    /\ editing \in 0 .. MaxActions
    /\ popup \in [Side -> Branch] \cup {None}
    /\ submits \in Resource \cup {None}
    /\ edits \in 0 .. MaxEdits /\ others \in 0 .. MaxOthers

(* What the app does on an action is what the fields the author filled say,    *)
(* and no stored action is one the app cannot read.                            *)
SavedIsWhatWasMeant ==
    \A i \in 1 .. Len(actions), s \in Side : AppRuns(actions[i][s]) = meant[i][s]

(* A flow submits what it declares: the client refuses to save a graph where   *)
(* they differ (assertFlatFlowGraphSubmits), and refuses everything with it.   *)
SubmitsAreDeclared == SubmitTargets \subseteq {submits}

(* The popup shows what the author put in it.  (Not so where fields are filled *)
(* in another order, or for a function that takes a row and has no default.)   *)
ShowsWhatWasPut ==
    popup # None =>
        \A s \in Side :
            /\ ~HasGap(fields[s].args)
            /\ Filled(popup[s]) = Call(fields[s].fn, SelectSeq(fields[s].args, LAMBDA a : a # ""))

(* A save replaces the action the popup was opened on.  (Not so where another   *)
(* builder removed one before it.)                                              *)
SavesOverWhatItOpened == [][Save => actions[editing] = opened]_vars

=============================================================================
