------------------------------ MODULE Conditions ------------------------------
(***************************************************************************)
(* The condition of a row's action: the editor of the builder builds an    *)
(* expression, saving writes it as text, the builder reads that text back  *)
(* (conditionExpression.ts) and the app reads it with another parser       *)
(* (interpreter.swift).                                                    *)
(*                                                                         *)
(* Text is a sequence of tokens.  An operand is a word or "" (a field not  *)
(* filled in yet, which leaves no token); the six comparisons are one.     *)
(***************************************************************************)
EXTENDS Naturals, SequencesExt

CONSTANTS
    Operand,     \* the words an author may choose on either side
    Written,     \* the conditions that may be stored to begin with
    MaxEdits,    \* bound: edits of the author
    None         \* no expression

Operator == {"==", "&&", "||", "(", ")"}

ConditionsAssumption ==
    /\ Operand \cap (Operator \cup {"", "true", "false"}) = {}
    /\ \A w \in Written : w \in Seq(Operand \cup Operator \cup {"true", "false"})

VARIABLES
    stored,      \* the text in the row
    expression,  \* what the open editor shows
    editing,     \* is the editor open
    meant,       \* what the editor showed when it saved; None before
    edits

vars == <<stored, expression, editing, meant, edits>>

Leaf(left, right)     == [type |-> "leaf", left |-> left, right |-> right]
Boolean(value)        == [type |-> "boolean", value |-> value]
Group(op, children)   == [type |-> "group", op |-> op, children |-> children]
EmptyLeaf             == Leaf("", "")
Other(op)             == IF op = "&&" THEN "||" ELSE "&&"

EnsureGroup(e) ==
    CASE e = None                       -> Group("||", << >>)
      [] e # None /\ e.type = "group" -> e
      [] OTHER                          -> Group("||", << e >>)

\* The part of e at a path: the indexes of the nested groups on the way there.
Sub(e, path) == FoldLeft(LAMBDA x, i : EnsureGroup(x).children[i], e, path)

-----------------------------------------------------------------------------
(* serializeCondition: a group is put in parentheses inside one of the other *)
(* operator only.                                                            *)

\* A mutant: no parentheses around the group that needs them.
ParenthesisedUnderOr(group, child) ==
    child.type = "group" /\ child.op = "&&" /\ group.op = "||"

Parenthesised(group, child) == child.type = "group" /\ child.op # group.op

Word(operand) == IF operand = "" THEN << >> ELSE << operand >>

Serialize(e) ==
    LET text[path \in Seq(Nat)] ==
            LET part == Sub(e, path)
            IN  CASE part.type = "boolean" -> << IF part.value THEN "true" ELSE "false" >>
                  [] part.type = "leaf"    -> Word(part.left) \o << "==" >> \o Word(part.right)
                  [] part.type = "group"   ->
                        FoldLeft(LAMBDA before, i :
                            before \o (IF before = << >> THEN << >> ELSE << part.op >>)
                                   \o (IF Parenthesised(part, part.children[i])
                                       THEN << "(" >> \o text[Append(path, i)] \o << ")" >>
                                       ELSE text[Append(path, i)]),
                            << >>, [i \in DOMAIN part.children |-> i])
    IN  text[<< >>]

Text(e) == IF e = None THEN << >> ELSE Serialize(e)

-----------------------------------------------------------------------------
(* parseCondition of the builder.  Each returns what it read and the         *)
(* position of the cursor; what follows a part it cannot read is not read.   *)

Read(e, pos) == [e |-> e, pos |-> pos]
At(text, pos) == IF pos <= Len(text) THEN text[pos] ELSE "end"
IsWord(token) == token \notin Operator \cup {"end"}

ReadComparison(text, pos) ==
    IF ~IsWord(At(text, pos)) THEN Read(None, pos)
    ELSE IF At(text, pos + 1) # "==" THEN Read(None, pos + 1)
    ELSE IF ~IsWord(At(text, pos + 2)) THEN Read(None, pos + 2)
    ELSE Read(Leaf(text[pos], text[pos + 2]), pos + 3)

\* A mutant: a boolean word is a boolean wherever it stands.
IsBooleanAnywhere(text, pos) == At(text, pos) \in {"true", "false"}

IsBoolean(text, pos) == At(text, pos) \in {"true", "false"} /\ At(text, pos + 1) # "=="

Whole(op, children) ==
    CASE Len(children) = 0 -> None
      [] Len(children) = 1 -> children[1]
      [] Len(children) > 1 -> Group(op, children)

\* parseOrExpression and parseAndExpression read children separated by op;
\* parsePrimary, one of them, after a parenthesis all of an or.
ParseCondition(text) ==
    LET read[q \in {"||", "&&", "("} \X Nat] ==
            LET op    == q[1]
                pos   == q[2]
                and   == read[<<"&&", pos>>]
                inner == read[<<"||", pos + 1>>]
                next  == IF op = "||" THEN Read(Whole("&&", and.e), and.pos) ELSE read[<<"(", pos>>]
                rest  == read[<<op, next.pos + 1>>]
            IN  IF op # "("
                THEN CASE next.e = None -> Read(<< >>, next.pos)
                       [] next.e # None /\ At(text, next.pos) = op ->
                            Read(<< next.e >> \o rest.e, rest.pos)
                       [] OTHER -> Read(<< next.e >>, next.pos)
                ELSE CASE At(text, pos) = "(" ->
                            Read(Whole("||", inner.e),
                                 IF At(text, inner.pos) = ")" THEN inner.pos + 1 ELSE inner.pos)
                       [] IsBoolean(text, pos) -> Read(Boolean(text[pos] = "true"), pos + 1)
                       [] OTHER -> ReadComparison(text, pos)
    IN  Whole("||", read[<<"||", 1>>].e)

-----------------------------------------------------------------------------
(* _evaluateBooleanExpression of the app, which splits the text where no      *)
(* parenthesis is open.  `holds` is the set of comparisons that are true; the *)
(* result is "true", "false", or "throws" on text it cannot read.             *)

Depth(text, i) ==
    FoldLeft(LAMBDA d, t : CASE t = "(" -> d + 1 [] t = ")" /\ d > 0 -> d - 1 [] OTHER -> d,
             0, SubSeq(text, 1, i))

TopLevel(text, token) == {i \in 1 .. Len(text) : text[i] = token /\ Depth(text, i) = 0}

Before(text, i) == SubSeq(text, 1, i - 1)
After(text, i)  == SubSeq(text, i + 1, Len(text))
First(S)        == CHOOSE i \in S : \A j \in S : i <= j

IsWrapped(text) ==
    /\ Len(text) > 1 /\ text[1] = "(" /\ Last(text) = ")"
    /\ \A i \in 1 .. Len(text) - 1 : Depth(text, i) > 0

Evaluate(whole, holds) ==
    LET value[text \in Seq(STRING)] ==
            LET ors   == TopLevel(text, "||")
                ands  == TopLevel(text, "&&")
                equal == TopLevel(text, "==")
                \* The terms are tried in order, and `decides` ends the search.
                Decided(at, decides) ==
                    LET first == value[Before(text, First(at))]
                    IN  IF first \in {decides, "throws"} THEN first
                        ELSE value[After(text, First(at))]
            IN  CASE ors # {}  -> Decided(ors, "true")
                  [] ors = {} /\ ands # {} -> Decided(ands, "false")
                  [] ors \cup ands = {} ->
                        IF IsWrapped(text) THEN value[SubSeq(text, 2, Len(text) - 1)]
                        ELSE IF text \in {<< "true" >>, << "false" >>} THEN text[1]
                        ELSE IF equal = {} \/ First(equal) \in {1, Len(text)} THEN "throws"
                        ELSE IF <<Before(text, First(equal)), After(text, First(equal))>> \in holds
                             THEN "true" ELSE "false"
    IN  value[whole]

\* EVYActionRunner.run: no condition holds.
AppHolds(text, holds) == IF text = << >> THEN "true" ELSE Evaluate(text, holds)

-----------------------------------------------------------------------------
(* The editor.                                                               *)

NormalizeExpression(group) ==
    CASE Len(group.children) = 0 -> None
      [] Len(group.children) = 1 -> group.children[1]
      [] OTHER                   -> group

\* onChange of the editor at `path`, and handleNestedGroupChange above it.
Put(e, path, new) ==
    LET put[n \in 0 .. Len(path)] ==
            IF n = Len(path) THEN new
            ELSE LET i == path[n + 1]
                 IN  NormalizeExpression([EnsureGroup(Sub(e, SubSeq(path, 1, n))) EXCEPT !.children =
                         IF put[n + 1] = None THEN RemoveAt(@, i) ELSE [@ EXCEPT ![i] = put[n + 1]]])
    IN  put[0]

Paths(e) ==
    LET below[path \in Seq(Nat)] ==
            LET children == EnsureGroup(Sub(e, path)).children
            IN  {path} \cup UNION {below[Append(path, i)] :
                    i \in {j \in DOMAIN children : children[j].type = "group"}}
    IN  below[<< >>]

\* The author changes the group at a path into `changed`.
Edit(path, changed) ==
    /\ editing /\ edits < MaxEdits
    /\ edits' = edits + 1
    /\ expression' = Put(expression, path, NormalizeExpression(changed))
    /\ UNCHANGED <<stored, editing, meant>>

GroupAt(path) == EnsureGroup(Sub(expression, path))
Child(path)   == GroupAt(path).children

ToggleLogical(path) ==
    /\ Child(path) # << >>
    /\ Edit(path, [GroupAt(path) EXCEPT !.op = Other(@)])

\* A comparison is added once its two sides are chosen.
CompletePlaceholder(path, leaf) ==
    Edit(path, [GroupAt(path) EXCEPT !.children = Append(@, leaf)])

ChangeLeaf(path, i, side, word) ==
    /\ Child(path)[i].type = "leaf"
    /\ Edit(path, [GroupAt(path) EXCEPT !.children[i] =
                      IF side = "left" THEN Leaf(word, @.right) ELSE Leaf(@.left, word)])

ChangeBoolean(path, i) ==
    /\ Child(path)[i].type = "boolean"
    /\ Edit(path, [GroupAt(path) EXCEPT !.children[i].value = ~@])

RemoveCondition(path, i) ==
    /\ Child(path)[i].type # "group"
    /\ Edit(path, [GroupAt(path) EXCEPT !.children = RemoveAt(@, i)])

AddNestedGroup(path, i) ==
    /\ Child(path)[i].type = "leaf"
    /\ Edit(path, [GroupAt(path) EXCEPT
                      !.children[i] = Group(Other(GroupAt(path).op), << @, EmptyLeaf >>)])

-----------------------------------------------------------------------------
Open ==
    /\ ~editing
    /\ editing' = TRUE
    /\ expression' = ParseCondition(stored)
    /\ UNCHANGED <<stored, meant, edits>>

Cancel ==
    /\ editing
    /\ editing' = FALSE
    /\ expression' = None
    /\ UNCHANGED <<stored, meant, edits>>

Save ==
    /\ editing
    /\ editing' = FALSE
    /\ stored' = Text(expression)
    /\ meant' = expression
    /\ expression' = None
    /\ UNCHANGED edits

Init ==
    /\ stored \in Written
    /\ editing = FALSE
    /\ expression = None /\ meant = None
    /\ edits = 0

EditSome ==
    \E path \in Paths(expression) :
        \/ ToggleLogical(path)
        \/ \E left, right \in Operand : CompletePlaceholder(path, Leaf(left, right))
        \/ \E i \in DOMAIN Child(path) :
              \/ \E word \in Operand, side \in {"left", "right"} : ChangeLeaf(path, i, side, word)
              \/ ChangeBoolean(path, i)
              \/ RemoveCondition(path, i)
              \/ AddNestedGroup(path, i)

Next == Open \/ Cancel \/ Save \/ (editing /\ EditSome)

Spec == Init /\ [][Next]_vars

-----------------------------------------------------------------------------
(* What an expression means where `holds` is the set of true comparisons      *)
(* (evaluateConditionExpression).                                             *)

Meaning(e, holds) ==
    LET true[path \in Seq(Nat)] ==
            LET part == Sub(e, path)
            IN  CASE part.type = "boolean" -> part.value
                  [] part.type = "leaf"    -> <<Word(part.left), Word(part.right)>> \in holds
                  [] part.type = "group" /\ part.op = "&&" ->
                        \A i \in DOMAIN part.children : true[Append(path, i)]
                  [] part.type = "group" /\ part.op = "||" ->
                        \E i \in DOMAIN part.children : true[Append(path, i)]
    IN  true[<< >>]

Verdict(e, holds) == IF e = None \/ Meaning(e, holds) THEN "true" ELSE "false"

Complete(e) ==
    LET complete[path \in Seq(Nat)] ==
            LET part == Sub(e, path)
            IN  CASE part.type = "leaf"    -> part.left # "" /\ part.right # ""
                  [] part.type = "boolean" -> TRUE
                  [] part.type = "group"   ->
                        \A i \in DOMAIN part.children : complete[Append(path, i)]
    IN  complete[<< >>]

Worlds == SUBSET {<<Word(l), Word(r)>> : l, r \in Operand}

\* What was saved is what the author saw: the builder reads it back to an
\* expression of the same meaning and the app acts on it in the same cases,
\* whatever parentheses were written or left out (conditionExpression.ts,
\* interpreter.swift).  Of a comparison with an empty side nothing is promised.
SavedIsWhatWasMeant ==
    (~editing /\ meant # None /\ Complete(meant)) =>
        \A holds \in Worlds :
            /\ Verdict(ParseCondition(stored), holds) = Verdict(meant, holds)
            /\ AppHolds(stored, holds) = Verdict(meant, holds)

\* Opening an action and saving it without an edit leaves what the app does as
\* it was (ActionPopup.tsx), whoever wrote the condition.
OpeningChangesNothing ==
    (~editing /\ meant = None /\ edits = 0) =>
        \A holds \in Worlds :
            AppHolds(Text(ParseCondition(stored)), holds) = AppHolds(stored, holds)

=============================================================================
