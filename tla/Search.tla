-------------------------------- MODULE Search --------------------------------
(***************************************************************************)
(* The search field of the app over a service that answers when it wants   *)
(* (EVYSearch.swift, EVYSearchModel.swift).  Every change of the text      *)
(* cancels the task of the text before and starts another, which waits     *)
(* 300 ms and asks.  A cancelled task still runs to its end: cancelling    *)
(* only wakes its sleep, and it notices where the code looks.  Tasks are    *)
(* numbered; the main actor starts them in that order.                      *)
(***************************************************************************)
EXTENDS Naturals

CONSTANTS
    MaxTasks,    \* bound: tasks, one for each change of the text
    Text,        \* what may be typed
    Blank,       \* no text
    MaxFailures  \* bound: answers that are errors

SearchAssumption == Blank \notin Text /\ MaxTasks \in Nat \ {0}

Task == 1 .. MaxTasks

VARIABLES
    text,        \* the text in the field
    current,     \* the task of that text
    tasks,       \* task -> [at, query, cancelled]
    results,     \* the text whose results are shown; Blank when none are
    hasSearched,
    isSearching,
    failures

vars == <<text, current, tasks, results, hasSearched, isSearching, failures>>

\* "new" tasks were never started; "starting", "sleeping", "asking" and "done"
\* are where a task awaits.
Place == {"new", "starting", "sleeping", "asking", "done"}

Init ==
    /\ text = Blank
    /\ current = 1
    /\ tasks = [t \in Task |-> [at        |-> IF t = current THEN "starting" ELSE "new",
                                query     |-> Blank,
                                cancelled |-> FALSE]]
    /\ results = Blank
    /\ hasSearched = FALSE /\ isSearching = FALSE
    /\ failures = 0

\* .task(id: searchText): the text changes.
Type(new) ==
    /\ new # text
    /\ current < MaxTasks
    /\ text' = new
    /\ current' = current + 1
    /\ tasks' = [tasks EXCEPT ![current].cancelled = TRUE,
                              ![current + 1] = [@ EXCEPT !.at = "starting", !.query = new]]
    /\ UNCHANGED <<results, hasSearched, isSearching, failures>>

Move(t, place) == tasks' = [tasks EXCEPT ![t].at = place]

\* The body of the task starts; a blank text clears the results, whether or
\* not the task was cancelled by then.
Start(t) ==
    /\ tasks[t].at = "starting"
    /\ \A s \in 1 .. t - 1 : tasks[s].at # "starting"
    /\ IF tasks[t].query = Blank
       THEN /\ Move(t, "done")
            /\ results' = Blank /\ hasSearched' = FALSE /\ isSearching' = FALSE
       ELSE Move(t, "sleeping") /\ UNCHANGED <<results, hasSearched, isSearching>>
    /\ UNCHANGED <<text, current, failures>>

\* The debounce is over, or was cut short; search(query:) begins.
Wake(t) ==
    /\ tasks[t].at = "sleeping"
    /\ IF tasks[t].cancelled
       THEN Move(t, "done") /\ UNCHANGED isSearching
       ELSE Move(t, "asking") /\ isSearching' = TRUE
    /\ UNCHANGED <<text, current, results, hasSearched, failures>>

\* A mutant: search(query:) shows what it got without looking.
AnswerUnlooked(t, found) ==
    /\ tasks[t].at = "asking"
    /\ found \/ failures < MaxFailures
    /\ failures' = IF found THEN failures ELSE failures + 1
    /\ results' = IF found THEN tasks[t].query ELSE Blank
    /\ hasSearched' = TRUE
    /\ isSearching' = FALSE
    /\ Move(t, "done")
    /\ UNCHANGED <<text, current>>

\* The answer comes, or an error; the deferred write of isSearching runs for a
\* cancelled task too.
Answer(t, found) ==
    /\ tasks[t].at = "asking"
    /\ found \/ failures < MaxFailures
    /\ failures' = IF found THEN failures ELSE failures + 1
    /\ IF tasks[t].cancelled
       THEN UNCHANGED <<results, hasSearched>>
       ELSE results' = (IF found THEN tasks[t].query ELSE Blank) /\ hasSearched' = TRUE
    /\ isSearching' = FALSE
    /\ Move(t, "done")
    /\ UNCHANGED <<text, current>>

Next ==
    \/ \E new \in Text \cup {Blank} : Type(new)
    \/ \E t \in Task :
          \/ Start(t)
          \/ Wake(t)
          \/ \E found \in BOOLEAN : Answer(t, found)

Spec == Init /\ [][Next]_vars

-----------------------------------------------------------------------------
(* Properties. *)

\* When the task of the text on the screen is done, what is listed was found
\* for that text: no answer to an older text, whenever it comes, and no late
\* clearing, replaces it (EVYSearchModel.swift).
ResultsAreOfTheText ==
    tasks[current].at = "done" =>
        /\ results \in {text, Blank}
        /\ hasSearched = (text # Blank)
        /\ (results # text) => failures > 0

\* "True while an API search request is in flight": the spinner covers the
\* request of the text on the screen.  The code breaks this: an older search
\* that ends takes the flag away from the one that runs.
SpinnerCoversTheSearch == tasks[current].at = "asking" => isSearching

=============================================================================
