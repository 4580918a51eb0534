------------------------------- MODULE AppProofs -------------------------------
(***************************************************************************)
(* Three of the app's machines, for any rows, texts, records, pages and    *)
(* bounds.  The results a search field lists are of the text it shows; a   *)
(* device holds what was stored up to its cursor; and the records an app   *)
(* writes, whether their requests overtake each other or not, are the      *)
(* server's once everything is answered and applied, and no step but its   *)
(* own writes moves one.  The machines share no state; each has an         *)
(* invariant of its own, which the steps of the others leave as it is.     *)
(***************************************************************************)
EXTENDS MCApp, FiniteSetTheorems, SequenceTheorems, WellFoundedInduction, TLAPS

-----------------------------------------------------------------------------
(* The search field *)

Query == Word \cup {NoWord}

SearchTypes ==
    /\ text \in Query /\ results \in Query
    /\ current \in Field!Task
    /\ tasks \in [Field!Task -> [at : Field!Place, query : Query, cancelled : BOOLEAN]]
    /\ errors \in Nat

\* Of the tasks only the last is not cancelled, and it has the text of the
\* field; the later ones are still to come.
LastIsWanted ==
    \A t \in Field!Task :
        /\ t < current => tasks[t].cancelled /\ tasks[t].at # "new"
        /\ t = current => ~ tasks[t].cancelled /\ tasks[t].at # "new" /\ tasks[t].query = text
        /\ t > current => ~ tasks[t].cancelled /\ tasks[t].at = "new"
        /\ tasks[t].at \in {"sleeping", "asking"} => tasks[t].query # NoWord

\* Tasks start in their order, so that a late start of an older task clears
\* nothing the last one found.
StartedInOrder ==
    \A s, t \in Field!Task :
        s < t /\ t <= current /\ tasks[t].at # "starting" => tasks[s].at # "starting"

SearchInv == SearchTypes /\ LastIsWanted /\ StartedInOrder /\ Field!ResultsAreOfTheText

LEMMA SearchInit == Init => SearchInv
  BY FieldAssumption
  DEF Init, Field!Init, Field!SearchAssumption, SearchInv, SearchTypes, LastIsWanted,
      StartedInOrder, Query, Field!Task, Field!Place, Field!ResultsAreOfTheText

\* Where a task moves to, the others stay where they are.
LEMMA Moving ==
    ASSUME SearchTypes, NEW t \in Field!Task, NEW place \in Field!Place, Field!Move(t, place)
    PROVE  /\ tasks' \in [Field!Task -> [at : Field!Place, query : Query, cancelled : BOOLEAN]]
           /\ tasks'[t].at = place
           /\ \A s \in Field!Task : /\ s # t => tasks'[s] = tasks[s]
                                    /\ tasks'[s].query = tasks[s].query
                                    /\ tasks'[s].cancelled = tasks[s].cancelled
  BY DEF SearchTypes, Field!Move

\* The steps of the field keep its invariant.
LEMMA SearchStep == SearchInv /\ Field!Next => SearchInv'
  <1> SUFFICES ASSUME SearchInv, Field!Next PROVE SearchInv'
    OBVIOUS
  <1>0. /\ SearchTypes /\ LastIsWanted /\ StartedInOrder /\ Field!ResultsAreOfTheText
        /\ current \in 1 .. MaxSearches /\ MaxSearches \in Nat \ {0}
        /\ NoWord \notin Word
    BY FieldAssumption DEF SearchInv, SearchTypes, Field!Task, Field!SearchAssumption
  <1>1. ASSUME NEW new \in Query, Field!Type(new)
        PROVE  SearchInv'
    <2>1. current + 1 \in Field!Task
      BY <1>0, <1>1 DEF Field!Type, Field!Task
    <2> DEFINE marked == [tasks[current] EXCEPT !.cancelled = TRUE]
               begun  == [tasks[current + 1] EXCEPT !.at = "starting", !.query = new]
               State  == [at : Field!Place, query : Query, cancelled : BOOLEAN]
    <2>2. tasks' = [s \in Field!Task |-> IF s = current + 1 THEN begun
                                         ELSE IF s = current THEN marked ELSE tasks[s]]
      BY <1>0, <1>1, <2>1 DEF Field!Type, SearchTypes
    <2>3. /\ marked \in State /\ begun \in State
          /\ marked.at = tasks[current].at /\ marked.query = tasks[current].query
          /\ marked.cancelled
          /\ begun.at = "starting" /\ begun.query = new
          /\ begun.cancelled = tasks[current + 1].cancelled
      BY <1>0, <2>1 DEF SearchTypes, Field!Task, Field!Place
    <2> HIDE DEF marked, begun
    <2>4. SearchTypes'
      <3>1. tasks' \in [Field!Task -> State]
        BY <1>0, <2>2, <2>3 DEF SearchTypes
      <3>2. QED
        BY <1>0, <1>1, <2>1, <3>1 DEF Field!Type, SearchTypes
    <2>5. /\ tasks'[current + 1] = begun /\ tasks'[current] = marked
          /\ \A s \in Field!Task : s \notin {current, current + 1} => tasks'[s] = tasks[s]
      BY <1>0, <2>1, <2>2 DEF Field!Task
    <2>6. current' = current + 1 /\ text' = new
      BY <1>1 DEF Field!Type
    <2>7. LastIsWanted'
      BY <1>0, <2>1, <2>3, <2>5, <2>6 DEF Field!Task, LastIsWanted
    <2>8. StartedInOrder'
      BY <1>0, <2>1, <2>3, <2>5, <2>6 DEF Field!Task, LastIsWanted, StartedInOrder
    <2>9. Field!ResultsAreOfTheText'
      BY <2>3, <2>5, <2>6 DEF Field!ResultsAreOfTheText
    <2>10. QED
      BY <2>4, <2>7, <2>8, <2>9 DEF SearchInv
  <1>2. ASSUME NEW t \in Field!Task, NEW place \in Field!Place, Field!Move(t, place),
               place \notin {"new", "starting"}, tasks[t].at # "new",
               place = "done" \/ tasks[t].query # NoWord,
               tasks[t].at = "starting" => \A s \in 1 .. t - 1 : tasks[s].at # "starting",
               UNCHANGED <<text, current>>
        PROVE  LastIsWanted' /\ StartedInOrder'
    <2>1. LastIsWanted'
      BY <1>0, <1>2, Moving DEF LastIsWanted, Field!Task
    <2>2. StartedInOrder'
      BY <1>0, <1>2, Moving DEF StartedInOrder, LastIsWanted, Field!Task
    <2>3. QED
      BY <2>1, <2>2
  <1>3. ASSUME NEW t \in Field!Task, Field!Start(t)
        PROVE  SearchInv'
    <2>1. t <= current /\ tasks[t].query \in Query
      BY <1>0, <1>3 DEF Field!Start, Field!Task, LastIsWanted, SearchTypes
    <2>2. CASE tasks[t].query = NoWord
      <3>1. Field!Move(t, "done") /\ "done" \in Field!Place
        BY <1>3, <2>2 DEF Field!Start, Field!Place
      <3>2. LastIsWanted' /\ StartedInOrder' /\ SearchTypes'
        BY <1>0, <1>2, <1>3, <2>2, <3>1, Moving DEF Field!Start, SearchTypes, Query
      <3>3. Field!ResultsAreOfTheText'
        <4>1. CASE t = current
          <5>1. text = NoWord
            BY <1>0, <2>2, <4>1 DEF LastIsWanted, Field!Task
          <5>2. results' = NoWord /\ hasSearched' = FALSE /\ text' = text
            BY <1>3, <2>2 DEF Field!Start
          <5>3. (text' # NoWord) = FALSE
            BY <5>1, <5>2
          <5>4. QED
            BY <5>1, <5>2, <5>3 DEF Field!ResultsAreOfTheText
        <4>2. CASE t # current
          <5>1. tasks[current].at = "starting"
            BY <1>0, <1>3, <2>1, <4>2 DEF Field!Start, Field!Task, StartedInOrder
          <5>2. tasks'[current] = tasks[current] /\ current' = current
            BY <1>0, <1>3, <3>1, <4>2, Moving DEF Field!Start, Field!Task
          <5>3. QED
            BY <5>1, <5>2 DEF Field!ResultsAreOfTheText
        <4>3. QED
          BY <4>1, <4>2
      <3>4. QED
        BY <3>2, <3>3 DEF SearchInv
    <2>3. CASE tasks[t].query # NoWord
      <3>1. Field!Move(t, "sleeping") /\ "sleeping" \in Field!Place
        BY <1>3, <2>3 DEF Field!Start, Field!Place
      <3>2. LastIsWanted' /\ StartedInOrder' /\ SearchTypes'
        BY <1>0, <1>2, <1>3, <2>3, <3>1, Moving DEF Field!Start, SearchTypes
      <3>3. Field!ResultsAreOfTheText'
        BY <1>0, <1>3, <2>3, <3>1, Moving DEF Field!Start, SearchTypes, Field!ResultsAreOfTheText
      <3>4. QED
        BY <3>2, <3>3 DEF SearchInv
    <2>4. QED
      BY <2>2, <2>3
  <1>4. ASSUME NEW t \in Field!Task, Field!Wake(t)
        PROVE  SearchInv'
    <2>1. PICK place \in {"done", "asking"} :
              Field!Move(t, place) /\ (place = "done" <=> tasks[t].cancelled)
      BY <1>4 DEF Field!Wake
    <2>2. LastIsWanted' /\ StartedInOrder' /\ SearchTypes'
      BY <1>0, <1>2, <1>4, <2>1, Moving
      DEF Field!Wake, SearchTypes, LastIsWanted, Field!Place
    <2>3. Field!ResultsAreOfTheText'
      BY <1>0, <1>4, <2>1, Moving
      DEF Field!Wake, Field!Place, SearchTypes, LastIsWanted, Field!ResultsAreOfTheText
    <2>4. QED
      BY <2>2, <2>3 DEF SearchInv
  <1>5. ASSUME NEW t \in Field!Task, NEW found \in BOOLEAN, Field!Answer(t, found)
        PROVE  SearchInv'
    <2>1. /\ Field!Move(t, "done") /\ "done" \in Field!Place
          /\ errors' \in Nat /\ errors' >= errors /\ (~ found => errors' > 0)
      BY <1>0, <1>5 DEF Field!Answer, Field!Place, SearchTypes
    <2>2. LastIsWanted' /\ StartedInOrder' /\ SearchTypes'
      BY <1>0, <1>2, <1>5, <2>1, Moving DEF Field!Answer, SearchTypes, Query
    <2>3. Field!ResultsAreOfTheText'
      <3>1. t <= current /\ (t = current <=> ~ tasks[t].cancelled) /\ text' = text /\ current' = current
        BY <1>0, <1>5 DEF Field!Answer, Field!Task, LastIsWanted
      <3>2. CASE t = current
        <4>1. text = tasks[t].query /\ text # NoWord
          BY <1>0, <1>5, <3>2 DEF Field!Answer, LastIsWanted
        <4>2. hasSearched' = TRUE /\ results' = IF found THEN text ELSE NoWord
          BY <1>5, <3>1, <3>2, <4>1 DEF Field!Answer
        <4>3. (text' # NoWord) = TRUE
          BY <3>1, <4>1
        <4>4. results' \in {text', NoWord} /\ (results' # text' => errors' > 0)
          BY <2>1, <3>1, <4>2
        <4>5. QED
          BY <4>2, <4>3, <4>4 DEF Field!ResultsAreOfTheText
      <3>3. CASE t # current
        <4>1. UNCHANGED <<results, hasSearched>>
          BY <1>5, <3>1, <3>3 DEF Field!Answer
        <4>2. tasks'[current] = tasks[current]
          BY <1>0, <2>1, <3>3, Moving DEF Field!Task
        <4>3. (text' # NoWord) = (text # NoWord)
          BY <3>1
        <4>4. errors > 0 => errors' > 0
          BY <1>0, <2>1 DEF SearchTypes
        <4>5. tasks[current].at = "done" =>
                  /\ results' \in {text', NoWord} /\ (results' # text' => errors' > 0)
                  /\ hasSearched' = (text' # NoWord)
          BY <1>0, <3>1, <4>1, <4>3, <4>4 DEF Field!ResultsAreOfTheText
        <4>6. QED
          BY <3>1, <4>2, <4>5 DEF Field!ResultsAreOfTheText
      <3>4. QED
        BY <3>2, <3>3
    <2>4. QED
      BY <2>2, <2>3 DEF SearchInv
  <1>6. QED
    BY <1>1, <1>3, <1>4, <1>5 DEF Field!Next, Query

LEMMA SearchRest == SearchInv /\ UNCHANGED search => SearchInv'
  BY DEF search, SearchInv, SearchTypes, LastIsWanted, StartedInOrder, Field!ResultsAreOfTheText

-----------------------------------------------------------------------------
(* The rows of a device *)

\* The device holds a row as it is stored; or a notification of it is to come.
Current(r) == held[r] = IF row[r].deleted THEN 0 ELSE row[r].stamp
Pending(r) == \E i \in DOMAIN pushes : pushes[i].row = r

Versions(R) == [row : R, stamp : Nat, deleted : BOOLEAN]
Syncs(R) ==
    [pc : {"idle", "discover", "read"}, since : Nat, owned : SUBSET R, core : Nat, service : Nat,
     got : SUBSET Versions(R), failed : BOOLEAN]

\* What was read of a row during a sync is how it is stored, for nothing is
\* written meanwhile.
RowTypes(R) ==
    /\ row \in [R -> [stamp : Nat, deleted : BOOLEAN]]
    /\ clock \in Nat /\ cursor \in 0 .. clock
    /\ \A r \in R : row[r].stamp <= clock
    /\ pushes \in Seq(Versions(R))
    /\ held \in [R -> Nat]
    /\ sync \in Syncs(R) /\ sync.since <= clock
    /\ sync.pc = "idle" => sync = Resumed!NoSync
    /\ ~ online => pushes = << >> /\ sync = Resumed!NoSync
    /\ \A v \in sync.got : v.stamp = row[v.row].stamp /\ v.deleted = row[v.row].deleted

\* The last notification of a row is of what is stored.
LastPushIsCurrent ==
    \A i \in DOMAIN pushes :
        (\A j \in DOMAIN pushes : j > i => pushes[j].row # pushes[i].row)
            => /\ pushes[i].stamp = row[pushes[i].row].stamp
               /\ pushes[i].deleted = row[pushes[i].row].deleted

Got(r) == \E v \in sync.got : v.row = r

\* A device that comes and goes.  What was read since the sync began is all that
\* changed of what it was entitled to; a private row it came to hold meanwhile
\* it has from the notifications.  A row it is told of is later than its cursor,
\* so that the notifications it loses are asked for again; and the conversation
\* about a row it creates comes after the row.
ResumedSync ==
    /\ created \cup declared \subseteq sync.owned
    /\ sync.since = IF declared = issuedFor THEN cursor ELSE 0
    /\ \A r \in PrivateRows : held[r] # 0 /\ r \notin sync.owned => Pending(r) \/ Current(r)
    /\ sync.failed \/
          /\ \A i \in DOMAIN CoreRows : \A r \in CoreRows[i] :
                i <= sync.core /\ row[r].stamp > sync.since /\ Resumed!Entitled(r, sync.owned)
                    => Got(r)
          /\ \A i \in DOMAIN ServiceRows : \A r \in ServiceRows[i] :
                i <= sync.service /\ row[r].stamp > sync.since => Got(r)

ResumedTypes ==
    /\ RowTypes(Resumed!Row) /\ LastPushIsCurrent
    /\ inflight = {}
    /\ created \subseteq OwnRows /\ declared \subseteq Resumed!Row /\ issuedFor \subseteq declared

OwnIsRecorded == \A r \in Resumed!Row : r \in OwnRows /\ row[r].stamp # 0 => r \in created
AnswersFollow ==
    \A r \in Resumed!Row : row[r].stamp # 0 /\ Addressed[r] # NoRow => row[Addressed[r]].stamp # 0
ServiceKeeps  == \A r \in Resumed!ServiceRow : ~ row[r].deleted
ToldIsLater   == \A r \in Resumed!Row : Pending(r) => row[r].stamp > cursor
CursorKeeps   ==
    declared = issuedFor =>
        \A r \in Resumed!Row :
            row[r].stamp \in 1 .. cursor /\ Resumed!Entitled(r, Resumed!Owned) => Current(r)

ResumedInv ==
    /\ ResumedTypes /\ OwnIsRecorded /\ AnswersFollow /\ ServiceKeeps /\ ToldIsLater /\ CursorKeeps
    /\ sync.pc # "idle" => ResumedSync

\* A device that stays connected: writes are stored behind its cursor, and it is
\* told of every one of them.
ConnectedTypes ==
    /\ RowTypes(Connected!Row) /\ LastPushIsCurrent
    /\ inflight \subseteq [row : Connected!Row, stamp : 1 .. clock, op : {"put", "delete"}]
    /\ cursor # 0 => online
    /\ failures = 0
    /\ declared = {} /\ issuedFor = {} /\ created = {}

HeldOrToCome ==
    \A r \in Connected!Row : row[r].stamp \in 1 .. cursor => Pending(r) \/ Current(r)

ConnectedSync ==
    /\ sync.since = cursor
    /\ \A i \in DOMAIN PushedRows : \A r \in PushedRows[i] :
          i <= sync.core /\ row[r].stamp > sync.since => Got(r)

ConnectedInv == ConnectedTypes /\ HeldOrToCome /\ (sync.pc # "idle" => ConnectedSync)

IInv ==
    /\ part = "search" => SearchInv
    /\ part = "resumed" => ResumedInv
    /\ part = "connected" => ConnectedInv

\* A bounded set of numbers that is not empty has a greatest one.
LEMMA Greatest ==
    ASSUME NEW S \in SUBSET Nat, S # {}, NEW n \in Nat, \A x \in S : x <= n
    PROVE  \E m \in S : \A x \in S : m >= x
  <1> DEFINE above(x) == {y \in 0 .. n : y > x}
             all      == {above(x) : x \in S}
  <1>1. IsFiniteSet(0 .. n)
    BY FS_Interval
  <1>2. all \in SUBSET (SUBSET (0 .. n)) /\ all # {}
    <2>1. \A x \in S : above(x) \in SUBSET (0 .. n)
      OBVIOUS
    <2> HIDE DEF above
    <2>2. QED
      BY <2>1
  <1>3. PICK a \in all : \A b \in all : ~ (<<b, a>> \in StrictSubsetOrdering(0 .. n))
    <2> HIDE DEF all
    <2>1. all \subseteq FiniteSubsetsOf(0 .. n)
      BY <1>1, <1>2, FS_FiniteSubsetsOfFinite
    <2>2. IsWellFoundedOn(StrictSubsetOrdering(0 .. n), FiniteSubsetsOf(0 .. n))
      BY FS_StrictSubsetOrderingWellFounded
    <2>3. QED
      BY <1>2, <2>1, <2>2, WFMin
  <1>4. PICK m \in S : a = above(m)
    OBVIOUS
  <1>5. \A x \in S : m >= x
    <2> SUFFICES ASSUME NEW x \in S, x > m PROVE FALSE
      OBVIOUS
    <2>1. above(x) \subseteq above(m) /\ x \in above(m) /\ x \notin above(x)
      OBVIOUS
    <2>2. above(x) \in all /\ above(x) # above(m)
      BY <2>1
    <2>3. <<above(x), a>> \in StrictSubsetOrdering(0 .. n)
      <3> HIDE DEF above
      <3>1. above(x) \in SUBSET (0 .. n) /\ a \in SUBSET (0 .. n)
        BY <1>2, <2>2
      <3>2. QED
        BY <1>4, <2>1, <2>2, <3>1 DEF StrictSubsetOrdering
    <2>4. QED
      BY <1>3, <2>2, <2>3
  <1>6. QED
    BY <1>5

\* A row is stored, and announced where the device is connected.
LEMMA Storing ==
    ASSUME NEW R, RowTypes(R), LastPushIsCurrent, NEW r \in R, NEW stamp \in Nat,
           NEW deletes \in BOOLEAN,
           row' = [row EXCEPT ![r] = [stamp |-> stamp, deleted |-> deletes]],
           pushes' = IF online
                     THEN Append(pushes, [row |-> r, stamp |-> stamp, deleted |-> deletes])
                     ELSE pushes
    PROVE  /\ row' \in [R -> [stamp : Nat, deleted : BOOLEAN]]
           /\ row'[r].stamp = stamp /\ row'[r].deleted = deletes
           /\ \A x \in R : x # r => row'[x] = row[x]
           /\ pushes' \in Seq(Versions(R))
           /\ LastPushIsCurrent'
           /\ \A x \in R : x # r => (Pending(x)' <=> Pending(x))
           /\ online => Pending(r)'
           /\ ~ online => pushes' = << >>
  <1>1. /\ row' \in [R -> [stamp : Nat, deleted : BOOLEAN]]
        /\ row'[r].stamp = stamp /\ row'[r].deleted = deletes
        /\ \A x \in R : x # r => row'[x] = row[x]
    BY DEF RowTypes
  <1>2. CASE online
    <2> DEFINE v == [row |-> r, stamp |-> stamp, deleted |-> deletes]
    <2>1. v \in Versions(R) /\ v.row = r /\ v.stamp = stamp /\ v.deleted = deletes
      BY DEF Versions
    <2>2. pushes' = Append(pushes, v)
      BY <1>2
    <2> HIDE DEF v
    <2>3. /\ pushes \in Seq(Versions(R)) /\ pushes' \in Seq(Versions(R))
          /\ Len(pushes') = Len(pushes) + 1 /\ DOMAIN pushes' = 1 .. Len(pushes) + 1
          /\ DOMAIN pushes = 1 .. Len(pushes) /\ Len(pushes) \in Nat
          /\ \A i \in 1 .. Len(pushes) : pushes'[i] = pushes[i] /\ pushes[i] \in Versions(R)
          /\ pushes'[Len(pushes) + 1] = v
      BY <2>1, <2>2 DEF RowTypes
    <2>4. \A i \in 1 .. Len(pushes) : pushes[i].row \in R
      BY <2>3 DEF Versions
    <2>5. LastPushIsCurrent'
      <3> SUFFICES ASSUME NEW i \in DOMAIN pushes',
                          \A j \in DOMAIN pushes' : j > i => pushes'[j].row # pushes'[i].row
                   PROVE  /\ pushes'[i].stamp = row'[pushes'[i].row].stamp
                          /\ pushes'[i].deleted = row'[pushes'[i].row].deleted
        BY DEF LastPushIsCurrent
      <3>1. CASE i = Len(pushes) + 1
        BY <1>1, <2>1, <2>3, <3>1
      <3>2. CASE i # Len(pushes) + 1
        <4>1. i \in 1 .. Len(pushes) /\ pushes'[i] = pushes[i] /\ pushes[i].row # r
          BY <2>1, <2>3, <3>2
        <4>2. \A j \in DOMAIN pushes : j > i => pushes[j].row # pushes[i].row
          BY <2>3, <4>1
        <4>3. QED
          BY <1>1, <2>3, <2>4, <4>1, <4>2 DEF LastPushIsCurrent
      <3>3. QED
        BY <3>1, <3>2
    <2>6. Pending(r)'
      BY <2>1, <2>3 DEF Pending
    <2>7. \A x \in R : x # r => (Pending(x)' <=> Pending(x))
      BY <2>1, <2>3 DEF Pending
    <2>8. QED
      BY <1>1, <1>2, <2>3, <2>5, <2>6, <2>7
  <1>3. CASE ~ online
    BY <1>1, <1>3 DEF RowTypes, LastPushIsCurrent, Pending
  <1>4. QED
    BY <1>2, <1>3

\* The device applies a notification.
LEMMA Applying ==
    ASSUME NEW R, RowTypes(R), LastPushIsCurrent, Resumed!ApplyPush
    PROVE  /\ held' \in [R -> Nat] /\ pushes' \in Seq(Versions(R)) /\ pushes # << >>
           /\ LastPushIsCurrent'
           /\ \A r \in R : Pending(r)' => Pending(r)
           /\ \A r \in R : ~ Pending(r) => held'[r] = held[r]
           /\ \A r \in R : Pending(r) => Pending(r)' \/ Current(r)'
           /\ online' = online /\ row' = row
  <1> DEFINE v == Head(pushes)
  <1>1. /\ pushes # << >> /\ pushes \in Seq(Versions(R))
        /\ Len(pushes) \in Nat \ {0} /\ DOMAIN pushes = 1 .. Len(pushes)
        /\ v \in Versions(R) /\ v = pushes[1]
        /\ pushes' = Tail(pushes) /\ pushes' \in Seq(Versions(R))
        /\ DOMAIN pushes' = 1 .. Len(pushes) - 1
        /\ \A i \in 1 .. Len(pushes) - 1 : pushes'[i] = pushes[i + 1]
    BY DEF Resumed!ApplyPush, RowTypes
  <1>2. /\ held' = [held EXCEPT ![v.row] = IF v.deleted THEN 0 ELSE v.stamp]
        /\ row' = row /\ online' = online
    BY DEF Resumed!ApplyPush, Resumed!Applied, Resumed!store
  <1> HIDE DEF v
  <1>3. v.row \in R /\ v.stamp \in Nat /\ held \in [R -> Nat]
    BY <1>1 DEF Versions, RowTypes
  <1>4. held' \in [R -> Nat]
    BY <1>2, <1>3
  <1>5. LastPushIsCurrent'
    <2> SUFFICES ASSUME NEW i \in DOMAIN pushes',
                        \A j \in DOMAIN pushes' : j > i => pushes'[j].row # pushes'[i].row
                 PROVE  /\ pushes'[i].stamp = row'[pushes'[i].row].stamp
                        /\ pushes'[i].deleted = row'[pushes'[i].row].deleted
      BY DEF LastPushIsCurrent
    <2>1. i + 1 \in DOMAIN pushes /\ pushes'[i] = pushes[i + 1]
      BY <1>1
    <2>2. ASSUME NEW j \in DOMAIN pushes, j > i + 1
          PROVE  pushes[j].row # pushes[i + 1].row
      <3>1. j - 1 \in DOMAIN pushes' /\ j - 1 > i /\ pushes'[j - 1] = pushes[j]
        BY <1>1, <2>1, <2>2
      <3>2. QED
        BY <2>1, <3>1
    <2>3. QED
      BY <1>2, <2>1, <2>2 DEF LastPushIsCurrent
  <1>6. \A r \in R : Pending(r)' => Pending(r)
    <2> SUFFICES ASSUME NEW r \in R, NEW i \in DOMAIN pushes', pushes'[i].row = r
                 PROVE  \E j \in DOMAIN pushes : pushes[j].row = r
      BY DEF Pending
    <2>1. i + 1 \in DOMAIN pushes /\ pushes[i + 1].row = r
      BY <1>1
    <2>2. QED
      BY <2>1
  <1>7. ASSUME NEW r \in R, ~ Pending(r) PROVE held'[r] = held[r]
    <2>1. v.row # r
      BY <1>1, <1>7 DEF Pending
    <2>2. QED
      BY <1>2, <1>3, <2>1
  <1>8. ASSUME NEW r \in R, Pending(r), ~ Pending(r)' PROVE Current(r)'
    <2>1. \A i \in DOMAIN pushes : i > 1 => pushes[i].row # r
      <3> SUFFICES ASSUME NEW i \in DOMAIN pushes, i > 1, pushes[i].row = r PROVE FALSE
        OBVIOUS
      <3>1. i - 1 \in DOMAIN pushes' /\ pushes'[i - 1] = pushes[i]
        BY <1>1
      <3>2. QED
        BY <1>8, <3>1 DEF Pending
    <2>2. v.row = r /\ 1 \in DOMAIN pushes
      BY <1>1, <1>8, <2>1 DEF Pending
    <2>3. v.stamp = row[r].stamp /\ v.deleted = row[r].deleted
      BY <1>1, <2>1, <2>2 DEF LastPushIsCurrent
    <2>4. held'[r] = IF v.deleted THEN 0 ELSE v.stamp
      BY <1>2, <1>3, <2>2
    <2>5. QED
      BY <1>2, <2>3, <2>4 DEF Current
  <1>9. QED
    BY <1>1, <1>2, <1>4, <1>5, <1>6, <1>7, <1>8

\* The device applies the response of a sync.
LEMMA Ending ==
    ASSUME NEW R, RowTypes(R), row' = row,
           held' = [r \in R |->
                       IF \E v \in sync.got : v.row = r
                       THEN LET v == CHOOSE x \in sync.got : x.row = r IN Resumed!Applied(held, v)[r]
                       ELSE held[r]]
    PROVE  /\ held' \in [R -> Nat]
           /\ \A r \in R : Got(r) => Current(r)'
           /\ \A r \in R : ~ Got(r) => held'[r] = held[r]
  <1>1. /\ sync.got \subseteq Versions(R) /\ held \in [R -> Nat]
        /\ row \in [R -> [stamp : Nat, deleted : BOOLEAN]]
        /\ \A v \in sync.got : v.stamp = row[v.row].stamp /\ v.deleted = row[v.row].deleted
    BY DEF RowTypes, Syncs
  <1>2. ASSUME NEW r \in R, Got(r)
        PROVE  held'[r] = IF row[r].deleted THEN 0 ELSE row[r].stamp
    <2> DEFINE v == CHOOSE x \in sync.got : x.row = r
    <2>1. v \in sync.got /\ v.row = r
      BY <1>2 DEF Got
    <2>2. held'[r] = Resumed!Applied(held, v)[r]
      BY <1>2 DEF Got
    <2> HIDE DEF v
    <2>3. QED
      BY <1>1, <2>1, <2>2 DEF Resumed!Applied
  <1>3. \A r \in R : ~ Got(r) => held'[r] = held[r]
    BY DEF Got
  <1>4. held' \in [R -> Nat]
    <2>1. \A r \in R : held'[r] \in Nat
      BY <1>1, <1>2, <1>3
    <2>2. \A r \in R : (IF \E v \in sync.got : v.row = r
                        THEN LET v == CHOOSE x \in sync.got : x.row = r IN Resumed!Applied(held, v)[r]
                        ELSE held[r]) \in Nat
      BY <2>1
    <2>3. QED
      BY <2>2
  <1>5. QED
    BY <1>2, <1>3, <1>4 DEF Current

\* The next cursor is no later than what was written.
LEMMA CursorIsBounded ==
    ASSUME NEW R, RowTypes(R)
    PROVE  Resumed!NextCursor \in 0 .. clock /\ Connected!NextCursor \in 0 .. clock
  <1>1. /\ sync.got \subseteq Versions(R) /\ clock \in Nat /\ sync.since \in 0 .. clock
        /\ row \in [R -> [stamp : Nat, deleted : BOOLEAN]]
        /\ \A r \in R : row[r].stamp <= clock
        /\ \A v \in sync.got : v.stamp = row[v.row].stamp
    BY DEF RowTypes, Syncs
  <1>2. \A v \in sync.got : v.stamp \in 0 .. clock
    BY <1>1 DEF Versions
  <1>3. ASSUME NEW G \in SUBSET sync.got
        PROVE  \E m \in {sync.since} \cup {v.stamp : v \in G} :
                   /\ m \in 0 .. clock
                   /\ \A x \in {sync.since} \cup {v.stamp : v \in G} : m >= x
    <2> DEFINE S == {sync.since} \cup {v.stamp : v \in G}
    <2>1. S \in SUBSET Nat /\ S # {} /\ \A x \in S : x <= clock /\ x \in 0 .. clock
      BY <1>1, <1>2
    <2> HIDE DEF S
    <2>2. QED
      BY <1>1, <2>1, Greatest DEF S
  <1>4. Resumed!NextCursor \in 0 .. clock
    <2> DEFINE G == {x \in sync.got : x.row \notin Resumed!ServiceRow}
    <2>1. PICK m \in {sync.since} \cup {v.stamp : v \in G} :
              m \in 0 .. clock /\ \A x \in {sync.since} \cup {v.stamp : v \in G} : m >= x
      <3>1. G \in SUBSET sync.got
        OBVIOUS
      <3> HIDE DEF G
      <3>2. QED
        BY <1>3, <3>1
    <2>2. Resumed!NextCursor = Resumed!Max({sync.since} \cup {v.stamp : v \in G})
      BY DEF Resumed!NextCursor
    <2> HIDE DEF G
    <2>3. Resumed!NextCursor \in {sync.since} \cup {v.stamp : v \in G}
      BY <2>1, <2>2 DEF Resumed!Max
    <2>4. G \subseteq sync.got
      BY DEF G
    <2>5. QED
      BY <1>1, <1>2, <2>3, <2>4
  <1>5. Connected!NextCursor \in 0 .. clock
    <2> DEFINE G == {x \in sync.got : x.row \notin Connected!ServiceRow}
    <2>1. PICK m \in {sync.since} \cup {v.stamp : v \in G} :
              m \in 0 .. clock /\ \A x \in {sync.since} \cup {v.stamp : v \in G} : m >= x
      <3>1. G \in SUBSET sync.got
        OBVIOUS
      <3> HIDE DEF G
      <3>2. QED
        BY <1>3, <3>1
    <2>2. Connected!NextCursor = Connected!Max({sync.since} \cup {v.stamp : v \in G})
      BY DEF Connected!NextCursor
    <2> HIDE DEF G
    <2>3. Connected!NextCursor \in {sync.since} \cup {v.stamp : v \in G}
      BY <2>1, <2>2 DEF Connected!Max
    <2>4. G \subseteq sync.got
      BY DEF G
    <2>5. QED
      BY <1>1, <1>2, <2>3, <2>4
  <1>6. QED
    BY <1>4, <1>5

\* Who receives a row, where the device's ledger and declaration stay: what it
\* holds otherwise decides only about the row itself.
LEMMA EntitledAlready ==
    ASSUME NEW r \in Resumed!Row, held'[r] = held[r], created' = created, declared' = declared,
           Resumed!Entitled(r, Resumed!Owned)'
    PROVE  Resumed!Entitled(r, Resumed!Owned)
  BY RowsAssumption DEF Resumed!Entitled, Resumed!Owned

LEMMA ResumedInit == Resumed!Init => ResumedInv
  <1> SUFFICES ASSUME Resumed!Init PROVE ResumedInv
    OBVIOUS
  <1>1. /\ pushes = << >> /\ sync = Resumed!NoSync /\ clock = 0 /\ cursor = 0
        /\ row = [r \in Resumed!Row |-> [stamp |-> 0, deleted |-> FALSE]]
        /\ held = [r \in Resumed!Row |-> 0] /\ created = {} /\ declared = {} /\ inflight = {}
        /\ issuedFor = {}
    BY DEF Resumed!Init
  <1>2. /\ RowTypes(Resumed!Row) /\ LastPushIsCurrent
        /\ sync.pc = "idle" /\ \A r \in Resumed!Row : ~ Pending(r)
    BY <1>1 DEF RowTypes, LastPushIsCurrent, Syncs, Resumed!NoSync, Pending
  <1>3. Resumed!ServiceRow \subseteq Resumed!Row
    BY DEF Resumed!Row
  <1>4. QED
    BY <1>1, <1>2, <1>3
    DEF ResumedInv, ResumedTypes, OwnIsRecorded, AnswersFollow, ServiceKeeps, ToldIsLater, CursorKeeps

\* A write is later than every cursor; a row that answers it is not there yet.
LEMMA ResumedWrite ==
    ASSUME ResumedInv, NEW r \in Resumed!Row, NEW op \in {"put", "delete"}, Resumed!Write(r, op)
    PROVE  ResumedInv'
  <1>1. /\ ResumedTypes /\ OwnIsRecorded /\ AnswersFollow /\ ServiceKeeps /\ ToldIsLater /\ CursorKeeps
        /\ RowTypes(Resumed!Row) /\ LastPushIsCurrent /\ clock \in Nat /\ cursor \in 0 .. clock
        /\ \A x \in Resumed!Row : row[x].stamp <= clock /\ row[x].stamp \in Nat
    BY DEF ResumedInv, ResumedTypes, RowTypes
  <1>2. /\ clock' = clock + 1 /\ sync = Resumed!NoSync
        /\ Resumed!MayBegin(r) /\ Resumed!Accepts(r, op) /\ Resumed!Store(r, op, clock + 1)
        /\ created' = created \cup ({r} \cap OwnRows)
        /\ inflight' = inflight
        /\ UNCHANGED <<online, held, declared, cursor, issuedFor, sync>>
    BY DEF Resumed!Write
  <1> DEFINE deletes == op = "delete"
  <1>3. (op = "delete" \/ row[r].deleted) = deletes
    BY <1>1, <1>2 DEF Resumed!Accepts, ServiceKeeps, RowTypes
  <1>4. /\ row' = [row EXCEPT ![r] = [stamp |-> clock + 1, deleted |-> deletes]]
        /\ pushes' = IF online
                     THEN Append(pushes, [row |-> r, stamp |-> clock + 1, deleted |-> deletes])
                     ELSE pushes
        /\ deletes \in BOOLEAN /\ clock + 1 \in Nat
    <2>1. deletes \in BOOLEAN /\ clock + 1 \in Nat /\ (op = "delete") = deletes
      BY <1>1
    <2> HIDE DEF deletes
    <2>2. /\ row' = [row EXCEPT ![r] = [stamp |-> clock + 1,
                                       deleted |-> (op = "delete" \/ row[r].deleted)]]
          /\ pushes' = IF online
                       THEN Append(pushes, [row |-> r, stamp |-> clock + 1,
                                            deleted |-> (op = "delete")])
                       ELSE pushes
      BY <1>2 DEF Resumed!Store
    <2>3. QED
      BY <1>3, <2>1, <2>2
  <1>5. /\ row' \in [Resumed!Row -> [stamp : Nat, deleted : BOOLEAN]]
        /\ row'[r].stamp = clock + 1 /\ row'[r].deleted = deletes
        /\ \A x \in Resumed!Row : x # r => row'[x] = row[x] /\ (Pending(x)' <=> Pending(x))
        /\ pushes' \in Seq(Versions(Resumed!Row)) /\ LastPushIsCurrent'
        /\ ~ online => pushes' = << >>
    <2> HIDE DEF deletes
    <2>1. QED
      BY <1>1, <1>4, Storing
  <1> HIDE DEF deletes
  <1>6. ResumedTypes'
    <2>1. sync.got = {} /\ sync.pc = "idle"
      BY <1>2 DEF Resumed!NoSync
    <2>2. RowTypes(Resumed!Row)'
      <3>1. /\ held' \in [Resumed!Row -> Nat] /\ sync' \in Syncs(Resumed!Row)
            /\ sync'.since <= clock' /\ sync' = Resumed!NoSync /\ sync'.got = {}
        BY <1>1, <1>2, <2>1 DEF RowTypes, Resumed!NoSync
      <3>2. clock' \in Nat /\ cursor' \in 0 .. clock'
        BY <1>1, <1>2
      <3>3. \A x \in Resumed!Row : row'[x].stamp <= clock'
        BY <1>1, <1>2, <1>5
      <3>4. ~ online' => pushes' = << >>
        BY <1>2, <1>5
      <3>5. QED
        BY <1>5, <3>1, <3>2, <3>3, <3>4 DEF RowTypes
    <2>3. QED
      BY <1>1, <1>2, <1>5, <2>2 DEF ResumedTypes
  <1>7. OwnIsRecorded'
    BY <1>1, <1>2, <1>5 DEF OwnIsRecorded
  <1>8. AnswersFollow'
    <2>1. \A x \in Resumed!Row : row[x].stamp # 0 => row'[x].stamp # 0
      BY <1>1, <1>5
    <2>2. \A x \in Resumed!Row : Addressed[x] # NoRow => Addressed[x] \in Resumed!Row
      BY RowsAssumption DEF Resumed!SyncAssumption
    <2>3. QED
      BY <1>1, <1>2, <1>5, <2>1, <2>2 DEF AnswersFollow, Resumed!MayBegin
  <1>9. ServiceKeeps'
    <2>1. Resumed!ServiceRow \subseteq Resumed!Row
      BY DEF Resumed!Row
    <2>2. r \in Resumed!ServiceRow => ~ deletes
      BY <1>2 DEF Resumed!Accepts, deletes
    <2>3. QED
      BY <1>1, <1>5, <2>1, <2>2 DEF ServiceKeeps
  <1>10. ToldIsLater'
    <2>1. clock + 1 > cursor /\ cursor' = cursor
      BY <1>1, <1>2
    <2>2. QED
      BY <1>1, <1>5, <2>1 DEF ToldIsLater
  <1>11. CursorKeeps'
    <2> SUFFICES ASSUME declared' = issuedFor', NEW x \in Resumed!Row,
                        row'[x].stamp \in 1 .. cursor', Resumed!Entitled(x, Resumed!Owned)'
                 PROVE  Current(x)'
      BY DEF CursorKeeps
    <2>1. x # r /\ row'[x] = row[x] /\ row[x].stamp # 0
      BY <1>1, <1>2, <1>5 DEF RowTypes
    <2>2. Addressed[x] = r /\ r \in OwnRows => r \in created
      BY <1>1, <2>1, RowsAssumption DEF AnswersFollow, OwnIsRecorded, Resumed!SyncAssumption
    <2>3. Resumed!Entitled(x, Resumed!Owned)
      BY <1>2, <2>1, <2>2 DEF Resumed!Entitled, Resumed!Owned
    <2>4. QED
      BY <1>1, <1>2, <2>1, <2>3 DEF CursorKeeps, Current
  <1>12. sync'.pc = "idle"
    BY <1>2 DEF Resumed!NoSync
  <1>13. QED
    BY <1>6, <1>7, <1>8, <1>9, <1>10, <1>11, <1>12 DEF ResumedInv

\* What a step that stores nothing leaves of the rows' invariant.
LEMMA NothingStored ==
    ASSUME ResumedInv, row' = row, created' = created
    PROVE  OwnIsRecorded' /\ AnswersFollow' /\ ServiceKeeps'
  BY DEF ResumedInv, OwnIsRecorded, AnswersFollow, ServiceKeeps

\* Connections come and go; what was on its way is later than the cursor.
LEMMA ResumedConnection ==
    ASSUME ResumedInv,
           \/ Resumed!Connect \/ Resumed!Disconnect
           \/ \E r \in DeclarableRows : Resumed!Redeclare(r)
    PROVE  ResumedInv'
  <1>0. /\ ResumedTypes /\ ToldIsLater /\ CursorKeeps /\ RowTypes(Resumed!Row)
        /\ sync.pc # "idle" => ResumedSync
    BY DEF ResumedInv, ResumedTypes
  <1>1. /\ UNCHANGED <<row, clock, inflight, held, created, cursor, issuedFor>>
        /\ pushes' = pushes \/ pushes' = << >>
        /\ \/ sync' = sync /\ declared' = declared /\ pushes' = pushes
           \/ sync' = Resumed!NoSync
        /\ declared \subseteq declared' /\ declared' \subseteq Resumed!Row
        /\ ~ online' => pushes' = << >> /\ sync' = Resumed!NoSync
    <2>1. CASE Resumed!Connect
      BY <1>0, <2>1 DEF ResumedTypes, RowTypes, Resumed!Connect, Resumed!store, Resumed!device
    <2>2. CASE Resumed!Disconnect
      BY <1>0, <2>2 DEF ResumedTypes, Resumed!Disconnect, Resumed!store, Resumed!device
    <2>3. CASE \E r \in DeclarableRows : Resumed!Redeclare(r)
      BY <1>0, <2>3, RowsAssumption
      DEF ResumedTypes, RowTypes, Resumed!Redeclare, Resumed!store, Resumed!SyncAssumption
    <2>4. QED
      BY <2>1, <2>2, <2>3
  <1>2. Resumed!NoSync \in Syncs(Resumed!Row) /\ Resumed!NoSync.since = 0
        /\ Resumed!NoSync.pc = "idle" /\ Resumed!NoSync.got = {}
    BY DEF Resumed!NoSync, Syncs
  <1>3. ResumedTypes'
    <2>1. pushes' \in Seq(Versions(Resumed!Row)) /\ LastPushIsCurrent'
      <3>1. CASE pushes' = pushes
        BY <1>0, <1>1, <3>1 DEF ResumedTypes, RowTypes, LastPushIsCurrent
      <3>2. CASE pushes' = << >>
        <4>1. pushes' \in Seq(Versions(Resumed!Row)) /\ DOMAIN pushes' = {}
          BY <3>2
        <4>2. QED
          BY <4>1 DEF LastPushIsCurrent
      <3>3. QED
        BY <1>1, <3>1, <3>2
    <2>2. RowTypes(Resumed!Row)'
      BY <1>0, <1>1, <1>2, <2>1 DEF RowTypes
    <2>3. QED
      BY <1>0, <1>1, <2>1, <2>2 DEF ResumedTypes
  <1>4. OwnIsRecorded' /\ AnswersFollow' /\ ServiceKeeps'
    BY <1>1, NothingStored
  <1>5. ToldIsLater'
    BY <1>0, <1>1 DEF ToldIsLater, Pending
  <1>6. CursorKeeps'
    <2> SUFFICES ASSUME declared' = issuedFor', NEW r \in Resumed!Row,
                        row'[r].stamp \in 1 .. cursor', Resumed!Entitled(r, Resumed!Owned)'
                 PROVE  Current(r)'
      BY DEF CursorKeeps
    <2>1. declared' = declared
      BY <1>0, <1>1 DEF ResumedTypes
    <2>2. Resumed!Entitled(r, Resumed!Owned)
      BY <1>1, <2>1, EntitledAlready
    <2>3. QED
      BY <1>0, <1>1, <2>1, <2>2 DEF CursorKeeps, Current
  <1>7. sync'.pc # "idle" => ResumedSync'
    BY <1>0, <1>1, <1>2 DEF ResumedSync, Pending, Current, Got, Resumed!Entitled
  <1>8. QED
    BY <1>3, <1>4, <1>5, <1>6, <1>7 DEF ResumedInv

\* A notification is of a row later than the cursor; what it brings of a private
\* one is current, or another is to come.
LEMMA ResumedPush ==
    ASSUME ResumedInv, Resumed!ApplyPush
    PROVE  ResumedInv'
  <1>0. /\ ResumedTypes /\ ToldIsLater /\ CursorKeeps /\ RowTypes(Resumed!Row)
        /\ LastPushIsCurrent
        /\ sync.pc # "idle" => ResumedSync
    BY DEF ResumedInv, ResumedTypes
  <1>1. /\ held' \in [Resumed!Row -> Nat] /\ pushes' \in Seq(Versions(Resumed!Row)) /\ pushes # << >>
        /\ LastPushIsCurrent'
        /\ \A r \in Resumed!Row : Pending(r)' => Pending(r)
        /\ \A r \in Resumed!Row : ~ Pending(r) => held'[r] = held[r]
        /\ \A r \in Resumed!Row : Pending(r) => Pending(r)' \/ Current(r)'
    BY <1>0, Applying
  <1>2. UNCHANGED <<row, clock, inflight, online, created, declared, cursor, issuedFor, sync>>
    BY DEF Resumed!ApplyPush, Resumed!store
  <1>3. ResumedTypes'
    <2>1. RowTypes(Resumed!Row)'
      BY <1>0, <1>1, <1>2 DEF RowTypes
    <2>2. QED
      BY <1>0, <1>1, <1>2, <2>1 DEF ResumedTypes
  <1>4. OwnIsRecorded' /\ AnswersFollow' /\ ServiceKeeps'
    BY <1>2, NothingStored
  <1>5. ToldIsLater'
    BY <1>0, <1>1, <1>2 DEF ToldIsLater
  <1>6. CursorKeeps'
    <2> SUFFICES ASSUME declared' = issuedFor', NEW r \in Resumed!Row,
                        row'[r].stamp \in 1 .. cursor', Resumed!Entitled(r, Resumed!Owned)'
                 PROVE  Current(r)'
      BY DEF CursorKeeps
    <2>1. row[r].stamp \in 1 .. cursor /\ cursor \in Nat
      BY <1>0, <1>2 DEF RowTypes
    <2>2. ~ Pending(r)
      BY <1>0, <2>1 DEF ToldIsLater, RowTypes
    <2>3. held'[r] = held[r]
      BY <1>1, <2>2
    <2>4. Resumed!Entitled(r, Resumed!Owned)
      BY <1>2, <2>3, EntitledAlready
    <2>5. QED
      BY <1>0, <1>2, <2>1, <2>3, <2>4 DEF CursorKeeps, Current
  <1>7. ASSUME sync'.pc # "idle" PROVE ResumedSync'
    <2>1. ResumedSync
      BY <1>0, <1>2, <1>7
    <2>2. \A r \in PrivateRows : held'[r] # 0 /\ r \notin sync.owned => Pending(r)' \/ Current(r)'
      <3> SUFFICES ASSUME NEW r \in PrivateRows, held'[r] # 0, r \notin sync.owned, ~ Pending(r)
                   PROVE  Current(r)'
        BY <1>1, RowsAssumption DEF Resumed!SyncAssumption
      <3>1. held'[r] = held[r]
        BY <1>1, RowsAssumption DEF Resumed!SyncAssumption
      <3>2. QED
        BY <1>2, <2>1, <3>1 DEF ResumedSync, Current
    <2>3. QED
      BY <1>2, <2>1, <2>2 DEF ResumedSync, Got, Resumed!Entitled
  <1>8. QED
    BY <1>3, <1>4, <1>5, <1>6, <1>7 DEF ResumedInv

\* A step of a sync that does not end it: what the device and the stores hold
\* stays, and the sync goes on with what was read.
LEMMA ResumedSyncs ==
    ASSUME ResumedInv, online, sync' \in Syncs(Resumed!Row), sync'.since <= clock, sync'.pc # "idle",
           \A v \in sync'.got : v.stamp = row[v.row].stamp /\ v.deleted = row[v.row].deleted,
           UNCHANGED <<row, clock, inflight, online, pushes, held, created, declared, cursor, issuedFor>>,
           ResumedSync'
    PROVE  ResumedInv'
  <1>1. /\ ResumedTypes /\ ToldIsLater /\ CursorKeeps /\ RowTypes(Resumed!Row)
    BY DEF ResumedInv, ResumedTypes
  <1>2. ResumedTypes'
    <2>1. RowTypes(Resumed!Row)'
      BY <1>1 DEF RowTypes
    <2>2. QED
      BY <1>1, <2>1 DEF ResumedTypes, LastPushIsCurrent
  <1>3. OwnIsRecorded' /\ AnswersFollow' /\ ServiceKeeps'
    BY NothingStored
  <1>4. ToldIsLater' /\ CursorKeeps'
    BY <1>1 DEF ToldIsLater, CursorKeeps, Pending, Current, Resumed!Entitled, Resumed!Owned
  <1>5. QED
    BY <1>2, <1>3, <1>4 DEF ResumedInv

LEMMA ResumedBegin ==
    ASSUME ResumedInv, Resumed!BeginSync
    PROVE  ResumedInv'
  <1> DEFINE since == IF declared = issuedFor THEN cursor ELSE 0
  <1>1. /\ ResumedTypes /\ RowTypes(Resumed!Row) /\ cursor \in 0 .. clock /\ clock \in Nat
        /\ created \cup declared \subseteq Resumed!Owned /\ Resumed!Owned \subseteq Resumed!Row
        /\ \A r \in PrivateRows : held[r] # 0 => r \in Resumed!Owned
    BY RowsAssumption
    DEF ResumedInv, ResumedTypes, RowTypes, Resumed!Owned, Resumed!SyncAssumption
  <1>2. /\ online
        /\ UNCHANGED <<row, clock, inflight, online, pushes, held, created, declared, cursor, issuedFor>>
        /\ sync' = [Resumed!NoSync EXCEPT !.pc = "discover", !.owned = Resumed!Owned, !.since = since]
    BY DEF Resumed!BeginSync, Resumed!store, Resumed!device
  <1>3. since \in Nat /\ since <= clock
    BY <1>1
  <1> HIDE DEF since
  <1>4. /\ sync' \in Syncs(Resumed!Row) /\ sync'.pc = "discover" /\ sync'.owned = Resumed!Owned
        /\ sync'.since = since /\ sync'.core = 0 /\ sync'.service = 0 /\ sync'.got = {}
    BY <1>1, <1>2, <1>3 DEF Syncs, Resumed!NoSync
  <1>5. ResumedSync'
    <2>1. \A i \in DOMAIN CoreRows : ~ (i <= 0)
      BY RowsAssumption DEF Resumed!SyncAssumption
    <2>2. \A i \in DOMAIN ServiceRows : ~ (i <= 0)
      BY RowsAssumption DEF Resumed!SyncAssumption
    <2>3. sync'.since = IF declared' = issuedFor' THEN cursor' ELSE 0
      BY <1>2, <1>4 DEF since
    <2>4. \A r \in PrivateRows : ~ (held'[r] # 0 /\ r \notin sync'.owned)
      BY <1>1, <1>2, <1>4
    <2>5. created' \cup declared' \subseteq sync'.owned
      BY <1>1, <1>2, <1>4
    <2>6. QED
      BY <1>4, <2>1, <2>2, <2>3, <2>4, <2>5 DEF ResumedSync
  <1>6. QED
    BY <1>2, <1>3, <1>4, <1>5, ResumedSyncs

LEMMA ResumedDiscover ==
    ASSUME ResumedInv, Resumed!Discover
    PROVE  ResumedInv'
  <1>1. /\ RowTypes(Resumed!Row) /\ sync.pc = "discover" /\ sync \in Syncs(Resumed!Row) /\ ResumedSync
        /\ sync # Resumed!NoSync
    BY DEF ResumedInv, ResumedTypes, RowTypes, Resumed!Discover, Resumed!NoSync
  <1>2. /\ UNCHANGED <<row, clock, inflight, online, pushes, held, created, declared, cursor, issuedFor>>
        /\ \/ sync' = [sync EXCEPT !.pc = "read"]
           \/ sync' = [sync EXCEPT !.pc = "read", !.service = Len(ServiceRows), !.failed = TRUE]
    BY DEF Resumed!Discover, Resumed!store, Resumed!device
  <1>3. Len(ServiceRows) \in Nat
    BY RowsAssumption DEF Resumed!SyncAssumption
  <1>4. /\ sync' \in Syncs(Resumed!Row) /\ sync'.pc = "read" /\ sync'.got = sync.got
        /\ sync'.since = sync.since /\ sync'.owned = sync.owned /\ sync'.core = sync.core
        /\ sync'.failed \/ (sync'.service = sync.service /\ sync'.failed = sync.failed)
    BY <1>1, <1>2, <1>3 DEF Syncs
  <1>5. ResumedSync'
    BY <1>1, <1>2, <1>4 DEF ResumedSync, Pending, Current, Got, Resumed!Entitled
  <1>6. online
    BY <1>1 DEF RowTypes
  <1>7. QED
    BY <1>1, <1>2, <1>4, <1>5, <1>6, ResumedSyncs DEF RowTypes

\* What a read returns is what is stored, and all that changed of what it asks for.
LEMMA Reading ==
    ASSUME RowTypes(Resumed!Row), NEW resource \in SUBSET Resumed!Row
    PROVE  /\ Resumed!CoreRead(resource) \subseteq Versions(Resumed!Row)
           /\ \A v \in Resumed!CoreRead(resource) :
                 v.stamp = row[v.row].stamp /\ v.deleted = row[v.row].deleted
           /\ \A r \in resource : row[r].stamp > sync.since /\ Resumed!Entitled(r, sync.owned)
                 => \E v \in Resumed!CoreRead(resource) : v.row = r
           /\ Resumed!ServiceRead(resource) \subseteq Versions(Resumed!Row)
           /\ (\A r \in resource : row[r].deleted = FALSE) =>
                 \A v \in Resumed!ServiceRead(resource) :
                    v.stamp = row[v.row].stamp /\ v.deleted = row[v.row].deleted
           /\ \A r \in resource : row[r].stamp > sync.since
                 => \E v \in Resumed!ServiceRead(resource) : v.row = r
  <1>1. row \in [Resumed!Row -> [stamp : Nat, deleted : BOOLEAN]]
    BY DEF RowTypes
  <1> DEFINE core(r)    == [row |-> r, stamp |-> row[r].stamp, deleted |-> row[r].deleted]
             service(r) == [row |-> r, stamp |-> row[r].stamp, deleted |-> FALSE]
             changed    == {r \in resource : row[r].stamp > sync.since}
             asked      == {r \in changed : Resumed!Entitled(r, sync.owned)}
  <1>2. /\ Resumed!CoreRead(resource) = {core(r) : r \in asked}
        /\ Resumed!ServiceRead(resource) = {service(r) : r \in changed}
    BY DEF Resumed!CoreRead, Resumed!ServiceRead, Resumed!Changed
  <1>3. \A r \in resource :
            /\ core(r) \in Versions(Resumed!Row) /\ service(r) \in Versions(Resumed!Row)
            /\ core(r).row = r /\ core(r).stamp = row[r].stamp /\ core(r).deleted = row[r].deleted
            /\ service(r).row = r /\ service(r).stamp = row[r].stamp /\ service(r).deleted = FALSE
    BY <1>1 DEF Versions
  <1>4. changed \subseteq resource /\ asked \subseteq resource
    OBVIOUS
  <1>5. /\ \A r \in resource : row[r].stamp > sync.since => r \in changed
        /\ \A r \in changed : Resumed!Entitled(r, sync.owned) => r \in asked
    OBVIOUS
  <1> HIDE DEF core, service, changed, asked
  <1>6. /\ Resumed!CoreRead(resource) \subseteq Versions(Resumed!Row)
        /\ \A v \in Resumed!CoreRead(resource) :
              v.stamp = row[v.row].stamp /\ v.deleted = row[v.row].deleted
        /\ \A r \in asked : core(r) \in Resumed!CoreRead(resource)
    BY <1>2, <1>3, <1>4
  <1>7. /\ Resumed!ServiceRead(resource) \subseteq Versions(Resumed!Row)
        /\ (\A r \in resource : row[r].deleted = FALSE) =>
              \A v \in Resumed!ServiceRead(resource) :
                 v.stamp = row[v.row].stamp /\ v.deleted = row[v.row].deleted
        /\ \A r \in changed : service(r) \in Resumed!ServiceRead(resource)
    <2>1. ASSUME \A r \in resource : row[r].deleted = FALSE, NEW v \in Resumed!ServiceRead(resource)
          PROVE  v.stamp = row[v.row].stamp /\ v.deleted = row[v.row].deleted
      <3>1. PICK r \in changed : v = service(r)
        BY <1>2
      <3>2. r \in resource
        BY <1>4
      <3>3. QED
        BY <1>3, <2>1, <3>1, <3>2
    <2>2. /\ Resumed!ServiceRead(resource) \subseteq Versions(Resumed!Row)
          /\ \A r \in changed : service(r) \in Resumed!ServiceRead(resource)
      BY <1>2, <1>3, <1>4
    <2>3. QED
      BY <2>1, <2>2
  <1>8. QED
    BY <1>3, <1>4, <1>5, <1>6, <1>7

\* One more of the core resources is read, or could not be.
LEMMA ResumedReadCore ==
    ASSUME ResumedInv, Resumed!ReadCore
    PROVE  ResumedInv'
  <1> DEFINE i    == sync.core + 1
             read == Resumed!CoreRead(CoreRows[i])
  <1>1. /\ RowTypes(Resumed!Row) /\ sync.pc = "read" /\ sync \in Syncs(Resumed!Row) /\ ResumedSync
        /\ sync # Resumed!NoSync /\ sync.core \in Nat /\ sync.core < Len(CoreRows)
        /\ \A v \in sync.got : v.stamp = row[v.row].stamp /\ v.deleted = row[v.row].deleted
    BY DEF ResumedInv, ResumedTypes, RowTypes, Syncs, Resumed!ReadCore, Resumed!NoSync
  <1>2. /\ UNCHANGED <<row, clock, inflight, online, pushes, held, created, declared, cursor, issuedFor>>
        /\ \/ sync' = [sync EXCEPT !.core = @ + 1, !.got = @ \cup read]
           \/ sync' = [sync EXCEPT !.core = @ + 1, !.failed = TRUE]
    BY DEF Resumed!ReadCore, Resumed!store, Resumed!device
  <1>3. /\ CoreRows[i] \in SUBSET Resumed!Row /\ DOMAIN CoreRows = 1 .. Len(CoreRows)
        /\ i \in DOMAIN CoreRows
    BY <1>1, RowsAssumption DEF Resumed!SyncAssumption
  <1>4. /\ read \subseteq Versions(Resumed!Row)
        /\ \A v \in read : v.stamp = row[v.row].stamp /\ v.deleted = row[v.row].deleted
        /\ \A r \in CoreRows[i] : row[r].stamp > sync.since /\ Resumed!Entitled(r, sync.owned)
                 => \E v \in read : v.row = r
    BY <1>1, <1>3, Reading
  <1> HIDE DEF read
  <1>5. /\ sync' \in Syncs(Resumed!Row) /\ sync'.pc = "read"
        /\ sync'.since = sync.since /\ sync'.owned = sync.owned /\ sync'.core = i
        /\ sync'.service = sync.service
        /\ \/ sync'.failed = sync.failed /\ sync'.got = sync.got \cup read
           \/ sync'.failed /\ sync'.got = sync.got
    <2>1. i \in Nat /\ sync.got \cup read \in SUBSET Versions(Resumed!Row)
      BY <1>1, <1>4 DEF Syncs
    <2>2. CASE sync' = [sync EXCEPT !.core = @ + 1, !.got = @ \cup read]
      BY <1>1, <2>1, <2>2 DEF Syncs
    <2>3. CASE sync' = [sync EXCEPT !.core = @ + 1, !.failed = TRUE]
      BY <1>1, <2>1, <2>3 DEF Syncs
    <2>4. QED
      BY <1>2, <2>2, <2>3
  <1>6. \A v \in sync'.got : v.stamp = row[v.row].stamp /\ v.deleted = row[v.row].deleted
    BY <1>1, <1>4, <1>5
  <1>7. ResumedSync'
    <2>1. /\ created' \cup declared' \subseteq sync'.owned
          /\ sync'.since = IF declared' = issuedFor' THEN cursor' ELSE 0
          /\ \A r \in PrivateRows : held'[r] # 0 /\ r \notin sync'.owned => Pending(r)' \/ Current(r)'
      BY <1>1, <1>2, <1>5 DEF ResumedSync, Pending, Current
    <2>2. CASE sync'.failed
      BY <2>1, <2>2 DEF ResumedSync
    <2>3. CASE ~ sync'.failed
      <3>1. sync'.got = sync.got \cup read /\ ~ sync.failed
        BY <1>5, <2>3
      <3>2. ASSUME NEW j \in DOMAIN CoreRows, NEW r \in CoreRows[j], j <= i, row[r].stamp > sync.since,
                   Resumed!Entitled(r, sync.owned)
            PROVE  Got(r)'
        <4>1. CASE j = i
          BY <1>4, <3>1, <3>2, <4>1 DEF Got
        <4>2. CASE j # i
          <5>1. j <= sync.core
            BY <1>1, <1>3, <3>2, <4>2
          <5>2. Got(r)
            BY <1>1, <3>1, <3>2, <5>1 DEF ResumedSync
          <5>3. QED
            BY <3>1, <5>2 DEF Got
        <4>3. QED
          BY <4>1, <4>2
      <3>3. \A j \in DOMAIN ServiceRows : \A r \in ServiceRows[j] :
                j <= sync'.service /\ row[r].stamp > sync'.since => Got(r)'
        BY <1>1, <1>5, <3>1 DEF ResumedSync, Got
      <3>4. QED
        BY <1>2, <1>5, <2>1, <3>2, <3>3 DEF ResumedSync, Resumed!Entitled
    <2>4. QED
      BY <2>2, <2>3
  <1>8. online
    BY <1>1 DEF RowTypes
  <1>9. sync'.since <= clock
    BY <1>1, <1>5 DEF RowTypes
  <1>10. QED
    BY <1>2, <1>5, <1>6, <1>7, <1>8, <1>9, ResumedSyncs

\* One more of the service's resources is read, or could not be.
LEMMA ResumedReadService ==
    ASSUME ResumedInv, Resumed!ReadService
    PROVE  ResumedInv'
  <1> DEFINE i    == sync.service + 1
             read == Resumed!ServiceRead(ServiceRows[i])
  <1>1. /\ RowTypes(Resumed!Row) /\ sync.pc = "read" /\ sync \in Syncs(Resumed!Row) /\ ResumedSync
        /\ ServiceKeeps
        /\ sync # Resumed!NoSync /\ sync.service \in Nat /\ sync.service < Len(ServiceRows)
        /\ \A v \in sync.got : v.stamp = row[v.row].stamp /\ v.deleted = row[v.row].deleted
        /\ row \in [Resumed!Row -> [stamp : Nat, deleted : BOOLEAN]]
    BY DEF ResumedInv, ResumedTypes, RowTypes, Syncs, Resumed!ReadService, Resumed!NoSync
  <1>2. /\ UNCHANGED <<row, clock, inflight, online, pushes, held, created, declared, cursor, issuedFor>>
        /\ \/ sync' = [sync EXCEPT !.service = @ + 1, !.got = @ \cup read]
           \/ sync' = [sync EXCEPT !.service = @ + 1, !.failed = TRUE]
    BY DEF Resumed!ReadService, Resumed!store, Resumed!device
  <1>3. /\ ServiceRows[i] \in SUBSET Resumed!Row /\ DOMAIN ServiceRows = 1 .. Len(ServiceRows)
        /\ i \in DOMAIN ServiceRows /\ ServiceRows[i] \subseteq Resumed!ServiceRow
    BY <1>1, RowsAssumption DEF Resumed!SyncAssumption, Resumed!ServiceRow
  <1>4. /\ read \subseteq Versions(Resumed!Row)
        /\ \A v \in read : v.stamp = row[v.row].stamp /\ v.deleted = row[v.row].deleted
        /\ \A r \in ServiceRows[i] : row[r].stamp > sync.since => \E v \in read : v.row = r
    <2>1. \A r \in ServiceRows[i] : row[r].deleted = FALSE
      BY <1>1, <1>3 DEF ServiceKeeps
    <2>2. QED
      BY <1>1, <1>3, <2>1, Reading
  <1> HIDE DEF read
  <1>5. /\ sync' \in Syncs(Resumed!Row) /\ sync'.pc = "read"
        /\ sync'.since = sync.since /\ sync'.owned = sync.owned /\ sync'.service = i
        /\ sync'.core = sync.core
        /\ \/ sync'.failed = sync.failed /\ sync'.got = sync.got \cup read
           \/ sync'.failed /\ sync'.got = sync.got
    <2>1. i \in Nat /\ sync.got \cup read \in SUBSET Versions(Resumed!Row)
      BY <1>1, <1>4 DEF Syncs
    <2>2. CASE sync' = [sync EXCEPT !.service = @ + 1, !.got = @ \cup read]
      BY <1>1, <2>1, <2>2 DEF Syncs
    <2>3. CASE sync' = [sync EXCEPT !.service = @ + 1, !.failed = TRUE]
      BY <1>1, <2>1, <2>3 DEF Syncs
    <2>4. QED
      BY <1>2, <2>2, <2>3
  <1>6. \A v \in sync'.got : v.stamp = row[v.row].stamp /\ v.deleted = row[v.row].deleted
    BY <1>1, <1>4, <1>5
  <1>7. ResumedSync'
    <2>1. /\ created' \cup declared' \subseteq sync'.owned
          /\ sync'.since = IF declared' = issuedFor' THEN cursor' ELSE 0
          /\ \A r \in PrivateRows : held'[r] # 0 /\ r \notin sync'.owned => Pending(r)' \/ Current(r)'
      BY <1>1, <1>2, <1>5 DEF ResumedSync, Pending, Current
    <2>2. CASE sync'.failed
      BY <2>1, <2>2 DEF ResumedSync
    <2>3. CASE ~ sync'.failed
      <3>1. sync'.got = sync.got \cup read /\ ~ sync.failed
        BY <1>5, <2>3
      <3>2. ASSUME NEW j \in DOMAIN ServiceRows, NEW r \in ServiceRows[j], j <= i,
                   row[r].stamp > sync.since
            PROVE  Got(r)'
        <4>1. CASE j = i
          BY <1>4, <3>1, <3>2, <4>1 DEF Got
        <4>2. CASE j # i
          <5>1. j <= sync.service
            BY <1>1, <1>3, <3>2, <4>2
          <5>2. Got(r)
            BY <1>1, <3>1, <3>2, <5>1 DEF ResumedSync
          <5>3. QED
            BY <3>1, <5>2 DEF Got
        <4>3. QED
          BY <4>1, <4>2
      <3>3. \A j \in DOMAIN CoreRows : \A r \in CoreRows[j] :
                j <= sync'.core /\ row[r].stamp > sync'.since /\ Resumed!Entitled(r, sync'.owned)
                    => Got(r)'
        BY <1>1, <1>5, <3>1 DEF ResumedSync, Got
      <3>4. QED
        BY <1>2, <1>5, <2>1, <3>2, <3>3 DEF ResumedSync, Resumed!Entitled
    <2>4. QED
      BY <2>2, <2>3
  <1>8. online
    BY <1>1 DEF RowTypes
  <1>9. sync'.since <= clock
    BY <1>1, <1>5 DEF RowTypes
  <1>10. QED
    BY <1>2, <1>5, <1>6, <1>7, <1>8, <1>9, ResumedSyncs

\* The response is applied.  A row up to the new cursor was read, or changed
\* before the last one; one the device may see only because it came to hold it
\* meanwhile is as the notifications left it.
LEMMA ResumedEnd ==
    ASSUME ResumedInv, Resumed!EndSync
    PROVE  ResumedInv'
  <1>1. /\ ResumedTypes /\ ToldIsLater /\ CursorKeeps /\ RowTypes(Resumed!Row) /\ ResumedSync
        /\ row \in [Resumed!Row -> [stamp : Nat, deleted : BOOLEAN]] /\ held \in [Resumed!Row -> Nat]
        /\ cursor \in 0 .. clock /\ clock \in Nat /\ pushes = << >>
        /\ sync.pc = "read" /\ sync.core = Len(CoreRows) /\ sync.service = Len(ServiceRows)
        /\ sync.since \in Nat /\ sync.got \subseteq Versions(Resumed!Row)
    BY DEF ResumedInv, ResumedTypes, RowTypes, Syncs, Resumed!EndSync
  <1>2. /\ UNCHANGED <<row, clock, inflight, online, pushes, created, declared>>
        /\ sync' = Resumed!NoSync
        /\ \/ sync.failed /\ UNCHANGED <<cursor, issuedFor>>
           \/ ~ sync.failed /\ cursor' = Resumed!NextCursor /\ issuedFor' = declared
    BY DEF Resumed!EndSync, Resumed!store
  <1>3. /\ held' \in [Resumed!Row -> Nat]
        /\ \A r \in Resumed!Row : Got(r) => Current(r)'
        /\ \A r \in Resumed!Row : ~ Got(r) => held'[r] = held[r]
    BY <1>1, <1>2, Ending DEF Resumed!EndSync
  <1>4. cursor' \in 0 .. clock /\ issuedFor' \subseteq declared
    BY <1>1, <1>2, CursorIsBounded DEF ResumedTypes
  <1>5. Resumed!NoSync \in Syncs(Resumed!Row) /\ Resumed!NoSync.since = 0
        /\ Resumed!NoSync.pc = "idle" /\ Resumed!NoSync.got = {}
    BY DEF Resumed!NoSync, Syncs
  <1>6. ResumedTypes'
    <2>1. RowTypes(Resumed!Row)'
      BY <1>1, <1>2, <1>3, <1>4, <1>5 DEF RowTypes
    <2>2. QED
      BY <1>1, <1>2, <1>4, <2>1 DEF ResumedTypes, LastPushIsCurrent
  <1>7. OwnIsRecorded' /\ AnswersFollow' /\ ServiceKeeps'
    BY <1>2, NothingStored
  <1>8. \A r \in Resumed!Row : ~ Pending(r) /\ ~ Pending(r)'
    BY <1>1, <1>2 DEF Pending
  <1>9. ToldIsLater'
    BY <1>8 DEF ToldIsLater
  <1>10. CursorKeeps'
    <2> SUFFICES ASSUME declared' = issuedFor', NEW r \in Resumed!Row, ~ Got(r),
                        row'[r].stamp \in 1 .. cursor', Resumed!Entitled(r, Resumed!Owned)'
                 PROVE  Current(r)'
      BY <1>3 DEF CursorKeeps
    <2>1. held'[r] = held[r] /\ Resumed!Entitled(r, Resumed!Owned)
      BY <1>2, <1>3, EntitledAlready
    <2>2. Current(r) => Current(r)'
      BY <1>2, <2>1 DEF Current
    <2>3. CASE declared = issuedFor /\ row[r].stamp <= cursor
      BY <1>1, <1>2, <2>1, <2>2, <2>3 DEF CursorKeeps
    <2>4. CASE ~ (declared = issuedFor /\ row[r].stamp <= cursor)
      <3>1. ~ sync.failed
        BY <1>1, <1>2, <2>4
      <3>2. row[r].stamp > sync.since
        BY <1>1, <1>2, <1>4, <2>4 DEF ResumedSync
      <3>3. r \notin Resumed!ServiceRow
        <4> SUFFICES ASSUME NEW i \in DOMAIN ServiceRows, r \in ServiceRows[i] PROVE FALSE
          BY DEF Resumed!ServiceRow
        <4>1. i <= sync.service
          BY <1>1, RowsAssumption DEF Resumed!SyncAssumption
        <4>2. QED
          BY <1>1, <3>1, <3>2, <4>1 DEF ResumedSync
      <3>4. ~ Resumed!Entitled(r, sync.owned)
        <4>1. PICK i \in DOMAIN CoreRows : r \in CoreRows[i]
          BY <3>3 DEF Resumed!Row, Resumed!CoreRow
        <4>2. i <= sync.core
          BY <1>1, RowsAssumption DEF Resumed!SyncAssumption
        <4>3. QED
          BY <1>1, <3>1, <3>2, <4>1, <4>2 DEF ResumedSync
      <3>5. r \in PrivateRows /\ r \notin sync.owned /\ held[r] # 0
        BY <1>1, <2>1, <3>4, RowsAssumption
        DEF Resumed!Entitled, Resumed!Owned, ResumedSync
      <3>6. QED
        BY <1>1, <1>8, <2>2, <3>5 DEF ResumedSync
    <2>5. QED
      BY <2>3, <2>4
  <1>11. QED
    BY <1>2, <1>5, <1>6, <1>7, <1>9, <1>10 DEF ResumedInv

LEMMA ResumedStep == ResumedInv /\ Resumed!Next => ResumedInv'
  <1> SUFFICES ASSUME ResumedInv, Resumed!Next PROVE ResumedInv'
    OBVIOUS
  <1>1. CASE \E r \in Resumed!Row, op \in {"put", "delete"} : Resumed!Write(r, op)
    BY <1>1, ResumedWrite
  <1>2. CASE \E w \in inflight : Resumed!Land(w)
    BY <1>2 DEF ResumedInv, ResumedTypes
  <1>3. QED
    BY <1>1, <1>2, ResumedConnection, ResumedPush, ResumedBegin, ResumedDiscover, ResumedReadCore,
       ResumedReadService, ResumedEnd
    DEF Resumed!Next

LEMMA ResumedRest == ResumedInv /\ UNCHANGED rows => ResumedInv'
  BY DEF rows, ResumedInv, ResumedTypes, RowTypes, LastPushIsCurrent, OwnIsRecorded, AnswersFollow,
     ServiceKeeps, ToldIsLater, CursorKeeps, ResumedSync, Pending, Current, Got, Resumed!Entitled,
     Resumed!Owned

\* The rows of a device that stays connected: all are core, public rows that
\* address none.
LEMMA AllAreCore ==
    /\ Connected!Row = Connected!CoreRow /\ Connected!ServiceRow = {} /\ Len(<< >>) = 0
    /\ PushedRows \in Seq(SUBSET Connected!Row)
    /\ \A r \in Connected!Row : Alone[r] = NoRow
    /\ \A r, owned : Connected!Entitled(r, owned)
    /\ ~ Connected!Fail \/ failures # 0
  <1>1. Connected!ServiceRow = {}
    BY DEF Connected!ServiceRow
  <1>2. Connected!Row = Connected!CoreRow
    BY <1>1 DEF Connected!Row
  <1>3. \A r \in Connected!Row : Alone[r] = NoRow
    BY <1>2 DEF Alone, Connected!CoreRow
  <1>4. QED
    BY <1>1, <1>2, <1>3, RowsAssumption
    DEF Connected!SyncAssumption, Connected!Entitled, Connected!Fail

LEMMA ConnectedInit == Connected!Init => ConnectedInv
  <1> SUFFICES ASSUME Connected!Init PROVE ConnectedInv
    OBVIOUS
  <1>1. /\ pushes = << >> /\ sync = Connected!NoSync /\ clock = 0 /\ cursor = 0
        /\ row = [r \in Connected!Row |-> [stamp |-> 0, deleted |-> FALSE]]
        /\ held = [r \in Connected!Row |-> 0] /\ created = {} /\ declared = {} /\ inflight = {}
        /\ issuedFor = {} /\ failures = 0
    BY DEF Connected!Init
  <1>2. /\ RowTypes(Connected!Row) /\ LastPushIsCurrent /\ sync.pc = "idle"
    BY <1>1 DEF RowTypes, LastPushIsCurrent, Syncs, Connected!NoSync, Resumed!NoSync, Pending
  <1>3. QED
    BY <1>1, <1>2 DEF ConnectedInv, ConnectedTypes, HeldOrToCome

\* A write that is stored, whenever it took its timestamp, is announced to a
\* device that may have passed it.
LEMMA ConnectedStore ==
    ASSUME ConnectedInv, sync = Resumed!NoSync, NEW r \in Connected!Row, NEW op \in {"put", "delete"},
           NEW stamp \in 1 .. clock + 1, Connected!Accepts(r, op), Connected!Store(r, op, stamp),
           clock' \in {clock, clock + 1}, stamp <= clock',
           UNCHANGED <<online, held, declared, cursor, issuedFor, sync, failures, created>>,
           inflight' \subseteq inflight
    PROVE  ConnectedInv'
  <1>1. /\ RowTypes(Connected!Row) /\ LastPushIsCurrent /\ ConnectedTypes /\ HeldOrToCome
        /\ clock \in Nat /\ cursor \in 0 .. clock
        /\ row \in [Connected!Row -> [stamp : Nat, deleted : BOOLEAN]]
        /\ sync.got = {} /\ sync.pc = "idle"
        /\ \A x \in Connected!Row : row[x].stamp <= clock
    BY DEF ConnectedInv, ConnectedTypes, RowTypes, Resumed!NoSync
  <1> DEFINE deletes == op = "delete"
  <1>2. (op = "delete" \/ row[r].deleted) = deletes
    BY <1>1, AllAreCore DEF Connected!Accepts
  <1>3. /\ row' = [row EXCEPT ![r] = [stamp |-> stamp, deleted |-> deletes]]
        /\ pushes' = IF online
                     THEN Append(pushes, [row |-> r, stamp |-> stamp, deleted |-> deletes])
                     ELSE pushes
        /\ deletes \in BOOLEAN /\ stamp \in Nat
    <2>1. deletes \in BOOLEAN /\ stamp \in Nat /\ (op = "delete") = deletes
      BY <1>1
    <2> HIDE DEF deletes
    <2>2. /\ row' = [row EXCEPT ![r] = [stamp |-> stamp,
                                       deleted |-> (op = "delete" \/ row[r].deleted)]]
          /\ pushes' = IF online
                       THEN Append(pushes, [row |-> r, stamp |-> stamp,
                                            deleted |-> (op = "delete")])
                       ELSE pushes
      BY DEF Connected!Store
    <2>3. QED
      BY <1>2, <2>1, <2>2
  <1> HIDE DEF deletes
  <1>4. /\ row' \in [Connected!Row -> [stamp : Nat, deleted : BOOLEAN]]
        /\ row'[r].stamp = stamp /\ row'[r].deleted = deletes
        /\ \A x \in Connected!Row : x # r => row'[x] = row[x] /\ (Pending(x)' <=> Pending(x))
        /\ pushes' \in Seq(Versions(Connected!Row)) /\ LastPushIsCurrent'
        /\ online => Pending(r)'
        /\ ~ online => pushes' = << >>
    BY <1>1, <1>3, Storing
  <1>5. ConnectedTypes'
    <2>1. /\ clock' \in Nat /\ cursor' \in 0 .. clock'
      BY <1>1
    <2>2. \A x \in Connected!Row : row'[x].stamp <= clock'
      BY <1>1, <1>4
    <2>3. /\ held' \in [Connected!Row -> Nat] /\ sync' \in Syncs(Connected!Row)
          /\ sync'.since <= clock' /\ sync' = Resumed!NoSync /\ sync'.got = {}
      BY <1>1 DEF RowTypes, Resumed!NoSync
    <2>4. RowTypes(Connected!Row)'
      BY <1>1, <1>4, <2>1, <2>2, <2>3 DEF RowTypes
    <2>5. inflight' \subseteq [row : Connected!Row, stamp : 1 .. clock', op : {"put", "delete"}]
      BY <1>1 DEF ConnectedTypes
    <2>6. QED
      BY <1>1, <1>4, <2>4, <2>5 DEF ConnectedTypes
  <1>6. HeldOrToCome'
    <2> SUFFICES ASSUME NEW x \in Connected!Row, row'[x].stamp \in 1 .. cursor'
                 PROVE  Pending(x)' \/ Current(x)'
      BY DEF HeldOrToCome
    <2>1. online
      BY <1>1 DEF ConnectedTypes
    <2>2. QED
      BY <1>1, <1>4, <2>1 DEF HeldOrToCome, Current
  <1>7. QED
    BY <1>1, <1>5, <1>6 DEF ConnectedInv

LEMMA ConnectedWrite ==
    ASSUME ConnectedInv, NEW r \in Connected!Row, NEW op \in {"put", "delete"}, Connected!Write(r, op)
    PROVE  ConnectedInv'
  <1>1. /\ RowTypes(Connected!Row) /\ ConnectedTypes /\ HeldOrToCome
        /\ clock \in Nat /\ cursor \in 0 .. clock
    BY DEF ConnectedInv, ConnectedTypes, RowTypes
  <1>2. /\ clock' = clock + 1 /\ sync = Connected!NoSync /\ Connected!Accepts(r, op)
        /\ created' = created
        /\ UNCHANGED <<online, held, declared, cursor, issuedFor, sync, failures>>
        /\ \/ Connected!Store(r, op, clock') /\ inflight' = inflight
           \/ /\ inflight' = inflight \cup {[row |-> r, stamp |-> clock', op |-> op]}
              /\ UNCHANGED <<row, pushes>>
    BY DEF Connected!Write
  <1>3. sync = Resumed!NoSync
    BY <1>2 DEF Connected!NoSync, Resumed!NoSync
  <1>4. CASE Connected!Store(r, op, clock') /\ inflight' = inflight
    <2>1. clock + 1 \in 1 .. clock + 1 /\ Connected!Store(r, op, clock + 1)
      BY <1>1, <1>2, <1>4
    <2>2. QED
      BY <1>1, <1>2, <1>3, <1>4, <2>1, ConnectedStore
  <1>5. CASE inflight' = inflight \cup {[row |-> r, stamp |-> clock', op |-> op]} /\ UNCHANGED <<row, pushes>>
    <2>1. ConnectedTypes'
      <3>1. inflight' \subseteq [row : Connected!Row, stamp : 1 .. clock', op : {"put", "delete"}]
        BY <1>1, <1>2, <1>5 DEF ConnectedTypes
      <3>2. RowTypes(Connected!Row)'
        <4>1. \A x \in Connected!Row : row'[x].stamp <= clock'
          BY <1>1, <1>2, <1>5 DEF RowTypes
        <4>2. sync'.since <= clock' /\ sync'.got = {} /\ cursor' \in 0 .. clock' /\ clock' \in Nat
          BY <1>1, <1>2, <1>3 DEF Resumed!NoSync
        <4>3. QED
          BY <1>1, <1>2, <1>5, <4>1, <4>2 DEF RowTypes
      <3>3. QED
        BY <1>1, <1>2, <1>5, <3>1, <3>2 DEF ConnectedTypes, LastPushIsCurrent
    <2>2. HeldOrToCome'
      BY <1>1, <1>2, <1>5 DEF HeldOrToCome, Pending, Current
    <2>3. sync'.pc = "idle"
      BY <1>2, <1>3 DEF Resumed!NoSync
    <2>4. QED
      BY <2>1, <2>2, <2>3 DEF ConnectedInv
  <1>6. QED
    BY <1>2, <1>4, <1>5

LEMMA ConnectedLand ==
    ASSUME ConnectedInv, NEW w \in inflight, Connected!Land(w)
    PROVE  ConnectedInv'
  <1>1. /\ RowTypes(Connected!Row) /\ ConnectedTypes /\ HeldOrToCome /\ clock \in Nat
        /\ w.row \in Connected!Row /\ w.stamp \in 1 .. clock /\ w.op \in {"put", "delete"}
    BY DEF ConnectedInv, ConnectedTypes, RowTypes
  <1>2. /\ sync = Resumed!NoSync /\ inflight' = inflight \ {w}
        /\ UNCHANGED <<clock, online, held, created, declared, cursor, issuedFor, sync, failures>>
        /\ \/ Connected!Accepts(w.row, w.op) /\ Connected!Store(w.row, w.op, w.stamp)
           \/ UNCHANGED <<row, pushes>>
    BY DEF Connected!Land, Connected!device, Connected!NoSync, Resumed!NoSync
  <1>3. CASE Connected!Accepts(w.row, w.op) /\ Connected!Store(w.row, w.op, w.stamp)
    <2>1. w.stamp \in 1 .. clock + 1 /\ w.stamp <= clock'
      BY <1>1, <1>2
    <2>2. QED
      BY <1>1, <1>2, <1>3, <2>1, ConnectedStore
  <1>4. CASE UNCHANGED <<row, pushes>>
    <2>1. ConnectedTypes'
      BY <1>1, <1>2, <1>4 DEF ConnectedTypes, RowTypes, LastPushIsCurrent
    <2>2. HeldOrToCome' /\ sync'.pc = "idle"
      BY <1>1, <1>2, <1>4 DEF HeldOrToCome, Pending, Current, Resumed!NoSync
    <2>3. QED
      BY <2>1, <2>2 DEF ConnectedInv
  <1>5. QED
    BY <1>2, <1>3, <1>4

LEMMA ConnectedConnect ==
    ASSUME ConnectedInv, Connected!Connect
    PROVE  ConnectedInv'
  <1>1. /\ RowTypes(Connected!Row) /\ ConnectedTypes /\ HeldOrToCome
        /\ pushes = << >> /\ sync = Resumed!NoSync
    BY DEF ConnectedInv, ConnectedTypes, RowTypes, Connected!Connect
  <1>2. /\ UNCHANGED <<row, clock, inflight, pushes, held, created, declared, cursor, issuedFor, sync,
                       failures>>
        /\ online'
    BY DEF Connected!Connect, Connected!store, Connected!device
  <1>3. ConnectedTypes'
    BY <1>1, <1>2 DEF ConnectedTypes, RowTypes, LastPushIsCurrent
  <1>4. HeldOrToCome' /\ sync'.pc = "idle"
    BY <1>1, <1>2 DEF HeldOrToCome, Pending, Current, Resumed!NoSync
  <1>5. QED
    BY <1>3, <1>4 DEF ConnectedInv

LEMMA ConnectedPush ==
    ASSUME ConnectedInv, Connected!ApplyPush
    PROVE  ConnectedInv'
  <1>1. /\ RowTypes(Connected!Row) /\ LastPushIsCurrent /\ ConnectedTypes /\ HeldOrToCome
        /\ sync.pc # "idle" => ConnectedSync
    BY DEF ConnectedInv, ConnectedTypes
  <1>2. Resumed!ApplyPush /\ UNCHANGED <<row, clock, inflight, online, created, declared, cursor,
                                        issuedFor, sync, failures>>
    BY DEF Connected!ApplyPush, Resumed!ApplyPush, Connected!Applied, Resumed!Applied,
           Connected!store, Resumed!store
  <1>3. /\ held' \in [Connected!Row -> Nat] /\ pushes' \in Seq(Versions(Connected!Row))
        /\ pushes # << >> /\ LastPushIsCurrent'
        /\ \A r \in Connected!Row : ~ Pending(r) => held'[r] = held[r]
        /\ \A r \in Connected!Row : Pending(r) => Pending(r)' \/ Current(r)'
    BY <1>1, <1>2, Applying
  <1>4. ConnectedTypes'
    <2>1. RowTypes(Connected!Row)'
      BY <1>1, <1>2, <1>3 DEF RowTypes
    <2>2. QED
      BY <1>1, <1>2, <1>3, <2>1 DEF ConnectedTypes
  <1>5. HeldOrToCome'
    BY <1>1, <1>2, <1>3 DEF HeldOrToCome, Current
  <1>6. sync'.pc # "idle" => ConnectedSync'
    BY <1>1, <1>2 DEF ConnectedSync, Got
  <1>7. QED
    BY <1>4, <1>5, <1>6 DEF ConnectedInv

\* The steps of a sync; none of its reads fails.
LEMMA ConnectedSyncs ==
    ASSUME ConnectedInv, Connected!BeginSync \/ Connected!Discover \/ Connected!ReadCore
    PROVE  ConnectedInv'
  <1>1. /\ RowTypes(Connected!Row) /\ LastPushIsCurrent /\ ConnectedTypes /\ HeldOrToCome
        /\ sync.pc # "idle" => ConnectedSync
        /\ sync \in Syncs(Connected!Row) /\ cursor \in 0 .. clock /\ clock \in Nat
        /\ \A v \in sync.got : v.stamp = row[v.row].stamp /\ v.deleted = row[v.row].deleted
        /\ row \in [Connected!Row -> [stamp : Nat, deleted : BOOLEAN]]
        /\ PushedRows \in Seq(SUBSET Connected!Row)
        /\ sync.since <= clock
    BY AllAreCore DEF ConnectedInv, ConnectedTypes, RowTypes
  <1>2. /\ online
        /\ UNCHANGED <<row, clock, inflight, online, pushes, held, created, declared, cursor, issuedFor,
                       failures>>
    BY <1>1, AllAreCore
    DEF ConnectedTypes, RowTypes, Resumed!NoSync, Connected!BeginSync, Connected!Discover,
        Connected!ReadCore, Connected!store, Connected!device
  <1>3. /\ sync' \in Syncs(Connected!Row) /\ sync'.pc # "idle" /\ sync'.since <= clock
        /\ \A v \in sync'.got : v.stamp = row[v.row].stamp /\ v.deleted = row[v.row].deleted
        /\ sync'.since = cursor
        /\ \A i \in DOMAIN PushedRows : \A r \in PushedRows[i] :
              i <= sync'.core /\ row[r].stamp > sync'.since => Got(r)'
    <2>1. CASE Connected!BeginSync
      <3>1. Connected!Owned \subseteq Connected!Row /\ declared = issuedFor
        BY <1>1 DEF Connected!Owned, ConnectedTypes
      <3>2. sync' = [Connected!NoSync EXCEPT !.pc = "discover", !.owned = Connected!Owned,
                                            !.since = cursor]
        BY <2>1, <3>1 DEF Connected!BeginSync
      <3>3. /\ sync' \in Syncs(Connected!Row) /\ sync'.pc = "discover" /\ sync'.since = cursor
            /\ sync'.got = {} /\ sync'.core = 0
        <4>1. cursor \in Nat /\ Connected!Owned \in SUBSET Connected!Row
          BY <1>1, <3>1
        <4>2. sync' = [pc |-> "discover", since |-> cursor, owned |-> Connected!Owned, core |-> 0,
                       service |-> 0, got |-> {}, failed |-> FALSE]
          BY <3>2 DEF Connected!NoSync
        <4>3. QED
          BY <4>1, <4>2 DEF Syncs
      <3>4. \A i \in DOMAIN PushedRows : ~ (i <= 0)
        BY <1>1
      <3>5. QED
        BY <1>1, <3>3, <3>4
    <2>2. CASE Connected!Discover
      <3>1. sync' = [sync EXCEPT !.pc = "read"] /\ ConnectedSync
        BY <1>1, <2>2, AllAreCore DEF Connected!Discover, ConnectedTypes
      <3>2. /\ sync' \in Syncs(Connected!Row) /\ sync'.pc = "read" /\ sync'.since = sync.since
            /\ sync'.got = sync.got /\ sync'.core = sync.core
        BY <1>1, <3>1 DEF Syncs
      <3>3. QED
        BY <1>1, <3>1, <3>2 DEF ConnectedSync, Got
    <2>3. CASE Connected!ReadCore
      <3> DEFINE n    == sync.core + 1
                 read == Connected!CoreRead(PushedRows[n])
      <3>1. sync' = [sync EXCEPT !.core = @ + 1, !.got = @ \cup read] /\ ConnectedSync
        BY <1>1, <2>3, AllAreCore DEF Connected!ReadCore, ConnectedTypes
      <3>2. n \in DOMAIN PushedRows /\ PushedRows[n] \in SUBSET Connected!Row /\ n \in Nat
        BY <1>1, <2>3 DEF Connected!ReadCore, Syncs
      <3>3. /\ read \subseteq Versions(Connected!Row)
            /\ \A v \in read : v.stamp = row[v.row].stamp /\ v.deleted = row[v.row].deleted
            /\ \A r \in PushedRows[n] : row[r].stamp > sync.since => \E v \in read : v.row = r
        <4> DEFINE core(r) == [row |-> r, stamp |-> row[r].stamp, deleted |-> row[r].deleted]
                   asked   == {r \in PushedRows[n] : row[r].stamp > sync.since}
        <4>1. read = {core(r) : r \in asked}
          BY AllAreCore DEF Connected!CoreRead, Connected!Changed
        <4>2. \A r \in Connected!Row : /\ core(r) \in Versions(Connected!Row)
                                       /\ core(r).row = r /\ core(r).stamp = row[r].stamp
                                       /\ core(r).deleted = row[r].deleted
          BY <1>1 DEF Versions
        <4>3. asked \subseteq Connected!Row
          BY <3>2
        <4>4. \A r \in PushedRows[n] : row[r].stamp > sync.since => r \in asked
          OBVIOUS
        <4> HIDE DEF core, read, asked
        <4>5. QED
          BY <4>1, <4>2, <4>3, <4>4
      <3> HIDE DEF read
      <3>4. /\ sync' \in Syncs(Connected!Row) /\ sync'.pc = sync.pc /\ sync'.since = sync.since
            /\ sync'.got = sync.got \cup read /\ sync'.core = n
        <4>1. sync.got \cup read \in SUBSET Versions(Connected!Row)
          BY <1>1, <3>3 DEF Syncs
        <4>2. QED
          BY <1>1, <3>1, <3>2, <4>1 DEF Syncs
      <3>5. ASSUME NEW i \in DOMAIN PushedRows, NEW r \in PushedRows[i], i <= n,
                   row[r].stamp > sync.since
            PROVE  Got(r)'
        <4>1. CASE i = n
          BY <3>3, <3>4, <3>5, <4>1 DEF Got
        <4>2. CASE i # n
          <5>1. i <= sync.core
            BY <1>1, <3>2, <3>5, <4>2 DEF Syncs
          <5>2. QED
            BY <3>1, <3>4, <3>5, <5>1 DEF ConnectedSync, Got
        <4>3. QED
          BY <4>1, <4>2
      <3>6. QED
        BY <1>1, <2>3, <3>1, <3>3, <3>4, <3>5 DEF ConnectedSync, Connected!ReadCore
    <2>4. QED
      BY <2>1, <2>2, <2>3
  <1>4. ConnectedTypes'
    <2>1. RowTypes(Connected!Row)'
      BY <1>1, <1>2, <1>3 DEF RowTypes
    <2>2. QED
      BY <1>1, <1>2, <2>1 DEF ConnectedTypes, LastPushIsCurrent
  <1>5. HeldOrToCome'
    BY <1>1, <1>2 DEF HeldOrToCome, Pending, Current
  <1>6. ConnectedSync'
    BY <1>2, <1>3 DEF ConnectedSync
  <1>7. QED
    BY <1>4, <1>5, <1>6 DEF ConnectedInv

LEMMA ConnectedEnd ==
    ASSUME ConnectedInv, Connected!EndSync
    PROVE  ConnectedInv'
  <1>1. /\ RowTypes(Connected!Row) /\ LastPushIsCurrent /\ ConnectedTypes /\ HeldOrToCome
        /\ ConnectedSync /\ sync.core = Len(PushedRows) /\ pushes = << >>
        /\ row \in [Connected!Row -> [stamp : Nat, deleted : BOOLEAN]]
        /\ cursor \in 0 .. clock /\ clock \in Nat /\ online
    BY DEF ConnectedInv, ConnectedTypes, RowTypes, Connected!EndSync, Resumed!NoSync
  <1>2. /\ UNCHANGED <<row, clock, inflight, online, pushes, created, declared, failures>>
        /\ sync' = Resumed!NoSync
        /\ cursor' \in {cursor, Connected!NextCursor} /\ issuedFor' \in {issuedFor, declared}
    BY DEF Connected!EndSync, Connected!store, Connected!NoSync, Resumed!NoSync
  <1>3. /\ held' \in [Connected!Row -> Nat]
        /\ \A r \in Connected!Row : Got(r) => Current(r)'
        /\ \A r \in Connected!Row : ~ Got(r) => held'[r] = held[r]
    <2>1. held' = [r \in Connected!Row |->
                       IF \E v \in sync.got : v.row = r
                       THEN LET v == CHOOSE x \in sync.got : x.row = r IN Resumed!Applied(held, v)[r]
                       ELSE held[r]]
      BY DEF Connected!EndSync, Connected!Applied, Resumed!Applied
    <2>2. QED
      BY <1>1, <1>2, <2>1, Ending
  <1>4. cursor' \in 0 .. clock
    BY <1>1, <1>2, CursorIsBounded
  <1>5. Resumed!NoSync \in Syncs(Connected!Row) /\ Resumed!NoSync.since = 0
        /\ Resumed!NoSync.pc = "idle" /\ Resumed!NoSync.got = {}
    BY DEF Resumed!NoSync, Syncs
  <1>6. ConnectedTypes'
    <2>1. RowTypes(Connected!Row)'
      BY <1>1, <1>2, <1>3, <1>4, <1>5 DEF RowTypes
    <2>2. QED
      BY <1>1, <1>2, <2>1 DEF ConnectedTypes, LastPushIsCurrent
  <1>7. HeldOrToCome'
    <2> SUFFICES ASSUME NEW r \in Connected!Row, row[r].stamp # 0, ~ Got(r) PROVE Current(r)'
      BY <1>2, <1>3 DEF HeldOrToCome
    <2>1. row[r].stamp <= cursor
      <3>1. PICK i \in DOMAIN PushedRows : r \in PushedRows[i]
        BY AllAreCore DEF Connected!CoreRow
      <3>2. i <= sync.core
        BY <1>1, <3>1, AllAreCore
      <3>3. QED
        BY <1>1, <3>1, <3>2 DEF ConnectedSync
    <2>2. Pending(r) \/ Current(r)
      BY <1>1, <2>1 DEF HeldOrToCome
    <2>3. QED
      BY <1>1, <1>2, <1>3, <2>2 DEF Pending, Current
  <1>8. QED
    BY <1>2, <1>5, <1>6, <1>7 DEF ConnectedInv

LEMMA ConnectedStep == ConnectedInv /\ Connected!Next => ConnectedInv'
  <1> SUFFICES ASSUME ConnectedInv, Connected!Next PROVE ConnectedInv'
    OBVIOUS
  <1>1. ~ Connected!Disconnect
    BY AllAreCore DEF Connected!Disconnect, ConnectedInv, ConnectedTypes
  <1>2. ~ Connected!ReadService
    BY AllAreCore DEF Connected!ReadService, ConnectedInv, ConnectedTypes, RowTypes, Syncs
  <1>3. QED
    BY <1>1, <1>2, ConnectedWrite, ConnectedLand, ConnectedConnect, ConnectedPush, ConnectedSyncs,
       ConnectedEnd
    DEF Connected!Next

LEMMA ConnectedRest == ConnectedInv /\ UNCHANGED rows => ConnectedInv'
  BY DEF rows, ConnectedInv, ConnectedTypes, RowTypes, LastPushIsCurrent, HeldOrToCome,
     ConnectedSync, Pending, Current, Got

-----------------------------------------------------------------------------
(* The machines together *)

LEMMA InitInv == Init => IInv
  BY ResumedInit, ConnectedInit, SearchInit DEF Init, IInv

LEMMA NextInv == IInv /\ [Next]_vars => IInv'
  <1> SUFFICES ASSUME IInv, [Next]_vars PROVE IInv'
    OBVIOUS
  <1>1. part' = part
    BY DEF Next, vars, ResumedNext, ConnectedNext, FormsNext, FieldNext, CarouselNext,
           OvertakingNext, InOrderNext, SwipedNext, DisturbedNext, ControlledNext, OnlyRows,
           OnlyForms, OnlySearch, OnlyPhotos, OnlyWrites, OnlySwipes, OnlyChoices
  <1>2. CASE part = "search"
    <2>1. Field!Next \/ UNCHANGED search
      BY <1>2 DEF Next, vars, ResumedNext, ConnectedNext, FormsNext, FieldNext, CarouselNext,
                  OvertakingNext, InOrderNext, SwipedNext, DisturbedNext, ControlledNext
    <2>2. QED
      BY <1>1, <1>2, <2>1, SearchStep, SearchRest DEF IInv
  <1>3. CASE part = "resumed"
    <2>1. Resumed!Next \/ UNCHANGED rows
      BY <1>3 DEF Next, vars, ResumedNext, ConnectedNext, FormsNext, FieldNext, CarouselNext,
                  OvertakingNext, InOrderNext, SwipedNext, DisturbedNext, ControlledNext
    <2>2. QED
      BY <1>1, <1>3, <2>1, ResumedStep, ResumedRest DEF IInv
  <1>4. CASE part = "connected"
    <2>1. Connected!Next \/ UNCHANGED rows
      BY <1>4 DEF Next, vars, ResumedNext, ConnectedNext, FormsNext, FieldNext, CarouselNext,
                  OvertakingNext, InOrderNext, SwipedNext, DisturbedNext, ControlledNext
    <2>2. QED
      BY <1>1, <1>4, <2>1, ConnectedStep, ConnectedRest DEF IInv
  <1>5. QED
    BY <1>1, <1>2, <1>3, <1>4 DEF IInv

LEMMA Inductive == Spec => []IInv
  BY InitInv, NextInv, PTL DEF Spec

\* The results a field lists once its search is done are of the text it shows.
THEOREM ResultsFollowTheText == Spec => []ResultsAreOfTheText
  <1>1. IInv => ResultsAreOfTheText
    BY DEF IInv, SearchInv, ResultsAreOfTheText
  <1>2. QED
    BY Inductive, <1>1, PTL

\* A device holds what it may see of what was stored up to its cursor, whatever
\* failed; and one that stays connected, whatever writes overlapped.
THEOREM NoRowIsMissed == Spec => []NothingIsMissed
  <1>1. ResumedInv => Resumed!NothingIsMissed
    BY DEF ResumedInv, CursorKeeps, Current, Resumed!NothingIsMissed
  <1>2. ConnectedInv => Connected!NothingIsMissed
    BY DEF ConnectedInv, HeldOrToCome, Pending, Current, Connected!NothingIsMissed
  <1>3. IInv => NothingIsMissed
    BY <1>1, <1>2 DEF IInv, NothingIsMissed
  <1>4. QED
    BY Inductive, <1>3, PTL

-----------------------------------------------------------------------------
(* The records an app writes: between times, a row on which the app and the *)
(* server differ is on its way.                                              *)

\* Both instances, with requests that arrive in any order.
Loose == INSTANCE Mutations
    WITH Ids <- Listed, Page <- RecordPages, Ordered <- FALSE,
         MaxWrites <- MaxOvertaking + MaxInOrder, MaxSyncs <- MaxRefreshes, MaxFaults <- MaxLost,
         pushes <- notified, syncs <- synced, faults <- lost

Rec == [n : Nat, visibility : Loose!Visibility]
Opened == [id : Loose!Id, record : Rec]
Change == [op : {"update", "delete"}, id : Loose!Id, record : Rec]

WriteTypes ==
    /\ server \in [Loose!Id -> Rec \cup {None}]
    /\ deleted \subseteq Loose!Id
    /\ DOMAIN stores = Loose!Visibility
    /\ \A s \in Loose!Visibility :
          /\ DOMAIN stores[s] \subseteq Loose!Id
          /\ \A i \in DOMAIN stores[s] : stores[s][i].record \in Rec
    /\ cache \in [RecordPages -> Opened \cup {None}]
    /\ active \in RecordPages
    /\ requests \subseteq [op : {"create", "update"}, id : Loose!Id, record : Rec]
    /\ notified \in Seq(Change)
    /\ written \in Nat /\ lost \in Nat
    /\ own \in [Loose!Id -> Nat]

LEMMA WriteConstants ==
    /\ {MaxOvertaking, MaxInOrder, MaxRefreshes, MaxLost} \subseteq Nat
    /\ Listed \in Seq(STRING) /\ Loose!Id = {Listed[k] : k \in DOMAIN Listed}
    /\ \A j, k \in DOMAIN Listed : Listed[j] = Listed[k] => j = k
    /\ None \notin Rec /\ None \notin Opened
  <1>1. /\ {MaxOvertaking, MaxInOrder, MaxRefreshes, MaxLost} \subseteq Nat
        /\ Listed \in Seq(STRING)
        /\ None \notin [n : Nat, visibility : {"public", "private"}]
        /\ None \notin [id : STRING, record : [n : Nat, visibility : {"public", "private"}]]
    BY WritesAssumption DEF InOrder!MutationsAssumption, Overtaking!MutationsAssumption
  <1>2. \A j, k \in DOMAIN Listed : Listed[j] = Listed[k] => j = k
    BY WritesAssumption DEF InOrder!MutationsAssumption, InOrder!IsInjective
  <1>3. Loose!Id = {Listed[k] : k \in DOMAIN Listed}
    BY DEF Loose!Id, Loose!Range
  <1>4. Loose!Id \subseteq STRING
    BY <1>1, <1>3
  <1>5. QED
    BY <1>1, <1>2, <1>3, <1>4 DEF Rec, Opened, Loose!Visibility

\* What a write is does not depend on how many there may be, nor on the order
\* requests arrive in.
LEMMA AsLoose ==
    ASSUME WriteTypes
    PROVE  Overtaking!Next \/ InOrder!Next => Loose!Next
  <1>1. Overtaking!Next => Loose!Next
    <2>1. written < MaxOvertaking => written < MaxOvertaking + MaxInOrder
      BY WriteConstants DEF WriteTypes
    <2>2. Overtaking!NextWrite => Loose!NextWrite
      BY <2>1 DEF Overtaking!NextWrite, Loose!NextWrite
    <2>3. ASSUME NEW i \in Loose!Id, NEW v \in Loose!Visibility, Overtaking!Create(i, v)
          PROVE  Loose!Create(i, v)
      BY <2>2, <2>3
      DEF Overtaking!Create, Loose!Create, Overtaking!Upsert, Loose!Upsert,
          Overtaking!NextSortIndex, Loose!NextSortIndex, Overtaking!Max, Loose!Max,
          Overtaking!Request, Loose!Request
    <2>4. ASSUME NEW i \in Loose!Id, NEW v \in Loose!Visibility, Overtaking!OtherPuts(i, v)
          PROVE  Loose!OtherPuts(i, v)
      BY <2>2, <2>4
      DEF Overtaking!OtherPuts, Loose!OtherPuts, Overtaking!Live, Loose!Live, Overtaking!Request,
          Loose!Request
    <2>5. ASSUME NEW i \in Loose!Id, Overtaking!OtherDeletes(i) PROVE Loose!OtherDeletes(i)
      BY <2>2, <2>5
      DEF Overtaking!OtherDeletes, Loose!OtherDeletes, Overtaking!Live, Loose!Live,
          Overtaking!Request, Loose!Request
    <2>6. ASSUME NEW matched \in SUBSET Loose!Id, NEW v \in Loose!Visibility \cup {None},
                 Overtaking!Update(matched, v)
          PROVE  Loose!Update(matched, v)
      BY <2>2, <2>6
      DEF Overtaking!Update, Loose!Update, Overtaking!Held, Loose!Held, Overtaking!Holds,
          Loose!Holds, Overtaking!Local, Loose!Local, Overtaking!StoreOf, Loose!StoreOf,
          Overtaking!Updated, Loose!Updated, Overtaking!Visibility, Loose!Visibility,
          Overtaking!Id, Loose!Id, Overtaking!Request, Loose!Request, Overtaking!Range,
          Loose!Range
    <2>7. ASSUME NEW r \in requests, Overtaking!Serve(r) PROVE Loose!Serve(r)
      BY <2>7 DEF Overtaking!Serve, Loose!Serve, Overtaking!Accepts, Loose!Accepts,
                  Overtaking!Live, Loose!Live, Overtaking!Request, Loose!Request
    <2>8. ASSUME NEW r \in requests, Overtaking!Fail(r) PROVE Loose!Fail(r)
      BY <2>8, WriteConstants DEF Overtaking!Fail, Loose!Fail, WriteTypes
    <2>9. Overtaking!Push => Loose!Push
      BY DEF Overtaking!Push, Loose!Push, Overtaking!AppliedPush, Loose!AppliedPush,
             Overtaking!RemoveSyncedRecord, Loose!RemoveSyncedRecord,
             Overtaking!ApplySyncedRecord, Loose!ApplySyncedRecord,
             Overtaking!RefreshCacheSnapshots, Loose!RefreshCacheSnapshots, Overtaking!Delete,
             Loose!Delete, Overtaking!Upsert, Loose!Upsert, Overtaking!Place, Loose!Place,
             Overtaking!Visibility, Loose!Visibility, Overtaking!NextSortIndex,
             Loose!NextSortIndex, Overtaking!Max, Loose!Max
    <2>10. ASSUME NEW full \in BOOLEAN, Overtaking!Sync(full) PROVE Loose!Sync(full)
      <3>1. Overtaking!Synced(full) = Loose!Synced(full)
        BY Zenon DEF Overtaking!Synced, Loose!Synced, Overtaking!PlaceListed, Loose!PlaceListed,
                     Overtaking!Live, Loose!Live, Overtaking!ApplySyncedRecord,
                     Loose!ApplySyncedRecord, Overtaking!Delete, Loose!Delete, Overtaking!Upsert,
                     Loose!Upsert, Overtaking!Place, Loose!Place, Overtaking!Visibility,
                     Loose!Visibility, Overtaking!NextSortIndex, Loose!NextSortIndex,
                     Overtaking!Max, Loose!Max, Overtaking!Cardinality, Loose!Cardinality
      <3>2. QED
        BY <2>10, <3>1
        DEF Overtaking!Sync, Loose!Sync, Overtaking!Live, Loose!Live, Overtaking!Visibility,
            Loose!Visibility
    <2>11. ASSUME NEW p \in RecordPages, Overtaking!Return(p) PROVE Loose!Return(p)
      BY <2>11 DEF Overtaking!Return, Loose!Return
    <2>12. ASSUME NEW p \in RecordPages, NEW i \in Loose!Id, Overtaking!Open(p, i)
           PROVE  Loose!Open(p, i)
      BY <2>12 DEF Overtaking!Open, Loose!Open, Overtaking!Holds, Loose!Holds,
                   Overtaking!Resolved, Loose!Resolved, Overtaking!Visibility, Loose!Visibility
    <2>13. Overtaking!Id = Loose!Id /\ Overtaking!Visibility = Loose!Visibility
      BY DEF Overtaking!Id, Loose!Id, Overtaking!Range, Loose!Range, Overtaking!Visibility,
             Loose!Visibility
    <2>14. QED
      BY <2>3, <2>4, <2>5, <2>6, <2>7, <2>8, <2>9, <2>10, <2>11, <2>12, <2>13
      DEF Overtaking!Next, Loose!Next
  <1>2. InOrder!Next => Loose!Next
    <2>1. written < MaxInOrder => written < MaxOvertaking + MaxInOrder
      BY WriteConstants DEF WriteTypes
    <2>2. InOrder!NextWrite => Loose!NextWrite
      BY <2>1 DEF InOrder!NextWrite, Loose!NextWrite
    <2>3. ASSUME NEW i \in Loose!Id, NEW v \in Loose!Visibility, InOrder!Create(i, v)
          PROVE  Loose!Create(i, v)
      BY <2>2, <2>3
      DEF InOrder!Create, Loose!Create, InOrder!Upsert, Loose!Upsert, InOrder!NextSortIndex,
          Loose!NextSortIndex, InOrder!Max, Loose!Max, InOrder!Request, Loose!Request
    <2>4. ASSUME NEW i \in Loose!Id, NEW v \in Loose!Visibility, InOrder!OtherPuts(i, v)
          PROVE  Loose!OtherPuts(i, v)
      BY <2>2, <2>4
      DEF InOrder!OtherPuts, Loose!OtherPuts, InOrder!Live, Loose!Live, InOrder!Request,
          Loose!Request
    <2>5. ASSUME NEW i \in Loose!Id, InOrder!OtherDeletes(i) PROVE Loose!OtherDeletes(i)
      BY <2>2, <2>5
      DEF InOrder!OtherDeletes, Loose!OtherDeletes, InOrder!Live, Loose!Live, InOrder!Request,
          Loose!Request
    <2>6. ASSUME NEW matched \in SUBSET Loose!Id, NEW v \in Loose!Visibility \cup {None},
                 InOrder!Update(matched, v)
          PROVE  Loose!Update(matched, v)
      BY <2>2, <2>6
      DEF InOrder!Update, Loose!Update, InOrder!Held, Loose!Held, InOrder!Holds, Loose!Holds,
          InOrder!Local, Loose!Local, InOrder!StoreOf, Loose!StoreOf, InOrder!Updated,
          Loose!Updated, InOrder!Visibility, Loose!Visibility, InOrder!Id, Loose!Id,
          InOrder!Request, Loose!Request, InOrder!Range, Loose!Range
    <2>7. ASSUME NEW r \in requests, InOrder!Serve(r) PROVE Loose!Serve(r)
      BY <2>7 DEF InOrder!Serve, Loose!Serve, InOrder!Accepts, Loose!Accepts, InOrder!Live,
                  Loose!Live, InOrder!Request, Loose!Request
    <2>8. ASSUME NEW r \in requests, InOrder!Fail(r) PROVE Loose!Fail(r)
      BY <2>8, WriteConstants DEF InOrder!Fail, Loose!Fail, WriteTypes
    <2>9. InOrder!Push => Loose!Push
      BY DEF InOrder!Push, Loose!Push, InOrder!AppliedPush, Loose!AppliedPush,
             InOrder!RemoveSyncedRecord, Loose!RemoveSyncedRecord, InOrder!ApplySyncedRecord,
             Loose!ApplySyncedRecord, InOrder!RefreshCacheSnapshots, Loose!RefreshCacheSnapshots,
             InOrder!Delete, Loose!Delete, InOrder!Upsert, Loose!Upsert, InOrder!Place,
             Loose!Place, InOrder!Visibility, Loose!Visibility, InOrder!NextSortIndex,
             Loose!NextSortIndex, InOrder!Max, Loose!Max
    <2>10. ASSUME NEW full \in BOOLEAN, InOrder!Sync(full) PROVE Loose!Sync(full)
      <3>1. InOrder!Synced(full) = Loose!Synced(full)
        BY Zenon DEF InOrder!Synced, Loose!Synced, InOrder!PlaceListed, Loose!PlaceListed,
                     InOrder!Live, Loose!Live, InOrder!ApplySyncedRecord, Loose!ApplySyncedRecord,
                     InOrder!Delete, Loose!Delete, InOrder!Upsert, Loose!Upsert, InOrder!Place,
                     Loose!Place, InOrder!Visibility, Loose!Visibility, InOrder!NextSortIndex,
                     Loose!NextSortIndex, InOrder!Max, Loose!Max, InOrder!Cardinality,
                     Loose!Cardinality
      <3>2. QED
        BY <2>10, <3>1
        DEF InOrder!Sync, Loose!Sync, InOrder!Live, Loose!Live, InOrder!Visibility,
            Loose!Visibility
    <2>11. ASSUME NEW p \in RecordPages, InOrder!Return(p) PROVE Loose!Return(p)
      BY <2>11 DEF InOrder!Return, Loose!Return
    <2>12. ASSUME NEW p \in RecordPages, NEW i \in Loose!Id, InOrder!Open(p, i)
           PROVE  Loose!Open(p, i)
      BY <2>12 DEF InOrder!Open, Loose!Open, InOrder!Holds, Loose!Holds, InOrder!Resolved,
                   Loose!Resolved, InOrder!Visibility, Loose!Visibility
    <2>13. InOrder!Id = Loose!Id /\ InOrder!Visibility = Loose!Visibility
      BY DEF InOrder!Id, Loose!Id, InOrder!Range, Loose!Range, InOrder!Visibility,
             Loose!Visibility
    <2>14. QED
      BY <2>3, <2>4, <2>5, <2>6, <2>7, <2>8, <2>9, <2>10, <2>11, <2>12, <2>13
      DEF InOrder!Next, Loose!Next
  <1>3. QED
    BY <1>1, <1>2

\* The stores after the live ones among `done` were applied.
Follows(sts, done) ==
    \A s \in Loose!Visibility :
        /\ DOMAIN sts[s] \subseteq Loose!Id
        /\ \A i \in Loose!Id :
              IF i \in done /\ Loose!Live(i)
              THEN /\ i \in DOMAIN sts[s] <=> s = server[i].visibility
                   /\ s = server[i].visibility => sts[s][i].record = server[i]
                   /\ s = server[i].visibility /\ i \in DOMAIN stores[s]
                      => sts[s][i].index = stores[s][i].index
              ELSE /\ i \in DOMAIN sts[s] <=> i \in DOMAIN stores[s]
                   /\ i \in DOMAIN stores[s] => sts[s][i] = stores[s][i]

LEMMA ApplyingOne ==
    ASSUME WriteTypes, NEW prev, NEW done, Follows(prev, done),
           NEW i \in Loose!Id, i \notin done, Loose!Live(i), NEW place
    PROVE  Follows(Loose!ApplySyncedRecord(prev, i, server[i], place), done \cup {i})
  <1> DEFINE after == Loose!ApplySyncedRecord(prev, i, server[i], place)
             v     == server[i].visibility
  <1>1. server[i] \in Rec /\ v \in Loose!Visibility
    BY DEF WriteTypes, Loose!Live, Rec
  <1>2. \A s \in Loose!Visibility \ {v} : after[s] = [j \in DOMAIN prev[s] \ {i} |-> prev[s][j]]
    BY DEF Loose!ApplySyncedRecord, Loose!Delete
  <1>3. /\ DOMAIN after[v] = DOMAIN prev[v] \cup {i}
        /\ \A j \in DOMAIN prev[v] \ {i} : after[v][j] = prev[v][j]
        /\ after[v][i].record = server[i]
        /\ i \in DOMAIN prev[v] => after[v][i].index = prev[v][i].index
    BY <1>1 DEF Loose!ApplySyncedRecord, Loose!Upsert, Loose!Place
  <1> HIDE DEF after, v
  <1>4. SUFFICES ASSUME NEW s \in Loose!Visibility
                 PROVE  /\ DOMAIN after[s] \subseteq Loose!Id
                        /\ \A j \in Loose!Id :
                              IF j \in done \cup {i} /\ Loose!Live(j)
                              THEN /\ j \in DOMAIN after[s] <=> s = server[j].visibility
                                   /\ s = server[j].visibility => after[s][j].record = server[j]
                                   /\ s = server[j].visibility /\ j \in DOMAIN stores[s]
                                      => after[s][j].index = stores[s][j].index
                              ELSE /\ j \in DOMAIN after[s] <=> j \in DOMAIN stores[s]
                                   /\ j \in DOMAIN stores[s] => after[s][j] = stores[s][j]
    BY DEF Follows, after
  <1>5. DOMAIN prev[s] \subseteq Loose!Id
    BY DEF Follows
  <1>6. CASE s = v
    <2>1. ASSUME NEW j \in Loose!Id, j # i
          PROVE  /\ j \in DOMAIN after[s] <=> j \in DOMAIN prev[s]
                 /\ j \in DOMAIN prev[s] => after[s][j] = prev[s][j]
      BY <1>3, <1>6, <2>1
    <2>2. /\ DOMAIN after[s] \subseteq Loose!Id
          /\ i \in DOMAIN after[s] /\ after[s][i].record = server[i]
          /\ i \in DOMAIN stores[s] => after[s][i].index = stores[s][i].index
      BY <1>3, <1>5, <1>6 DEF Follows
    <2>3. QED
      BY <1>6, <2>1, <2>2 DEF Follows, v
  <1>7. CASE s # v
    <2>1. ASSUME NEW j \in Loose!Id, j # i
          PROVE  /\ j \in DOMAIN after[s] <=> j \in DOMAIN prev[s]
                 /\ j \in DOMAIN prev[s] => after[s][j] = prev[s][j]
      BY <1>2, <1>7, <2>1
    <2>2. DOMAIN after[s] \subseteq Loose!Id /\ i \notin DOMAIN after[s]
      BY <1>2, <1>5, <1>7
    <2>3. QED
      BY <1>7, <2>1, <2>2 DEF Follows, v
  <1>8. QED
    BY <1>6, <1>7

\* A sync applies the rows one by one: each row that is live ends in the store
\* its visibility names, at the place it had there; the others stay.
LEMMA SyncedRows ==
    ASSUME WriteTypes, NEW full \in BOOLEAN
    PROVE  \A s \in Loose!Visibility :
               /\ DOMAIN Loose!Synced(full)[s] \subseteq Loose!Id
               /\ \A i \in Loose!Id :
                     IF Loose!Live(i)
                     THEN /\ i \in DOMAIN Loose!Synced(full)[s] <=> s = server[i].visibility
                          /\ s = server[i].visibility => Loose!Synced(full)[s][i].record = server[i]
                     ELSE /\ i \in DOMAIN Loose!Synced(full)[s] <=> i \in DOMAIN stores[s]
                          /\ i \in DOMAIN stores[s] => Loose!Synced(full)[s][i] = stores[s][i]
               /\ \A i \in DOMAIN stores[s] \cap DOMAIN Loose!Synced(full)[s] :
                     Loose!Synced(full)[s][i].index = stores[s][i].index
  <1> DEFINE n == Len(Listed)
             place(k) == IF full THEN Loose!PlaceListed(k) ELSE None
             step(prev, k) == IF ~ Loose!Live(Listed[k]) THEN prev
                              ELSE Loose!ApplySyncedRecord(prev, Listed[k], server[Listed[k]], place(k))
             Runs(f, m) == f = [k \in 0 .. m |-> IF k = 0 THEN stores ELSE step(f[k - 1], k)]
             upTo == CHOOSE f : Runs(f, n)
  <1>1. Loose!Synced(full) = upTo[n]
    BY DEF Loose!Synced
  <1>2. n \in Nat /\ DOMAIN Listed = 1 .. n
    BY WriteConstants
  <1> HIDE DEF step, n
  <1>3. Runs(upTo, n)
    <2> DEFINE Q(m) == \E f : Runs(f, m)
               S    == {m \in 0 .. n : Q(m)}
    <2>1. 0 \in S
      <3>1. Runs([k \in 0 .. 0 |-> stores], 0)
        OBVIOUS
      <3> HIDE DEF Runs
      <3>2. QED
        BY <1>2, <3>1
    <2>2. PICK m \in S : \A x \in S : m >= x
      <3> HIDE DEF Q
      <3>1. S \in SUBSET Nat /\ S # {} /\ \A x \in S : x <= n
        BY <1>2, <2>1
      <3>2. QED
        <4> HIDE DEF S
        <4>1. QED
          BY <1>2, <3>1, Greatest
    <2>3. ASSUME m < n PROVE FALSE
      <3>1. PICK f : Runs(f, m)
        OBVIOUS
      <3> DEFINE g == [k \in 0 .. m + 1 |-> IF k = m + 1 THEN step(f[m], k) ELSE f[k]]
      <3>2. \A k \in 0 .. m + 1 : g[k] = IF k = 0 THEN stores ELSE step(g[k - 1], k)
        BY <3>1
      <3>3. Runs(g, m + 1)
        BY <3>2
      <3>4. m + 1 \in S
        <4> HIDE DEF Runs, g
        <4>1. QED
          BY <1>2, <2>3, <3>3
      <3>5. QED
        BY <2>2, <3>4
    <2>4. m = n /\ \E f : Runs(f, n)
      BY <1>2, <2>3
    <2>5. QED
      BY <2>4
  <1> HIDE DEF upTo
  <1> DEFINE done(k) == {Listed[j] : j \in 1 .. k}
             P(k) == Follows(upTo[k], done(k))
  <1>4. P(0)
    <2>1. upTo[0] = stores /\ done(0) = {}
      BY <1>2, <1>3
    <2>2. QED
      BY <2>1 DEF Follows, WriteTypes
  <1>5. ASSUME NEW k \in 0 .. n, k < n, P(k) PROVE P(k + 1)
    <2> DEFINE i == Listed[k + 1]
    <2>1. /\ k + 1 \in 0 .. n /\ k + 1 # 0 /\ (k + 1) - 1 = k /\ k + 1 \in DOMAIN Listed
          /\ i \in Loose!Id
      BY <1>2, <1>5, WriteConstants
    <2>2. upTo[k + 1] = step(upTo[k], k + 1)
      BY <1>3, <2>1
    <2>3. done(k + 1) = done(k) \cup {i}
      BY <1>2, <1>5
    <2>4. i \notin done(k)
      BY <1>2, <1>5, WriteConstants
    <2> HIDE DEF done
    <2>5. CASE Loose!Live(i)
      <3>1. upTo[k + 1] = Loose!ApplySyncedRecord(upTo[k], i, server[i], place(k + 1))
        BY <2>2, <2>5 DEF step
      <3> HIDE DEF place, i
      <3>2. Follows(upTo[k], done(k))
        BY <1>5
      <3> HIDE DEF P
      <3>3. Follows(Loose!ApplySyncedRecord(upTo[k], i, server[i], place(k + 1)), done(k) \cup {i})
        BY <2>1, <2>4, <2>5, <3>2, ApplyingOne
      <3>4. Follows(upTo[k + 1], done(k + 1))
        BY <2>3, <3>1, <3>3
      <3>5. QED
        BY <3>4 DEF P
    <2>6. CASE ~ Loose!Live(i)
      <3>1. upTo[k + 1] = upTo[k]
        BY <2>2, <2>6 DEF step
      <3>2. QED
        BY <1>5, <2>3, <2>6, <3>1 DEF Follows
    <2>7. QED
      BY <2>5, <2>6
  <1> HIDE DEF P
  <1>6. P(n)
    <2> DEFINE S == {k \in 0 .. n : P(k)}
    <2>1. S \in SUBSET Nat /\ S # {} /\ \A x \in S : x <= n
      BY <1>2, <1>4
    <2>2. PICK m \in S : \A x \in S : m >= x
      <3> HIDE DEF S
      <3>1. QED
        BY <1>2, <2>1, Greatest
    <2>3. ASSUME m < n PROVE FALSE
      <3>1. m + 1 \in S
        BY <1>2, <1>5, <2>3
      <3>2. QED
        BY <2>1, <2>2, <3>1
    <2>4. QED
      BY <1>2, <2>3
  <1>7. done(n) = Loose!Id
    BY <1>2, WriteConstants
  <1>8. Follows(upTo[n], Loose!Id)
    BY <1>6, <1>7 DEF P
  <1>9. QED
    <2>1. Follows(Loose!Synced(full), Loose!Id)
      BY <1>1, <1>8
    <2>2. \A s \in Loose!Visibility : DOMAIN stores[s] \subseteq Loose!Id
      BY DEF WriteTypes
    <2>3. QED
      BY <2>1, <2>2 DEF Follows

-----------------------------------------------------------------------------
(* The invariant *)

\* A record is in one store at most.
OneStore == \A i \in Loose!Id : ~ (i \in DOMAIN stores["public"] /\ i \in DOMAIN stores["private"])

\* The last push of a row on its way is what the server has.
LastIsTheServers ==
    \A k \in DOMAIN notified :
        /\ server[notified[k].id] # None
        /\ (\A j \in DOMAIN notified : j > k => notified[j].id # notified[k].id)
           => /\ notified[k].op = "delete" <=> notified[k].id \in deleted
              /\ notified[k].op = "update" => notified[k].record = server[notified[k].id]

\* The app has a row as the server has it, and so have the pages opened on it.
Agrees(i) ==
    IF Loose!Live(i)
    THEN /\ \A s \in Loose!Visibility : i \in DOMAIN stores[s] <=> s = server[i].visibility
         /\ stores[server[i].visibility][i].record = server[i]
         /\ \A p \in RecordPages : cache[p] # None /\ cache[p].id = i => cache[p].record = server[i]
    ELSE \A s \in Loose!Visibility : i \notin DOMAIN stores[s]

Pushed(i) == \E k \in DOMAIN notified : notified[k].id = i
Coming(i) == \E r \in requests : r.id = i /\ Loose!Accepts(r)

\* While no request was lost a row on which app and server differ is on its way,
\* in a push or in a request the server will take.
DifferencesAreOnTheirWay ==
    lost = 0 => \A i \in Loose!Id : Pushed(i) \/ Coming(i) \/ Agrees(i)

\* An id that is free on both sides is nowhere.
FreeIsNowhere ==
    \A i \in Loose!Id : server[i] = None =>
        /\ i \notin deleted
        /\ own[i] = 0 => /\ \A s \in Loose!Visibility : i \notin DOMAIN stores[s]
                         /\ \A r \in requests : r.id # i

\* Requests are told by their writes, and none is newer than the app's last; a
\* row whose creation is on its way is nobody else's.
RequestsAreOwn ==
    /\ \A i \in Loose!Id : own[i] <= written
    /\ \A r \in requests :
          /\ r.record.n <= written
          /\ own[r.id] # 0 => r.record.n <= own[r.id]
          /\ r.op = "create" => server[r.id] = None /\ own[r.id] # 0
    /\ \A r, q \in requests :
          r.id = q.id /\ (r.record.n = q.record.n \/ (r.op = "create" /\ q.op = "create")) => r = q

WritesInv == /\ WriteTypes /\ OneStore /\ LastIsTheServers /\ DifferencesAreOnTheirWay
             /\ FreeIsNowhere /\ RequestsAreOwn

\* Where requests arrive in order the app's last write of a row is the last the
\* server takes, and its creation the first.
OwnIsLast(i) ==
    /\ i \notin deleted =>
          \/ \E r \in requests : r.id = i /\ r.record.n = own[i]
          \/ server[i] # None /\ server[i].n = own[i] /\ \A r \in requests : r.id # i
    /\ server[i] = None =>
          \E c \in requests : /\ c.id = i /\ c.op = "create"
                              /\ \A r \in requests : r.id = i => r = c \/ c.record.n < r.record.n

LastWins == lost = 0 => \A i \in Loose!Id : own[i] # 0 => OwnIsLast(i)

\* A row nothing is done to still agrees.
LEMMA AgreesStill ==
    ASSUME WriteTypes, NEW i \in Loose!Id, Agrees(i),
           server'[i] = server[i], i \in deleted' <=> i \in deleted,
           \A s \in Loose!Visibility :
               /\ i \in DOMAIN stores'[s] <=> i \in DOMAIN stores[s]
               /\ i \in DOMAIN stores[s] => stores'[s][i].record = stores[s][i].record,
           \A p \in RecordPages : cache'[p] # None /\ cache'[p].id = i => cache'[p] = cache[p]
    PROVE  Agrees(i)'
  <1>1. Loose!Live(i)' <=> Loose!Live(i)
    BY DEF Loose!Live
  <1>2. CASE Loose!Live(i)
    <2>1. server[i].visibility \in Loose!Visibility
      BY <1>2 DEF Loose!Live, WriteTypes, Rec
    <2>2. QED
      BY <1>1, <1>2, <2>1 DEF Agrees
  <1>3. CASE ~ Loose!Live(i)
    BY <1>1, <1>3 DEF Agrees
  <1>4. QED
    BY <1>2, <1>3

-----------------------------------------------------------------------------
(* Its steps *)

\* The app creates a row.
LEMMA CreateStep ==
    ASSUME WritesInv, NEW i \in Loose!Id, NEW v \in Loose!Visibility, Loose!Create(i, v)
    PROVE  WritesInv'
  <1> DEFINE record == [n |-> written + 1, visibility |-> v]
             new    == [op |-> "create", id |-> i, record |-> record]
  <1>1. /\ WriteTypes /\ OneStore /\ LastIsTheServers /\ DifferencesAreOnTheirWay
        /\ FreeIsNowhere /\ RequestsAreOwn
    BY DEF WritesInv
  <1>2. /\ server[i] = None /\ own[i] = 0 /\ written' = written + 1
        /\ requests' = requests \cup {new} /\ own' = [own EXCEPT ![i] = written + 1]
        /\ UNCHANGED <<server, deleted, cache, active, notified, lost>>
    BY DEF Loose!Create, Loose!NextWrite, Loose!Request
  <1>3. /\ record \in Rec /\ new.id = i /\ new.op = "create" /\ new.record = record
        /\ record.n = written + 1 /\ written + 1 \in Nat /\ written + 1 > written /\ written + 1 # 0
        /\ new \in [op : {"create", "update"}, id : Loose!Id, record : Rec]
    BY <1>1 DEF WriteTypes, Rec
  <1>4. /\ DOMAIN stores' = Loose!Visibility
        /\ \A s \in Loose!Visibility \ {v} : stores'[s] = stores[s]
        /\ DOMAIN stores'[v] = DOMAIN stores[v] \cup {i}
        /\ stores'[v][i].record = record
        /\ \A j \in DOMAIN stores[v] \ {i} : stores'[v][j] = stores[v][j]
    BY <1>1 DEF WriteTypes, Loose!Create, Loose!Upsert
  <1> HIDE DEF record, new
  <1>5. WriteTypes'
    <2>1. /\ server' \in [Loose!Id -> Rec \cup {None}] /\ deleted' \subseteq Loose!Id
          /\ cache' \in [RecordPages -> Opened \cup {None}] /\ active' \in RecordPages
          /\ notified' \in Seq(Change)
          /\ lost' \in Nat
      BY <1>1, <1>2 DEF WriteTypes
    <2>2. /\ written' \in Nat /\ own' \in [Loose!Id -> Nat]
          /\ requests' \subseteq [op : {"create", "update"}, id : Loose!Id, record : Rec]
      BY <1>1, <1>2, <1>3 DEF WriteTypes
    <2>3. ASSUME NEW s \in Loose!Visibility
          PROVE  DOMAIN stores'[s] \subseteq Loose!Id /\ \A j \in DOMAIN stores'[s] : stores'[s][j].record \in Rec
      BY <1>1, <1>3, <1>4 DEF WriteTypes
    <2>4. QED
      BY <1>4, <2>1, <2>2, <2>3 DEF WriteTypes
  <1>6. \A s \in Loose!Visibility : i \notin DOMAIN stores[s]
    BY <1>1, <1>2 DEF FreeIsNowhere
  <1>7. OneStore'
    BY <1>1, <1>4, <1>6 DEF OneStore, Loose!Visibility
  <1>8. LastIsTheServers'
    BY <1>1, <1>2 DEF LastIsTheServers
  <1>9. FreeIsNowhere'
    BY <1>1, <1>2, <1>3, <1>4 DEF FreeIsNowhere, WriteTypes
  <1>10. RequestsAreOwn'
    <2>1. \A r \in requests : r.id # i
      BY <1>1, <1>2 DEF FreeIsNowhere
    <2>2. \A j \in Loose!Id : own'[j] <= written'
      BY <1>1, <1>2, <1>3 DEF RequestsAreOwn, WriteTypes
    <2>3. \A r \in requests : r.id \in Loose!Id /\ r.record.n \in Nat
      BY <1>1 DEF WriteTypes, Rec
    <2>4. ASSUME NEW r \in requests'
          PROVE  /\ r.record.n <= written'
                 /\ own'[r.id] # 0 => r.record.n <= own'[r.id]
                 /\ r.op = "create" => server'[r.id] = None /\ own'[r.id] # 0
      <3>1. CASE r = new
        BY <1>1, <1>2, <1>3, <3>1 DEF WriteTypes
      <3>2. CASE r \in requests
        <4>1. own'[r.id] = own[r.id]
          BY <1>1, <1>2, <2>1, <2>3, <3>2 DEF WriteTypes
        <4>2. r.record.n <= written /\ (own[r.id] # 0 => r.record.n <= own[r.id])
              /\ (r.op = "create" => server[r.id] = None /\ own[r.id] # 0)
          BY <1>1, <3>2 DEF RequestsAreOwn
        <4>3. QED
          BY <1>1, <1>2, <2>3, <3>2, <4>1, <4>2 DEF WriteTypes
      <3>3. QED
        BY <1>2, <3>1, <3>2
    <2>5. ASSUME NEW r \in requests', NEW q \in requests', r.id = q.id,
                 r.record.n = q.record.n \/ (r.op = "create" /\ q.op = "create")
          PROVE  r = q
      BY <1>1, <1>2, <1>3, <2>1, <2>5 DEF RequestsAreOwn
    <2>6. QED
      BY <2>2, <2>4, <2>5 DEF RequestsAreOwn
  <1>11. DifferencesAreOnTheirWay'
    <2> SUFFICES ASSUME lost' = 0, NEW j \in Loose!Id PROVE Pushed(j)' \/ Coming(j)' \/ Agrees(j)'
      BY DEF DifferencesAreOnTheirWay
    <2>1. CASE j = i
      BY <1>2, <1>3, <2>1 DEF Coming, Loose!Accepts
    <2>2. CASE j # i
      <3>1. Pushed(j) \/ Coming(j) \/ Agrees(j)
        BY <1>1, <1>2 DEF DifferencesAreOnTheirWay
      <3>2. Pushed(j) => Pushed(j)'
        BY <1>2 DEF Pushed
      <3>3. Coming(j) => Coming(j)'
        BY <1>2 DEF Coming, Loose!Accepts, Loose!Live
      <3>4. Agrees(j) => Agrees(j)'
        BY <1>1, <1>2, <1>4, <2>2, AgreesStill
      <3>5. QED
        BY <3>1, <3>2, <3>3, <3>4
    <2>3. QED
      BY <2>1, <2>2
  <1>12. QED
    BY <1>5, <1>7, <1>8, <1>9, <1>10, <1>11 DEF WritesInv

\* The app updates rows it holds.
LEMMA UpdateStep ==
    ASSUME WritesInv, NEW matched \in SUBSET Loose!Id, NEW v \in Loose!Visibility \cup {None},
           Loose!Update(matched, v)
    PROVE  WritesInv'
  <1> DEFINE record(i) == [n |-> written + 1,
                           visibility |-> IF v = None THEN Loose!Local(i).visibility ELSE v]
             new(i)    == [op |-> "update", id |-> i, record |-> record(i)]
  <1>1. /\ WriteTypes /\ OneStore /\ LastIsTheServers /\ DifferencesAreOnTheirWay
        /\ FreeIsNowhere /\ RequestsAreOwn
    BY DEF WritesInv
  <1>2. /\ written' = written + 1
        /\ requests' = requests \cup {new(i) : i \in matched}
        /\ own' = [i \in Loose!Id |-> IF i \in matched THEN written + 1 ELSE own[i]]
        /\ stores' = [s \in Loose!Visibility |->
                        [i \in DOMAIN stores[s] |->
                            IF i \in matched THEN [record |-> record(i), index |-> 0] ELSE stores[s][i]]]
        /\ cache' = [cache EXCEPT ![active] = IF cache[active] # None /\ cache[active].id \in matched
                                              THEN [id |-> cache[active].id, record |-> record(cache[active].id)]
                                              ELSE cache[active]]
        /\ UNCHANGED <<server, deleted, active, notified, lost>>
    BY DEF Loose!Update, Loose!NextWrite, Loose!Request, Loose!Updated
  <1>3. ASSUME NEW i \in matched
        PROVE  /\ \E s \in Loose!Visibility : i \in DOMAIN stores[s]
               /\ record(i) \in Rec /\ record(i).n = written + 1
               /\ new(i).id = i /\ new(i).op = "update" /\ new(i).record = record(i)
               /\ new(i) \in [op : {"create", "update"}, id : Loose!Id, record : Rec]
    <2>1. \E s \in Loose!Visibility : i \in DOMAIN stores[s]
      BY DEF Loose!Update, Loose!Held, Loose!Holds
    <2>2. Loose!StoreOf(i) \in Loose!Visibility /\ i \in DOMAIN stores[Loose!StoreOf(i)]
      BY <2>1 DEF Loose!StoreOf
    <2>3. Loose!Local(i) \in Rec
      BY <1>1, <2>2 DEF Loose!Local, WriteTypes
    <2>4. record(i) \in Rec /\ record(i).n = written + 1
      BY <1>1, <2>3 DEF Rec, WriteTypes
    <2> HIDE DEF record
    <2>5. QED
      BY <2>1, <2>4
  <1>4. written + 1 \in Nat /\ written + 1 > written /\ written + 1 # 0
    BY <1>1 DEF WriteTypes
  <1> HIDE DEF record, new
  <1>5. /\ DOMAIN stores' = Loose!Visibility
        /\ \A s \in Loose!Visibility :
              /\ DOMAIN stores'[s] = DOMAIN stores[s]
              /\ \A i \in DOMAIN stores[s] :
                    stores'[s][i].record = IF i \in matched THEN record(i) ELSE stores[s][i].record
    BY <1>2
  <1>6. WriteTypes'
    <2>1. /\ server' \in [Loose!Id -> Rec \cup {None}] /\ deleted' \subseteq Loose!Id
          /\ active' \in RecordPages
          /\ notified' \in Seq(Change)
          /\ lost' \in Nat /\ written' \in Nat
      BY <1>1, <1>2, <1>4 DEF WriteTypes
    <2>2. own' \in [Loose!Id -> Nat]
      BY <1>1, <1>2, <1>4 DEF WriteTypes
    <2>3. requests' \subseteq [op : {"create", "update"}, id : Loose!Id, record : Rec]
      BY <1>1, <1>2, <1>3 DEF WriteTypes
    <2>4. ASSUME NEW s \in Loose!Visibility
          PROVE  DOMAIN stores'[s] \subseteq Loose!Id /\ \A j \in DOMAIN stores'[s] : stores'[s][j].record \in Rec
      BY <1>1, <1>3, <1>5 DEF WriteTypes
    <2>5. cache' \in [RecordPages -> Opened \cup {None}]
      BY <1>1, <1>2, <1>3 DEF WriteTypes, Opened
    <2>6. QED
      BY <1>5, <2>1, <2>2, <2>3, <2>4, <2>5 DEF WriteTypes
  <1>7. OneStore'
    BY <1>1, <1>5 DEF OneStore, Loose!Visibility
  <1>8. LastIsTheServers'
    BY <1>1, <1>2 DEF LastIsTheServers
  <1>9. FreeIsNowhere'
    <2> SUFFICES ASSUME NEW i \in Loose!Id, server[i] = None
                 PROVE  /\ i \notin deleted
                        /\ own'[i] = 0 => /\ \A s \in Loose!Visibility : i \notin DOMAIN stores'[s]
                                          /\ \A r \in requests' : r.id # i
      BY <1>2 DEF FreeIsNowhere
    <2>1. CASE i \in matched
      BY <1>1, <1>2, <1>4, <2>1 DEF FreeIsNowhere
    <2>2. CASE i \notin matched
      BY <1>1, <1>2, <1>3, <1>5, <2>2 DEF FreeIsNowhere
    <2>3. QED
      BY <2>1, <2>2
  <1>10. RequestsAreOwn'
    <2>1. \A j \in Loose!Id : own'[j] <= written'
      BY <1>1, <1>2, <1>4 DEF RequestsAreOwn, WriteTypes
    <2>2. \A r \in requests : r.id \in Loose!Id /\ r.record.n \in Nat
      BY <1>1 DEF WriteTypes, Rec
    <2>3. ASSUME NEW r \in requests'
          PROVE  /\ r.record.n <= written'
                 /\ own'[r.id] # 0 => r.record.n <= own'[r.id]
                 /\ r.op = "create" => server'[r.id] = None /\ own'[r.id] # 0
      <3>1. ASSUME NEW i \in matched, r = new(i)
            PROVE  /\ r.record.n <= written' /\ (own'[r.id] # 0 => r.record.n <= own'[r.id])
                   /\ r.op # "create"
        BY <1>1, <1>2, <1>3, <1>4, <3>1 DEF WriteTypes
      <3>2. ASSUME r \in requests
            PROVE  /\ r.record.n <= written' /\ (own'[r.id] # 0 => r.record.n <= own'[r.id])
                   /\ (r.op = "create" => server'[r.id] = None /\ own'[r.id] # 0)
        <4>1. own'[r.id] = own[r.id] \/ own'[r.id] = written + 1
          BY <1>2, <2>2, <3>2
        <4>2. r.record.n <= written /\ (own[r.id] # 0 => r.record.n <= own[r.id])
              /\ (r.op = "create" => server[r.id] = None /\ own[r.id] # 0)
          BY <1>1, <3>2 DEF RequestsAreOwn
        <4>3. QED
          BY <1>1, <1>2, <1>4, <2>2, <3>2, <4>1, <4>2 DEF WriteTypes
      <3>3. QED
        BY <1>2, <3>1, <3>2
    <2>4. ASSUME NEW r \in requests', NEW q \in requests', r.id = q.id,
                 r.record.n = q.record.n \/ (r.op = "create" /\ q.op = "create")
          PROVE  r = q
      <3>1. \A p \in requests : p.record.n < written + 1
        BY <1>1, <1>4, <2>2 DEF RequestsAreOwn, WriteTypes
      <3>2. \A i \in matched : new(i).id = i /\ new(i).op = "update" /\ new(i).record.n = written + 1
        BY <1>3
      <3>3. CASE r \in requests /\ q \in requests
        BY <1>1, <2>4, <3>3 DEF RequestsAreOwn
      <3>4. CASE r \notin requests \/ q \notin requests
        BY <1>2, <2>2, <2>4, <3>1, <3>2, <3>4
      <3>5. QED
        BY <3>3, <3>4
    <2>5. QED
      BY <2>1, <2>3, <2>4 DEF RequestsAreOwn
  <1>11. DifferencesAreOnTheirWay'
    <2> SUFFICES ASSUME lost' = 0, NEW j \in Loose!Id PROVE Pushed(j)' \/ Coming(j)' \/ Agrees(j)'
      BY DEF DifferencesAreOnTheirWay
    <2>1. Pushed(j) \/ Coming(j) \/ Agrees(j)
      BY <1>1, <1>2 DEF DifferencesAreOnTheirWay
    <2>2. Pushed(j) => Pushed(j)'
      BY <1>2 DEF Pushed
    <2>3. Coming(j) => Coming(j)'
      BY <1>2 DEF Coming, Loose!Accepts, Loose!Live
    <2>4. ASSUME j \in matched, Agrees(j) PROVE Coming(j)'
      <3>1. Loose!Live(j)'
        BY <1>2, <1>3, <2>4 DEF Agrees, Loose!Live
      <3>2. new(j) \in requests' /\ new(j).id = j /\ new(j).op = "update"
        BY <1>2, <1>3, <2>4
      <3>3. QED
        BY <3>1, <3>2 DEF Coming, Loose!Accepts
    <2>5. ASSUME j \notin matched, Agrees(j) PROVE Agrees(j)'
      <3>1. \A p \in RecordPages : cache'[p] # None /\ cache'[p].id = j => cache'[p] = cache[p]
        BY <1>1, <1>2, <2>5 DEF WriteTypes
      <3>2. QED
        BY <1>1, <1>2, <1>5, <2>5, <3>1, AgreesStill
    <2>6. QED
      BY <2>1, <2>2, <2>3, <2>4, <2>5
  <1>12. QED
    BY <1>6, <1>7, <1>8, <1>9, <1>10, <1>11 DEF WritesInv

\* What the server does to a row is pushed last.
LEMMA Announced ==
    ASSUME WriteTypes, LastIsTheServers,
           NEW push \in Change,
           notified' = Append(notified, push),
           server'[push.id] # None,
           push.op = "delete" <=> push.id \in deleted',
           push.op = "update" => push.record = server'[push.id],
           \A j \in Loose!Id \ {push.id} : server'[j] = server[j] /\ (j \in deleted' <=> j \in deleted)
    PROVE  /\ notified' \in Seq(Change)
           /\ LastIsTheServers'
           /\ Pushed(push.id)' /\ \A j \in Loose!Id : Pushed(j) => Pushed(j)'
  <1> DEFINE n == Len(notified)
  <1>1. /\ notified \in Seq(Change)
        /\ n \in Nat /\ DOMAIN notified = 1 .. n
    BY DEF WriteTypes
  <1>2. /\ notified' \in Seq(Change)
        /\ DOMAIN notified' = 1 .. n + 1 /\ notified'[n + 1] = push
        /\ \A k \in 1 .. n : notified'[k] = notified[k]
    BY <1>1
  <1>3. \A k \in 1 .. n : notified[k].id \in Loose!Id /\ notified[k].op \in {"update", "delete"}
    <2>1. \A k \in 1 .. n : notified[k] \in Change
      BY <1>1
    <2>2. QED
      BY <2>1 DEF Change
  <1> HIDE DEF n
  <1>4. ASSUME NEW k \in DOMAIN notified'
        PROVE  /\ server'[notified'[k].id] # None
               /\ (\A j \in DOMAIN notified' : j > k => notified'[j].id # notified'[k].id)
                  => /\ notified'[k].op = "delete" <=> notified'[k].id \in deleted'
                     /\ notified'[k].op = "update" => notified'[k].record = server'[notified'[k].id]
    <2>1. CASE k = n + 1
      BY <1>2, <2>1
    <2>2. CASE k # n + 1
      <3>1. k \in 1 .. n /\ n + 1 > k /\ n + 1 \in DOMAIN notified'
        BY <1>1, <1>2, <2>2
      <3>2. server[notified[k].id] # None
        BY <1>1, <3>1 DEF LastIsTheServers
      <3>3. CASE notified[k].id = push.id
        BY <1>2, <3>1, <3>2, <3>3
      <3>4. CASE notified[k].id # push.id
        <4>1. (\A j \in DOMAIN notified' : j > k => notified'[j].id # notified'[k].id)
              => (\A j \in DOMAIN notified : j > k => notified[j].id # notified[k].id)
          BY <1>1, <1>2, <3>1
        <4>2. /\ server'[notified[k].id] = server[notified[k].id]
              /\ notified[k].id \in deleted' <=> notified[k].id \in deleted
          BY <1>3, <3>1, <3>4
        <4>3. (\A j \in DOMAIN notified : j > k => notified[j].id # notified[k].id)
              => /\ notified[k].op = "delete" <=> notified[k].id \in deleted
                 /\ notified[k].op = "update" => notified[k].record = server[notified[k].id]
          BY <1>1, <3>1 DEF LastIsTheServers
        <4>4. QED
          BY <1>2, <3>1, <3>2, <4>1, <4>2, <4>3
      <3>5. QED
        BY <3>3, <3>4
    <2>3. QED
      BY <2>1, <2>2
  <1>5. LastIsTheServers'
    BY <1>4 DEF LastIsTheServers
  <1>6. Pushed(push.id)'
    BY <1>1, <1>2 DEF Pushed
  <1>7. \A j \in Loose!Id : Pushed(j) => Pushed(j)'
    BY <1>1, <1>2 DEF Pushed
  <1>8. QED
    BY <1>2, <1>5, <1>6, <1>7

\* The server answers a request.
LEMMA ServeStep ==
    ASSUME WritesInv, NEW r \in requests, Loose!Serve(r)
    PROVE  WritesInv'
  <1>1. /\ WriteTypes /\ OneStore /\ LastIsTheServers /\ DifferencesAreOnTheirWay
        /\ FreeIsNowhere /\ RequestsAreOwn
    BY DEF WritesInv
  <1>2. /\ requests' = requests \ {r}
        /\ UNCHANGED <<deleted, stores, cache, active, written, lost, own>>
        /\ r.id \in Loose!Id /\ r.record \in Rec /\ None \notin Rec
    BY <1>1, WriteConstants DEF Loose!Serve, WriteTypes
  <1>3. CASE Loose!Accepts(r)
    <2> DEFINE push == [op |-> "update", id |-> r.id, record |-> r.record]
    <2>1. server' = [server EXCEPT ![r.id] = r.record] /\ notified' = Append(notified, push)
      BY <1>3 DEF Loose!Serve, Loose!Request
    <2>2. r.id \notin deleted
      BY <1>1, <1>2, <1>3 DEF Loose!Accepts, Loose!Live, FreeIsNowhere
    <2>3. /\ push \in Change
          /\ push.op = "update" /\ push.op # "delete" /\ push.id = r.id /\ push.record = r.record
      BY <1>2 DEF Change
    <2>4. server'[r.id] = r.record /\ \A j \in Loose!Id \ {r.id} : server'[j] = server[j]
      BY <1>1, <1>2, <2>1 DEF WriteTypes
    <2> HIDE DEF push
    <2>5. /\ notified' \in Seq(Change)
          /\ LastIsTheServers'
          /\ Pushed(r.id)' /\ \A j \in Loose!Id : Pushed(j) => Pushed(j)'
      <3>1. /\ server'[push.id] # None
            /\ push.op = "delete" <=> push.id \in deleted'
            /\ push.op = "update" => push.record = server'[push.id]
            /\ \A j \in Loose!Id \ {push.id} : server'[j] = server[j] /\ (j \in deleted' <=> j \in deleted)
        BY <1>2, <2>2, <2>3, <2>4
      <3>2. /\ notified' \in Seq(Change)
            /\ LastIsTheServers'
            /\ Pushed(push.id)' /\ \A j \in Loose!Id : Pushed(j) => Pushed(j)'
        BY <1>1, <2>1, <2>3, <3>1, Announced
      <3>3. QED
        BY <2>3, <3>2
    <2>6. WriteTypes'
      BY <1>1, <1>2, <2>1, <2>5 DEF WriteTypes
    <2>7. OneStore'
      BY <1>1, <1>2 DEF OneStore
    <2>8. FreeIsNowhere'
      BY <1>1, <1>2, <2>4 DEF FreeIsNowhere
    <2>9. RequestsAreOwn'
      <3>1. \A q \in requests' : q.op = "create" => q.id # r.id
        <4> SUFFICES ASSUME NEW q \in requests, q # r, q.op = "create", q.id = r.id PROVE FALSE
          BY <1>2
        <4>1. server[r.id] = None
          BY <1>1 DEF RequestsAreOwn
        <4>2. r.op = "create"
          BY <1>3, <4>1 DEF Loose!Accepts, Loose!Live
        <4>3. QED
          BY <1>1, <4>2 DEF RequestsAreOwn
      <3>2. \A q \in requests' : q.id \in Loose!Id
        BY <1>1, <1>2 DEF WriteTypes
      <3>3. QED
        BY <1>1, <1>2, <2>4, <3>1, <3>2 DEF RequestsAreOwn
    <2>10. DifferencesAreOnTheirWay'
      <3> SUFFICES ASSUME lost' = 0, NEW j \in Loose!Id, j # r.id PROVE Pushed(j)' \/ Coming(j)' \/ Agrees(j)'
        BY <2>5 DEF DifferencesAreOnTheirWay
      <3>1. Pushed(j) \/ Coming(j) \/ Agrees(j)
        BY <1>1, <1>2 DEF DifferencesAreOnTheirWay
      <3>2. Coming(j) => Coming(j)'
        BY <1>2, <2>4 DEF Coming, Loose!Accepts, Loose!Live
      <3>3. Agrees(j) => Agrees(j)'
        BY <1>1, <1>2, <2>4, AgreesStill
      <3>4. QED
        BY <2>5, <3>1, <3>2, <3>3
    <2>11. QED
      BY <2>5, <2>6, <2>7, <2>8, <2>9, <2>10 DEF WritesInv
  <1>4. CASE ~ Loose!Accepts(r)
    <2>1. UNCHANGED <<server, notified>>
      BY <1>4 DEF Loose!Serve
    <2>2. WriteTypes' /\ OneStore'
      BY <1>1, <1>2, <2>1 DEF WriteTypes, OneStore
    <2>3. LastIsTheServers' /\ FreeIsNowhere' /\ RequestsAreOwn'
      BY <1>1, <1>2, <2>1 DEF LastIsTheServers, FreeIsNowhere, RequestsAreOwn
    <2>4. DifferencesAreOnTheirWay'
      <3> SUFFICES ASSUME lost' = 0, NEW j \in Loose!Id PROVE Pushed(j)' \/ Coming(j)' \/ Agrees(j)'
        BY DEF DifferencesAreOnTheirWay
      <3>1. Pushed(j) \/ Coming(j) \/ Agrees(j)
        BY <1>1, <1>2 DEF DifferencesAreOnTheirWay
      <3>2. Coming(j) => Coming(j)'
        BY <1>2, <1>4, <2>1 DEF Coming, Loose!Accepts, Loose!Live
      <3>3. Agrees(j) => Agrees(j)'
        BY <1>1, <1>2, <2>1, AgreesStill
      <3>4. QED
        BY <2>1, <3>1, <3>2, <3>3 DEF Pushed
    <2>5. QED
      BY <2>2, <2>3, <2>4 DEF WritesInv
  <1>5. QED
    BY <1>3, <1>4

\* A request is lost.
LEMMA FailStep ==
    ASSUME WritesInv, NEW r \in requests, Loose!Fail(r)
    PROVE  WritesInv'
  <1>1. /\ WriteTypes /\ OneStore /\ LastIsTheServers /\ FreeIsNowhere /\ RequestsAreOwn
    BY DEF WritesInv
  <1>2. /\ requests' = requests \ {r} /\ lost' = lost + 1
        /\ UNCHANGED <<server, deleted, stores, cache, active, notified, written, own>>
    BY DEF Loose!Fail
  <1>3. lost' \in Nat /\ lost' # 0
    BY <1>1, <1>2 DEF WriteTypes
  <1>4. WriteTypes' /\ OneStore'
    BY <1>1, <1>2, <1>3 DEF WriteTypes, OneStore
  <1>5. LastIsTheServers' /\ FreeIsNowhere' /\ RequestsAreOwn'
    BY <1>1, <1>2 DEF LastIsTheServers, FreeIsNowhere, RequestsAreOwn
  <1>6. DifferencesAreOnTheirWay'
    BY <1>3 DEF DifferencesAreOnTheirWay
  <1>7. QED
    BY <1>4, <1>5, <1>6 DEF WritesInv

\* Another client writes a row.
LEMMA OtherPutsStep ==
    ASSUME WritesInv, NEW i \in Loose!Id, NEW v \in Loose!Visibility, Loose!OtherPuts(i, v)
    PROVE  WritesInv'
  <1>0. PICK w \in Nat : w = written
    BY DEF WritesInv, WriteTypes
  <1> DEFINE record == [n |-> w + 1, visibility |-> v]
             push   == [op |-> "update", id |-> i, record |-> record]
  <1>1. /\ WriteTypes /\ OneStore /\ LastIsTheServers /\ DifferencesAreOnTheirWay
        /\ FreeIsNowhere /\ RequestsAreOwn
    BY DEF WritesInv
  <1>2. /\ Loose!Live(i) \/ (server[i] = None /\ own[i] = 0)
        /\ written' = written + 1
        /\ server' = [server EXCEPT ![i] = record] /\ own' = [own EXCEPT ![i] = 0]
        /\ notified' = Append(notified, push)
        /\ UNCHANGED <<deleted, stores, cache, active, requests, lost>>
    BY <1>0 DEF Loose!OtherPuts, Loose!NextWrite, Loose!Request
  <1>3. /\ record \in Rec /\ None \notin Rec /\ written + 1 \in Nat /\ written + 1 >= written
        /\ push \in Change
        /\ push.op = "update" /\ push.op # "delete" /\ push.id = i /\ push.record = record
    BY <1>0, <1>1, WriteConstants DEF WriteTypes, Rec, Change
  <1> HIDE DEF record, push
  <1>4. /\ server'[i] = record /\ own'[i] = 0
        /\ \A j \in Loose!Id \ {i} : server'[j] = server[j] /\ own'[j] = own[j]
    BY <1>1, <1>2 DEF WriteTypes
  <1>5. i \notin deleted
    BY <1>1, <1>2 DEF Loose!Live, FreeIsNowhere
  <1>6. /\ notified' \in Seq(Change)
        /\ LastIsTheServers'
        /\ Pushed(i)' /\ \A j \in Loose!Id : Pushed(j) => Pushed(j)'
    <2>1. /\ server'[push.id] # None
          /\ push.op = "delete" <=> push.id \in deleted'
          /\ push.op = "update" => push.record = server'[push.id]
          /\ \A j \in Loose!Id \ {push.id} : server'[j] = server[j] /\ (j \in deleted' <=> j \in deleted)
      BY <1>2, <1>3, <1>4, <1>5
    <2>2. /\ notified' \in Seq(Change)
          /\ LastIsTheServers'
          /\ Pushed(push.id)' /\ \A j \in Loose!Id : Pushed(j) => Pushed(j)'
      BY <1>1, <1>2, <1>3, <2>1, Announced
    <2>3. QED
      BY <1>3, <2>2
  <1>7. WriteTypes'
    BY <1>1, <1>2, <1>3, <1>6 DEF WriteTypes
  <1>8. OneStore'
    BY <1>1, <1>2 DEF OneStore
  <1>9. FreeIsNowhere'
    BY <1>1, <1>2, <1>3, <1>4 DEF FreeIsNowhere
  <1>10. RequestsAreOwn'
    <2>1. \A r \in requests : r.id \in Loose!Id /\ r.record.n \in Nat
      BY <1>1 DEF WriteTypes, Rec
    <2>2. \A r \in requests : r.op = "create" => r.id # i
      BY <1>1, <1>2 DEF RequestsAreOwn, Loose!Live
    <2>3. \A j \in Loose!Id : own'[j] <= written'
      BY <1>1, <1>2, <1>3, <1>4 DEF RequestsAreOwn, WriteTypes
    <2>4. ASSUME NEW r \in requests
          PROVE  /\ r.record.n <= written'
                 /\ own'[r.id] # 0 => r.record.n <= own'[r.id]
                 /\ r.op = "create" => server'[r.id] = None /\ own'[r.id] # 0
      <3>1. r.record.n <= written /\ (own[r.id] # 0 => r.record.n <= own[r.id])
            /\ (r.op = "create" => server[r.id] = None /\ own[r.id] # 0)
        BY <1>1 DEF RequestsAreOwn
      <3>2. QED
        BY <1>1, <1>2, <1>3, <1>4, <2>1, <2>2, <3>1 DEF WriteTypes
    <2>5. QED
      BY <1>1, <1>2, <2>3, <2>4 DEF RequestsAreOwn
  <1>11. DifferencesAreOnTheirWay'
    <2> SUFFICES ASSUME lost' = 0, NEW j \in Loose!Id, j # i PROVE Pushed(j)' \/ Coming(j)' \/ Agrees(j)'
      BY <1>6 DEF DifferencesAreOnTheirWay
    <2>1. Pushed(j) \/ Coming(j) \/ Agrees(j)
      BY <1>1, <1>2 DEF DifferencesAreOnTheirWay
    <2>2. Coming(j) => Coming(j)'
      BY <1>2, <1>4 DEF Coming, Loose!Accepts, Loose!Live
    <2>3. Agrees(j) => Agrees(j)'
      BY <1>1, <1>2, <1>4, AgreesStill
    <2>4. QED
      BY <1>6, <2>1, <2>2, <2>3
  <1>12. QED
    BY <1>6, <1>7, <1>8, <1>9, <1>10, <1>11 DEF WritesInv

\* Another client deletes a row.
LEMMA OtherDeletesStep ==
    ASSUME WritesInv, NEW i \in Loose!Id, Loose!OtherDeletes(i)
    PROVE  WritesInv'
  <1>0. PICK old \in Rec \cup {None} : old = server[i]
    BY DEF WritesInv, WriteTypes
  <1> DEFINE push == [op |-> "delete", id |-> i, record |-> old]
  <1>1. /\ WriteTypes /\ OneStore /\ LastIsTheServers /\ DifferencesAreOnTheirWay
        /\ FreeIsNowhere /\ RequestsAreOwn
    BY DEF WritesInv
  <1>2. /\ server[i] # None /\ i \notin deleted
        /\ written' = written + 1
        /\ deleted' = deleted \cup {i} /\ own' = [own EXCEPT ![i] = 0]
        /\ notified' = Append(notified, push)
        /\ UNCHANGED <<server, stores, cache, active, requests, lost>>
    BY <1>0 DEF Loose!OtherDeletes, Loose!NextWrite, Loose!Request, Loose!Live
  <1>3. /\ written + 1 \in Nat /\ written + 1 >= written
        /\ push \in Change
        /\ push.op = "delete" /\ push.op # "update" /\ push.id = i
    BY <1>0, <1>1, <1>2 DEF WriteTypes, Change
  <1> HIDE DEF push
  <1>4. own'[i] = 0 /\ \A j \in Loose!Id \ {i} : own'[j] = own[j]
    BY <1>1, <1>2 DEF WriteTypes
  <1>5. /\ notified' \in Seq(Change)
        /\ LastIsTheServers'
        /\ Pushed(i)' /\ \A j \in Loose!Id : Pushed(j) => Pushed(j)'
    <2>1. /\ server'[push.id] # None
          /\ push.op = "delete" <=> push.id \in deleted'
          /\ push.op = "update" => push.record = server'[push.id]
          /\ \A j \in Loose!Id \ {push.id} : server'[j] = server[j] /\ (j \in deleted' <=> j \in deleted)
      BY <1>2, <1>3
    <2>2. /\ notified' \in Seq(Change)
          /\ LastIsTheServers'
          /\ Pushed(push.id)' /\ \A j \in Loose!Id : Pushed(j) => Pushed(j)'
      BY <1>1, <1>2, <1>3, <2>1, Announced
    <2>3. QED
      BY <1>3, <2>2
  <1>6. WriteTypes'
    BY <1>1, <1>2, <1>3, <1>5 DEF WriteTypes
  <1>7. OneStore'
    BY <1>1, <1>2 DEF OneStore
  <1>8. FreeIsNowhere'
    BY <1>1, <1>2, <1>4 DEF FreeIsNowhere
  <1>9. RequestsAreOwn'
    <2>1. \A r \in requests : r.id \in Loose!Id /\ r.record.n \in Nat
      BY <1>1 DEF WriteTypes, Rec
    <2>2. \A r \in requests : r.op = "create" => r.id # i
      BY <1>1, <1>2 DEF RequestsAreOwn
    <2>3. \A j \in Loose!Id : own'[j] <= written'
      BY <1>1, <1>2, <1>3, <1>4 DEF RequestsAreOwn, WriteTypes
    <2>4. ASSUME NEW r \in requests
          PROVE  /\ r.record.n <= written'
                 /\ own'[r.id] # 0 => r.record.n <= own'[r.id]
                 /\ r.op = "create" => server'[r.id] = None /\ own'[r.id] # 0
      <3>1. r.record.n <= written /\ (own[r.id] # 0 => r.record.n <= own[r.id])
            /\ (r.op = "create" => server[r.id] = None /\ own[r.id] # 0)
        BY <1>1 DEF RequestsAreOwn
      <3>2. QED
        BY <1>1, <1>2, <1>3, <1>4, <2>1, <2>2, <3>1 DEF WriteTypes
    <2>5. QED
      BY <1>1, <1>2, <2>3, <2>4 DEF RequestsAreOwn
  <1>10. DifferencesAreOnTheirWay'
    <2> SUFFICES ASSUME lost' = 0, NEW j \in Loose!Id, j # i PROVE Pushed(j)' \/ Coming(j)' \/ Agrees(j)'
      BY <1>5 DEF DifferencesAreOnTheirWay
    <2>1. Pushed(j) \/ Coming(j) \/ Agrees(j)
      BY <1>1, <1>2 DEF DifferencesAreOnTheirWay
    <2>2. Coming(j) => Coming(j)'
      BY <1>2 DEF Coming, Loose!Accepts, Loose!Live
    <2>3. Agrees(j) => Agrees(j)'
      BY <1>1, <1>2, AgreesStill
    <2>4. QED
      BY <1>5, <2>1, <2>2, <2>3
  <1>11. QED
    BY <1>5, <1>6, <1>7, <1>8, <1>9, <1>10 DEF WritesInv

\* The app applies the next push.
LEMMA PushStep ==
    ASSUME WritesInv, Loose!Push
    PROVE  WritesInv'
  <1>1. /\ WriteTypes /\ OneStore /\ LastIsTheServers /\ DifferencesAreOnTheirWay
        /\ FreeIsNowhere /\ RequestsAreOwn
    BY DEF WritesInv
  <1>2. notified # << >> /\ notified \in Seq(Change)
    BY <1>1 DEF Loose!Push, WriteTypes
  <1>3. PICK push \in Change : push = Head(notified)
    BY <1>2
  <1> DEFINE i == push.id
             n == Len(notified)
  <1>4. /\ i \in Loose!Id /\ push.record \in Rec /\ push.op \in {"update", "delete"}
        /\ push.record.visibility \in Loose!Visibility
    BY DEF Change, Rec
  <1>5. /\ n \in Nat /\ n > 0 /\ DOMAIN notified = 1 .. n /\ notified[1] = push
        /\ notified' \in Seq(Change) /\ DOMAIN notified' = 1 .. n - 1
        /\ \A k \in 1 .. n - 1 : notified'[k] = notified[k + 1]
    BY <1>2, <1>3 DEF Loose!Push
  <1>6. UNCHANGED <<server, deleted, active, requests, written, lost, own>>
    BY DEF Loose!Push
  <1>7. server[i] # None
    BY <1>1, <1>5 DEF LastIsTheServers
  <1>8. /\ DOMAIN stores' = Loose!Visibility
        /\ \A s \in Loose!Visibility :
              /\ DOMAIN stores'[s] \subseteq Loose!Id
              /\ \A j \in Loose!Id \ {i} :
                    /\ j \in DOMAIN stores'[s] <=> j \in DOMAIN stores[s]
                    /\ j \in DOMAIN stores[s] => stores'[s][j] = stores[s][j]
              /\ push.op = "delete" => i \notin DOMAIN stores'[s]
              /\ push.op # "delete" =>
                    /\ i \in DOMAIN stores'[s] <=> s = push.record.visibility
                    /\ s = push.record.visibility => stores'[s][i].record = push.record
    <2>1. CASE push.op = "delete"
      <3>1. stores' = [s \in Loose!Visibility |-> [j \in DOMAIN stores[s] \ {i} |-> stores[s][j]]]
        BY <1>3, <2>1 DEF Loose!Push, Loose!AppliedPush, Loose!RemoveSyncedRecord, Loose!Delete
      <3>2. \A s \in Loose!Visibility : DOMAIN stores[s] \subseteq Loose!Id
        BY <1>1 DEF WriteTypes
      <3>3. QED
        BY <2>1, <3>1, <3>2
    <2>2. CASE push.op # "delete"
      <3> DEFINE v == push.record.visibility
      <3>1. /\ stores' = [s \in Loose!Visibility |->
                            IF s = v THEN Loose!Upsert(stores[s], i, push.record, Loose!Place(stores[s], i, None))
                            ELSE Loose!Delete(stores[s], i)]
        BY <1>3, <2>2 DEF Loose!Push, Loose!AppliedPush, Loose!ApplySyncedRecord
      <3>2. ASSUME NEW s \in Loose!Visibility, s = v
            PROVE  /\ DOMAIN stores'[s] = DOMAIN stores[s] \cup {i}
                   /\ stores'[s][i].record = push.record
                   /\ \A j \in DOMAIN stores[s] \ {i} : stores'[s][j] = stores[s][j]
        BY <3>1, <3>2 DEF Loose!Upsert
      <3>3. ASSUME NEW s \in Loose!Visibility, s # v
            PROVE  /\ DOMAIN stores'[s] = DOMAIN stores[s] \ {i}
                   /\ \A j \in DOMAIN stores[s] \ {i} : stores'[s][j] = stores[s][j]
        BY <3>1, <3>3 DEF Loose!Delete
      <3>4. DOMAIN stores' = Loose!Visibility /\ \A s \in Loose!Visibility : DOMAIN stores[s] \subseteq Loose!Id
        BY <1>1, <3>1 DEF WriteTypes
      <3> HIDE DEF v
      <3>5. QED
        BY <1>4, <2>2, <3>2, <3>3, <3>4 DEF v
    <2>3. QED
      BY <2>1, <2>2
  <1>9. /\ cache' \in [RecordPages -> Opened \cup {None}]
        /\ \A p \in RecordPages :
              /\ cache'[p] # None /\ cache'[p].id # i => cache'[p] = cache[p]
              /\ push.op # "delete" /\ cache'[p] # None /\ cache'[p].id = i => cache'[p].record = push.record
    <2>1. CASE push.op = "delete"
      BY <1>1, <1>3, <2>1 DEF Loose!Push, Loose!AppliedPush, WriteTypes
    <2>2. CASE push.op # "delete"
      <3>1. cache' = [p \in RecordPages |-> IF cache[p] # None /\ cache[p].id = i
                                            THEN [id |-> i, record |-> push.record] ELSE cache[p]]
        BY <1>3, <2>2 DEF Loose!Push, Loose!AppliedPush, Loose!RefreshCacheSnapshots
      <3>2. [id |-> i, record |-> push.record] \in Opened
        BY <1>4 DEF Opened
      <3>3. cache \in [RecordPages -> Opened \cup {None}]
        BY <1>1 DEF WriteTypes
      <3>4. QED
        BY <2>2, <3>1, <3>2, <3>3
    <2>3. QED
      BY <2>1, <2>2
  <1> HIDE DEF i, n
  <1>10. WriteTypes'
    <2>1. ASSUME NEW s \in Loose!Visibility, NEW j \in DOMAIN stores'[s]
          PROVE  stores'[s][j].record \in Rec
      <3>1. j \in Loose!Id
        BY <1>8
      <3>2. j # i => j \in DOMAIN stores[s] /\ stores'[s][j].record = stores[s][j].record
        BY <1>8, <3>1
      <3>3. j = i => stores'[s][j].record = push.record
        BY <1>8
      <3>4. QED
        BY <1>1, <1>4, <3>2, <3>3 DEF WriteTypes
    <2>2. QED
      BY <1>1, <1>5, <1>6, <1>8, <1>9, <2>1 DEF WriteTypes
  <1>11. OneStore'
    <2>1. \A j \in Loose!Id \ {i} : ~ (j \in DOMAIN stores'["public"] /\ j \in DOMAIN stores'["private"])
      BY <1>1, <1>8 DEF OneStore, Loose!Visibility
    <2>2. ~ (i \in DOMAIN stores'["public"] /\ i \in DOMAIN stores'["private"])
      BY <1>8 DEF Loose!Visibility
    <2>3. QED
      BY <2>1, <2>2 DEF OneStore
  <1>12. LastIsTheServers'
    <2> SUFFICES ASSUME NEW k \in 1 .. n - 1
                 PROVE  /\ server'[notified'[k].id] # None
                        /\ (\A j \in 1 .. n - 1 : j > k => notified'[j].id # notified'[k].id)
                           => /\ notified'[k].op = "delete" <=> notified'[k].id \in deleted'
                              /\ notified'[k].op = "update" => notified'[k].record = server'[notified'[k].id]
      BY <1>5 DEF LastIsTheServers
    <2>1. k + 1 \in 1 .. n /\ notified'[k] = notified[k + 1]
      BY <1>5
    <2>2. /\ server[notified[k + 1].id] # None
          /\ (\A j \in 1 .. n : j > k + 1 => notified[j].id # notified[k + 1].id)
             => /\ notified[k + 1].op = "delete" <=> notified[k + 1].id \in deleted
                /\ notified[k + 1].op = "update" => notified[k + 1].record = server[notified[k + 1].id]
      BY <1>1, <1>5, <2>1 DEF LastIsTheServers
    <2>3. ASSUME \A j \in 1 .. n - 1 : j > k => notified'[j].id # notified'[k].id,
                 NEW j \in 1 .. n, j > k + 1
          PROVE  notified[j].id # notified[k + 1].id
      <3>1. j - 1 \in 1 .. n - 1 /\ j - 1 > k /\ (j - 1) + 1 = j
        BY <1>5, <2>3
      <3>2. notified'[j - 1].id # notified'[k].id /\ notified'[j - 1] = notified[j]
        BY <1>5, <2>3, <3>1
      <3>3. QED
        BY <2>1, <3>2
    <2>4. QED
      BY <1>6, <2>1, <2>2, <2>3
  <1>13. FreeIsNowhere'
    BY <1>1, <1>6, <1>7, <1>8 DEF FreeIsNowhere
  <1>14. RequestsAreOwn'
    BY <1>1, <1>6 DEF RequestsAreOwn
  <1>15. DifferencesAreOnTheirWay'
    <2> SUFFICES ASSUME lost' = 0, NEW j \in Loose!Id PROVE Pushed(j)' \/ Coming(j)' \/ Agrees(j)'
      BY DEF DifferencesAreOnTheirWay
    <2>1. Pushed(j) \/ Coming(j) \/ Agrees(j)
      BY <1>1, <1>6 DEF DifferencesAreOnTheirWay
    <2>2. Coming(j) => Coming(j)'
      BY <1>6 DEF Coming, Loose!Accepts, Loose!Live
    <2>3. CASE j # i
      <3>1. Pushed(j) => Pushed(j)'
        <4> SUFFICES ASSUME NEW k \in 1 .. n, notified[k].id = j PROVE Pushed(j)'
          BY <1>5 DEF Pushed
        <4>1. k # 1
          BY <1>5, <2>3 DEF i
        <4>2. k - 1 \in 1 .. n - 1 /\ (k - 1) + 1 = k
          BY <1>5, <4>1
        <4>3. QED
          BY <1>5, <4>2 DEF Pushed
      <3>2. Agrees(j) => Agrees(j)'
        BY <1>1, <1>6, <1>8, <1>9, <2>3, AgreesStill
      <3>3. QED
        BY <2>1, <2>2, <3>1, <3>2
    <2>4. CASE j = i /\ ~ Pushed(j)'
      <3>1. \A k \in 1 .. n : k > 1 => notified[k].id # i
        <4> SUFFICES ASSUME NEW k \in 1 .. n, k > 1, notified[k].id = i PROVE FALSE
          OBVIOUS
        <4>1. k - 1 \in 1 .. n - 1 /\ (k - 1) + 1 = k
          BY <1>5
        <4>2. QED
          BY <1>5, <2>4, <4>1 DEF Pushed
      <3>2. /\ push.op = "delete" <=> i \in deleted
            /\ push.op = "update" => push.record = server[i]
        BY <1>1, <1>5, <3>1 DEF LastIsTheServers, i
      <3>3. CASE push.op = "delete"
        BY <1>6, <1>8, <2>4, <3>2, <3>3 DEF Agrees, Loose!Live
      <3>4. CASE push.op # "delete"
        BY <1>4, <1>6, <1>7, <1>8, <1>9, <2>4, <3>2, <3>4 DEF Agrees, Loose!Live
      <3>5. QED
        BY <3>3, <3>4
    <2>5. QED
      BY <2>3, <2>4
  <1>16. QED
    BY <1>10, <1>11, <1>12, <1>13, <1>14, <1>15 DEF WritesInv

\* The app takes over what a sync brings.
LEMMA SyncStep ==
    ASSUME WritesInv, NEW full \in BOOLEAN, Loose!Sync(full)
    PROVE  WritesInv'
  <1> DEFINE after == Loose!Synced(full)
             gone  == IF full THEN {} ELSE deleted
  <1>1. /\ WriteTypes /\ OneStore /\ LastIsTheServers /\ DifferencesAreOnTheirWay
        /\ FreeIsNowhere /\ RequestsAreOwn
    BY DEF WritesInv
  <1>2. /\ notified = << >>
        /\ UNCHANGED <<server, deleted, active, requests, notified, written, lost, own>>
    BY DEF Loose!Sync
  <1>3. ASSUME NEW s \in Loose!Visibility
        PROVE  /\ DOMAIN after[s] \subseteq Loose!Id
               /\ \A i \in Loose!Id :
                     IF Loose!Live(i)
                     THEN /\ i \in DOMAIN after[s] <=> s = server[i].visibility
                          /\ s = server[i].visibility => after[s][i].record = server[i]
                     ELSE /\ i \in DOMAIN after[s] <=> i \in DOMAIN stores[s]
                          /\ i \in DOMAIN stores[s] => after[s][i] = stores[s][i]
    BY <1>1, SyncedRows
  <1>4. stores' = [s \in Loose!Visibility |-> [i \in DOMAIN after[s] \ gone |-> after[s][i]]]
    BY DEF Loose!Sync
  <1>5. /\ cache' = [p \in RecordPages |-> IF cache[p] # None /\ Loose!Live(cache[p].id)
                                           THEN [id |-> cache[p].id, record |-> server[cache[p].id]]
                                           ELSE cache[p]]
    BY DEF Loose!Sync
  <1> HIDE DEF after
  <1>6. DOMAIN stores' = Loose!Visibility
    BY <1>4
  <1>7. ASSUME NEW s \in Loose!Visibility, NEW i \in Loose!Id
        PROVE  IF Loose!Live(i)
               THEN /\ i \in DOMAIN stores'[s] <=> s = server[i].visibility
                    /\ s = server[i].visibility => stores'[s][i].record = server[i]
               ELSE IF i \in gone THEN i \notin DOMAIN stores'[s]
               ELSE /\ i \in DOMAIN stores'[s] <=> i \in DOMAIN stores[s]
                    /\ i \in DOMAIN stores[s] => stores'[s][i].record = stores[s][i].record
    <2>1. /\ DOMAIN stores'[s] = DOMAIN after[s] \ gone
          /\ \A j \in DOMAIN after[s] \ gone : stores'[s][j] = after[s][j]
      BY <1>4
    <2>2. Loose!Live(i) => i \notin gone
      BY DEF Loose!Live
    <2>3. QED
      BY <1>3, <2>1, <2>2
  <1>8. \A s \in Loose!Visibility : DOMAIN stores'[s] \subseteq Loose!Id
    BY <1>3, <1>4
  <1> HIDE DEF gone
  <1>9. /\ cache' \in [RecordPages -> Opened \cup {None}]
        /\ \A p \in RecordPages :
              cache'[p] # None => IF Loose!Live(cache'[p].id) THEN cache'[p].record = server[cache'[p].id]
                                  ELSE cache'[p] = cache[p]
    <2>1. cache \in [RecordPages -> Opened \cup {None}]
      BY <1>1 DEF WriteTypes
    <2>2. \A i \in Loose!Id : Loose!Live(i) => [id |-> i, record |-> server[i]] \in Opened
      BY <1>1 DEF Opened, WriteTypes, Loose!Live
    <2>3. \A o \in Opened : o.id \in Loose!Id
      BY DEF Opened
    <2>4. QED
      BY <1>5, <2>1, <2>2, <2>3
  <1>10. WriteTypes'
    <2>1. ASSUME NEW s \in Loose!Visibility, NEW j \in DOMAIN stores'[s]
          PROVE  stores'[s][j].record \in Rec
      <3>1. j \in Loose!Id
        BY <1>8
      <3>2. CASE Loose!Live(j)
        BY <1>1, <1>7, <3>1, <3>2 DEF WriteTypes, Loose!Live
      <3>3. CASE ~ Loose!Live(j)
        BY <1>1, <1>7, <3>1, <3>3 DEF WriteTypes
      <3>4. QED
        BY <3>2, <3>3
    <2>2. QED
      BY <1>1, <1>2, <1>6, <1>8, <1>9, <2>1 DEF WriteTypes
  <1>11. OneStore'
    <2> SUFFICES ASSUME NEW i \in Loose!Id
                 PROVE  ~ (i \in DOMAIN stores'["public"] /\ i \in DOMAIN stores'["private"])
      BY DEF OneStore
    <2>1. "public" \in Loose!Visibility /\ "private" \in Loose!Visibility /\ "public" # "private"
      BY DEF Loose!Visibility
    <2>2. CASE Loose!Live(i)
      BY <1>7, <2>1, <2>2
    <2>3. CASE ~ Loose!Live(i)
      BY <1>1, <1>7, <2>1, <2>3 DEF OneStore
    <2>4. QED
      BY <2>2, <2>3
  <1>12. LastIsTheServers' /\ RequestsAreOwn'
    BY <1>1, <1>2 DEF LastIsTheServers, RequestsAreOwn
  <1>13. FreeIsNowhere'
    <2> SUFFICES ASSUME NEW i \in Loose!Id, server[i] = None
                 PROVE  /\ i \notin deleted
                        /\ own[i] = 0 => /\ \A s \in Loose!Visibility : i \notin DOMAIN stores'[s]
                                         /\ \A r \in requests : r.id # i
      BY <1>2 DEF FreeIsNowhere
    <2>1. ~ Loose!Live(i)
      BY DEF Loose!Live
    <2>2. QED
      BY <1>1, <1>7, <2>1 DEF FreeIsNowhere
  <1>14. DifferencesAreOnTheirWay'
    <2> SUFFICES ASSUME lost' = 0, NEW j \in Loose!Id PROVE Pushed(j)' \/ Coming(j)' \/ Agrees(j)'
      BY DEF DifferencesAreOnTheirWay
    <2>1. Loose!Live(j)' <=> Loose!Live(j)
      BY <1>2 DEF Loose!Live
    <2>2. CASE Loose!Live(j)
      <3>1. server[j].visibility \in Loose!Visibility
        BY <1>1, <2>2 DEF WriteTypes, Loose!Live, Rec
      <3>2. \A p \in RecordPages : cache'[p] # None /\ cache'[p].id = j => cache'[p].record = server[j]
        BY <1>9, <2>2
      <3>3. QED
        BY <1>2, <1>7, <2>1, <2>2, <3>1, <3>2 DEF Agrees
    <2>3. CASE ~ Loose!Live(j)
      <3>1. Coming(j) \/ Agrees(j)
        BY <1>1, <1>2 DEF DifferencesAreOnTheirWay, Pushed
      <3>2. Coming(j) => Coming(j)'
        BY <1>2 DEF Coming, Loose!Accepts, Loose!Live
      <3>3. Agrees(j) => Agrees(j)'
        BY <1>7, <2>1, <2>3 DEF Agrees
      <3>4. QED
        BY <3>1, <3>2, <3>3
    <2>4. QED
      BY <2>2, <2>3
  <1>15. QED
    BY <1>10, <1>11, <1>12, <1>13, <1>14 DEF WritesInv

\* A page is opened on a row, or comes back into view.
LEMMA OpenStep ==
    ASSUME WritesInv, NEW p \in RecordPages, NEW i \in Loose!Id, Loose!Open(p, i)
    PROVE  WritesInv'
  <1>1. /\ WriteTypes /\ OneStore /\ LastIsTheServers /\ DifferencesAreOnTheirWay
        /\ FreeIsNowhere /\ RequestsAreOwn
    BY DEF WritesInv
  <1>2. /\ Loose!Holds(i) /\ active' = p
        /\ cache' = IF Loose!Resolved(i) = None THEN cache
                    ELSE [cache EXCEPT ![p] = [id |-> i, record |-> Loose!Resolved(i)]]
        /\ UNCHANGED <<server, deleted, stores, requests, notified, written, lost, own>>
    BY DEF Loose!Open
  <1>3. Loose!Resolved(i) # None =>
            \E s \in Loose!Visibility : i \in DOMAIN stores[s] /\ Loose!Resolved(i) = stores[s][i].record
    BY DEF Loose!Resolved, Loose!Visibility
  <1>4. Loose!Resolved(i) # None => Loose!Resolved(i) \in Rec
    BY <1>1, <1>3 DEF WriteTypes
  <1>5. cache' \in [RecordPages -> Opened \cup {None}]
    <2>1. cache \in [RecordPages -> Opened \cup {None}]
      BY <1>1 DEF WriteTypes
    <2>2. Loose!Resolved(i) # None => [id |-> i, record |-> Loose!Resolved(i)] \in Opened
      BY <1>4 DEF Opened
    <2>3. QED
      BY <1>2, <2>1, <2>2
  <1>6. WriteTypes' /\ OneStore'
    BY <1>1, <1>2, <1>5 DEF WriteTypes, OneStore
  <1>7. LastIsTheServers' /\ FreeIsNowhere' /\ RequestsAreOwn'
    BY <1>1, <1>2 DEF LastIsTheServers, FreeIsNowhere, RequestsAreOwn
  <1>8. DifferencesAreOnTheirWay'
    <2> SUFFICES ASSUME lost' = 0, NEW j \in Loose!Id PROVE Pushed(j)' \/ Coming(j)' \/ Agrees(j)'
      BY DEF DifferencesAreOnTheirWay
    <2>1. Pushed(j) \/ Coming(j) \/ Agrees(j)
      BY <1>1, <1>2 DEF DifferencesAreOnTheirWay
    <2>2. Pushed(j) => Pushed(j)'
      BY <1>2 DEF Pushed
    <2>3. Coming(j) => Coming(j)'
      BY <1>2 DEF Coming, Loose!Accepts, Loose!Live
    <2>4. ASSUME Agrees(j) PROVE Agrees(j)'
      <3>1. CASE j = i
        <4>1. Loose!Live(j)
          BY <1>2, <2>4, <3>1 DEF Agrees, Loose!Holds
        <4>2. /\ \A s \in Loose!Visibility : j \in DOMAIN stores[s] <=> s = server[j].visibility
              /\ stores[server[j].visibility][j].record = server[j]
              /\ \A q \in RecordPages : cache[q] # None /\ cache[q].id = j => cache[q].record = server[j]
          BY <2>4, <4>1 DEF Agrees
        <4>3. Loose!Resolved(j) # None => Loose!Resolved(j) = server[j]
          BY <1>3, <3>1, <4>2
        <4>4. \A q \in RecordPages : cache'[q] # None /\ cache'[q].id = j => cache'[q].record = server[j]
          BY <1>1, <1>2, <3>1, <4>2, <4>3 DEF WriteTypes
        <4>5. Loose!Live(j)'
          BY <1>2, <4>1 DEF Loose!Live
        <4>6. QED
          BY <1>2, <4>2, <4>4, <4>5 DEF Agrees
      <3>2. CASE j # i
        <4>1. \A q \in RecordPages : cache'[q] # None /\ cache'[q].id = j => cache'[q] = cache[q]
          BY <1>1, <1>2, <3>2 DEF WriteTypes
        <4>2. QED
          BY <1>1, <1>2, <2>4, <4>1, AgreesStill
      <3>3. QED
        BY <3>1, <3>2
    <2>5. QED
      BY <2>1, <2>2, <2>3, <2>4
  <1>9. QED
    BY <1>6, <1>7, <1>8 DEF WritesInv

\* What a step leaves alone that does not touch the rows.
LEMMA WritesRest ==
    ASSUME WritesInv,
           UNCHANGED <<server, deleted, stores, cache, requests, notified, written, lost, own>>,
           active' \in RecordPages
    PROVE  WritesInv'
  <1>1. /\ WriteTypes /\ OneStore /\ LastIsTheServers /\ DifferencesAreOnTheirWay
        /\ FreeIsNowhere /\ RequestsAreOwn
    BY DEF WritesInv
  <1>2. WriteTypes' /\ OneStore'
    BY <1>1 DEF WriteTypes, OneStore
  <1>3. LastIsTheServers' /\ FreeIsNowhere' /\ RequestsAreOwn'
    BY <1>1 DEF LastIsTheServers, FreeIsNowhere, RequestsAreOwn
  <1>4. DifferencesAreOnTheirWay'
    BY <1>1 DEF DifferencesAreOnTheirWay, Pushed, Coming, Agrees, Loose!Accepts, Loose!Live
  <1>5. QED
    BY <1>2, <1>3, <1>4 DEF WritesInv

LEMMA WritesInit == Init => WritesInv /\ LastWins
  <1> SUFFICES ASSUME Init PROVE WritesInv /\ LastWins
    OBVIOUS
  <1>1. /\ server = [i \in Loose!Id |-> None] /\ deleted = {}
        /\ stores = [s \in Loose!Visibility |-> [i \in {} |-> None]]
        /\ cache = [p \in RecordPages |-> None] /\ active \in RecordPages
        /\ requests = {} /\ notified = << >> /\ written = 0 /\ lost = 0
        /\ own = [i \in Loose!Id |-> 0]
    BY DEF Init, InOrder!Init, InOrder!Id, Loose!Id, InOrder!Range, Loose!Range,
           InOrder!Visibility, Loose!Visibility
  <1>2. WriteTypes
    BY <1>1 DEF WriteTypes
  <1>3. OneStore
    BY <1>1 DEF OneStore, Loose!Visibility
  <1>4. LastIsTheServers /\ RequestsAreOwn /\ FreeIsNowhere
    BY <1>1 DEF LastIsTheServers, RequestsAreOwn, FreeIsNowhere
  <1>5. DifferencesAreOnTheirWay
    BY <1>1 DEF DifferencesAreOnTheirWay, Agrees, Loose!Live
  <1>6. LastWins
    BY <1>1 DEF LastWins
  <1>7. QED
    BY <1>2, <1>3, <1>4, <1>5, <1>6 DEF WritesInv

\* Every step keeps what does not depend on the order of requests.
LEMMA WritesStep == WritesInv /\ Loose!Next => WritesInv'
  <1> SUFFICES ASSUME WritesInv, Loose!Next PROVE WritesInv'
    OBVIOUS
  <1>1. ASSUME NEW p \in RecordPages, Loose!Return(p) PROVE WritesInv'
    BY <1>1, WritesRest DEF Loose!Return
  <1>2. QED
    BY <1>1, CreateStep, OtherPutsStep, OtherDeletesStep, UpdateStep, ServeStep, FailStep, PushStep,
       SyncStep, OpenStep
    DEF Loose!Next

\* Where a step leaves a row alone, its requests and the app's last write of it.
LEMMA LastWinsElsewhere ==
    ASSUME WritesInv, LastWins, NEW i \in Loose!Id, lost = 0, own'[i] # 0,
           own'[i] = own[i], server'[i] = server[i], deleted \subseteq deleted',
           \A r \in requests' : r.id = i => r \in requests,
           \A r \in requests : r.id = i => r \in requests'
    PROVE  OwnIsLast(i)'
  <1>1. OwnIsLast(i)
    BY DEF LastWins
  <1>2. QED
    BY <1>1 DEF OwnIsLast

\* The request the server answers is the first of all that are on their way.
LEMMA LastWinsServed ==
    ASSUME WritesInv, LastWins, NEW r \in requests, InOrder!Serve(r)
    PROVE  LastWins'
  <1>1. /\ WriteTypes /\ FreeIsNowhere /\ RequestsAreOwn
        /\ r.id \in Loose!Id /\ r.record \in Rec
    BY DEF WritesInv, WriteTypes
  <1>2. /\ requests' = requests \ {r} /\ UNCHANGED <<deleted, own, lost>>
        /\ \A q \in requests : r.record.n <= q.record.n
        /\ IF InOrder!Accepts(r) THEN server' = [server EXCEPT ![r.id] = r.record]
           ELSE UNCHANGED server
    BY DEF InOrder!Serve
  <1>3. \A q \in requests : q.record.n \in Nat
    BY <1>1 DEF WriteTypes, Rec
  <1> SUFFICES ASSUME lost = 0, NEW i \in Loose!Id, own[i] # 0 PROVE OwnIsLast(i)'
    BY <1>2 DEF LastWins
  <1>4. CASE i # r.id
    <2>1. server'[i] = server[i]
      BY <1>1, <1>2, <1>4 DEF WriteTypes
    <2>2. QED
      BY <1>2, <1>4, <2>1, LastWinsElsewhere
  <1>5. CASE i = r.id /\ InOrder!Accepts(r)
    <2>1. server'[i] = r.record /\ r.record # None
      BY <1>1, <1>2, <1>5, WriteConstants DEF WriteTypes
    <2>2. i \notin deleted => \E q \in requests : q.id = i /\ q.record.n = own[i]
      BY <1>5 DEF LastWins, OwnIsLast
    <2>3. ASSUME r.record.n = own[i], NEW q \in requests, q.id = i PROVE q = r
      <3>1. q.record.n <= own[i]
        BY <1>1, <2>3 DEF RequestsAreOwn
      <3>2. q.record.n = r.record.n
        BY <1>1, <1>2, <1>3, <2>3, <3>1 DEF WriteTypes
      <3>3. QED
        BY <1>1, <1>5, <2>3, <3>2 DEF RequestsAreOwn
    <2>4. QED
      BY <1>2, <2>1, <2>2, <2>3 DEF OwnIsLast
  <1>6. CASE i = r.id /\ ~ InOrder!Accepts(r)
    <2>1. server[i] # None
      <3> SUFFICES ASSUME server[i] = None PROVE FALSE
        OBVIOUS
      <3>1. PICK c \in requests : /\ c.id = i /\ c.op = "create"
                                  /\ \A q \in requests : q.id = i => q = c \/ c.record.n < q.record.n
        BY DEF LastWins, OwnIsLast
      <3>2. r # c
        BY <1>6, <3>1 DEF InOrder!Accepts
      <3>3. QED
        BY <1>2, <1>3, <1>6, <3>1, <3>2
    <2>2. r.op # "create"
      BY <1>6, <2>1, <1>1 DEF RequestsAreOwn
    <2>3. i \in deleted
      BY <1>6, <2>1, <2>2 DEF InOrder!Accepts, InOrder!Live
    <2>4. QED
      BY <1>2, <1>6, <2>1, <2>3 DEF OwnIsLast
  <1>7. QED
    BY <1>4, <1>5, <1>6

\* Where requests arrive in the order they were made a write ends as the app made
\* it last.
LEMMA LastWinsStep == WritesInv /\ LastWins /\ InOrder!Next => LastWins'
  <1> SUFFICES ASSUME WritesInv, LastWins, InOrder!Next PROVE LastWins'
    OBVIOUS
  <1>1. /\ WriteTypes /\ FreeIsNowhere /\ RequestsAreOwn
        /\ written + 1 # 0 /\ written \in Nat /\ lost \in Nat
    BY DEF WritesInv, WriteTypes
  <1>2. \A r \in requests : r.id \in Loose!Id /\ r.record.n \in Nat /\ r.record.n <= written
    BY <1>1 DEF WriteTypes, Rec, RequestsAreOwn
  <1>3. ASSUME NEW i \in Loose!Id, NEW v \in Loose!Visibility, InOrder!Create(i, v)
        PROVE  LastWins'
    <2> DEFINE new == [op |-> "create", id |-> i, record |-> [n |-> written + 1, visibility |-> v]]
    <2>1. /\ server[i] = None /\ own[i] = 0 /\ own' = [own EXCEPT ![i] = written + 1]
          /\ requests' = requests \cup {new} /\ UNCHANGED <<server, deleted, lost>>
      BY <1>3 DEF InOrder!Create, InOrder!Request
    <2>2. new.id = i /\ new.op = "create" /\ new.record.n = written + 1
      OBVIOUS
    <2> HIDE DEF new
    <2>3. \A r \in requests : r.id # i
      BY <1>1, <2>1 DEF FreeIsNowhere
    <2>4. own'[i] = written + 1 /\ \A j \in Loose!Id \ {i} : own'[j] = own[j]
      BY <1>1, <2>1 DEF WriteTypes
    <2> SUFFICES ASSUME lost = 0, NEW j \in Loose!Id, own'[j] # 0 PROVE OwnIsLast(j)'
      BY <2>1 DEF LastWins
    <2>5. CASE j = i
      BY <2>1, <2>2, <2>3, <2>4, <2>5 DEF OwnIsLast
    <2>6. CASE j # i
      BY <2>1, <2>2, <2>4, <2>6, LastWinsElsewhere
    <2>7. QED
      BY <2>5, <2>6
  <1>4. ASSUME NEW matched \in SUBSET Loose!Id, NEW v \in Loose!Visibility \cup {None},
               InOrder!Update(matched, v)
        PROVE  LastWins'
    <2> DEFINE new(i) == [op |-> "update", id |-> i,
                          record |-> [n |-> written + 1,
                                      visibility |-> IF v = None THEN InOrder!Local(i).visibility ELSE v]]
    <2>1. /\ requests' = requests \cup {new(i) : i \in matched}
          /\ own' = [i \in Loose!Id |-> IF i \in matched THEN written + 1 ELSE own[i]]
          /\ UNCHANGED <<server, deleted, lost>>
          /\ \A i \in matched : \E s \in Loose!Visibility : i \in DOMAIN stores[s]
      BY <1>4 DEF InOrder!Update, InOrder!Request, InOrder!Held, InOrder!Holds, InOrder!Id,
                  Loose!Id, InOrder!Range, Loose!Range, InOrder!Visibility, Loose!Visibility
    <2>2. \A i \in matched : new(i).id = i /\ new(i).record.n = written + 1
      OBVIOUS
    <2> HIDE DEF new
    <2> SUFFICES ASSUME lost = 0, NEW j \in Loose!Id, own'[j] # 0 PROVE OwnIsLast(j)'
      BY <2>1 DEF LastWins
    <2>3. CASE j \in matched
      <3>1. \E q \in requests' : q.id = j /\ q.record.n = own'[j]
        BY <2>1, <2>2, <2>3
      <3>2. ASSUME server[j] = None
            PROVE  \E c \in requests' :
                       /\ c.id = j /\ c.op = "create"
                       /\ \A q \in requests' : q.id = j => q = c \/ c.record.n < q.record.n
        <4>1. own[j] # 0
          BY <1>1, <2>1, <2>3, <3>2 DEF FreeIsNowhere
        <4>2. PICK c \in requests : /\ c.id = j /\ c.op = "create"
                                    /\ \A q \in requests : q.id = j => q = c \/ c.record.n < q.record.n
          BY <3>2, <4>1, <2>1 DEF LastWins, OwnIsLast
        <4>3. c.record.n < written + 1
          BY <1>1, <1>2
        <4>4. QED
          BY <2>1, <2>2, <4>2, <4>3
      <3>3. QED
        BY <2>1, <3>1, <3>2 DEF OwnIsLast
    <2>4. CASE j \notin matched
      BY <2>1, <2>2, <2>4, LastWinsElsewhere
    <2>5. QED
      BY <2>3, <2>4
  <1>5. ASSUME NEW r \in requests, InOrder!Serve(r) PROVE LastWins'
    BY <1>5, LastWinsServed
  <1>6. ASSUME NEW r \in requests, InOrder!Fail(r) PROVE LastWins'
    BY <1>1, <1>6 DEF InOrder!Fail, LastWins, OwnIsLast
  <1>7. ASSUME NEW i \in Loose!Id, NEW v \in Loose!Visibility, InOrder!OtherPuts(i, v)
        PROVE  LastWins'
    <2>1. /\ own' = [own EXCEPT ![i] = 0] /\ UNCHANGED <<deleted, requests, lost>>
          /\ \A j \in Loose!Id \ {i} : server'[j] = server[j]
      BY <1>1, <1>7 DEF InOrder!OtherPuts, WriteTypes
    <2>2. own'[i] = 0 /\ \A j \in Loose!Id \ {i} : own'[j] = own[j]
      BY <1>1, <2>1 DEF WriteTypes
    <2>3. QED
      BY <2>1, <2>2 DEF LastWins, OwnIsLast
  <1>8. ASSUME NEW i \in Loose!Id, InOrder!OtherDeletes(i)
        PROVE  LastWins'
    BY <1>1, <1>8 DEF InOrder!OtherDeletes, LastWins, OwnIsLast, WriteTypes
  <1>9. ASSUME InOrder!Push \/ (\E full \in BOOLEAN : InOrder!Sync(full))
               \/ \E p \in RecordPages : InOrder!Return(p) \/ \E i \in InOrder!Id : InOrder!Open(p, i)
        PROVE  LastWins'
    <2>1. UNCHANGED <<server, deleted, requests, lost, own>>
      BY <1>9 DEF InOrder!Push, InOrder!Sync, InOrder!Return, InOrder!Open
    <2>2. QED
      BY <2>1 DEF LastWins, OwnIsLast
  <1>10. InOrder!Id = Loose!Id /\ InOrder!Visibility = Loose!Visibility
    BY DEF InOrder!Id, Loose!Id, InOrder!Range, Loose!Range, InOrder!Visibility, Loose!Visibility
  <1>11. QED
    BY <1>3, <1>4, <1>5, <1>6, <1>7, <1>8, <1>9, <1>10 DEF InOrder!Next

\* Only the app's own writes move a row that stays in its store.
LEMMA OrderIsKept ==
    ASSUME WritesInv, Loose!Next, UNCHANGED written,
           NEW s \in Loose!Visibility, NEW i \in DOMAIN stores[s] \cap DOMAIN stores'[s]
    PROVE  stores'[s][i].index = stores[s][i].index
  <1>1. /\ WriteTypes /\ written \in Nat /\ written # written + 1
        /\ DOMAIN stores = Loose!Visibility /\ i \in Loose!Id
    BY DEF WritesInv, WriteTypes
  <1>2. ~ Loose!NextWrite
    BY <1>1 DEF Loose!NextWrite
  <1>3. CASE UNCHANGED stores
    BY <1>3
  <1>4. CASE Loose!Push
    <2>1. PICK push \in Change : push = Head(notified)
      BY <1>1, <1>4 DEF Loose!Push, WriteTypes
    <2>2. CASE push.op = "delete"
      BY <1>4, <2>1, <2>2
      DEF Loose!Push, Loose!AppliedPush, Loose!RemoveSyncedRecord, Loose!Delete
    <2>3. CASE push.op # "delete"
      <3>1. stores'[s] = IF s = push.record.visibility
                         THEN Loose!Upsert(stores[s], push.id, push.record,
                                           Loose!Place(stores[s], push.id, None))
                         ELSE Loose!Delete(stores[s], push.id)
        BY <1>4, <2>1, <2>3 DEF Loose!Push, Loose!AppliedPush, Loose!ApplySyncedRecord
      <3>2. CASE s = push.record.visibility
        BY <3>1, <3>2 DEF Loose!Upsert, Loose!Place
      <3>3. CASE s # push.record.visibility
        BY <3>1, <3>3 DEF Loose!Delete
      <3>4. QED
        BY <3>2, <3>3
    <2>4. QED
      BY <2>2, <2>3
  <1>5. CASE \E full \in BOOLEAN : Loose!Sync(full)
    <2>1. PICK full \in BOOLEAN : Loose!Sync(full)
      BY <1>5
    <2> DEFINE after == Loose!Synced(full)
               gone  == IF full THEN {} ELSE deleted
    <2>2. stores'[s] = [j \in DOMAIN after[s] \ gone |-> after[s][j]]
      BY <2>1 DEF Loose!Sync
    <2>3. \A j \in DOMAIN stores[s] \cap DOMAIN after[s] : after[s][j].index = stores[s][j].index
      BY <1>1, SyncedRows
    <2> HIDE DEF after, gone
    <2>4. QED
      BY <2>2, <2>3
  <1>6. UNCHANGED stores \/ Loose!Push \/ \E full \in BOOLEAN : Loose!Sync(full)
    BY <1>2 DEF Loose!Next, Loose!Create, Loose!Update, Loose!OtherPuts, Loose!OtherDeletes,
                Loose!Serve, Loose!Fail, Loose!Return, Loose!Open
  <1>7. QED
    BY <1>3, <1>4, <1>5, <1>6

-----------------------------------------------------------------------------
(* The machines together *)

WritesIInv ==
    /\ part \in {"overtaking", "inorder"} => WritesInv
    /\ part = "inorder" => LastWins

LEMMA WritesInductive == Spec => []WritesIInv
  <1>1. Init => WritesIInv
    BY WritesInit DEF WritesIInv
  <1>2. WritesIInv /\ [Next]_vars => WritesIInv'
    <2> SUFFICES ASSUME WritesIInv, [Next]_vars PROVE WritesIInv'
      OBVIOUS
    <2>1. part' = part
      BY DEF Next, vars, ResumedNext, ConnectedNext, FormsNext, FieldNext, CarouselNext,
             OvertakingNext, InOrderNext, SwipedNext, DisturbedNext, ControlledNext, OnlyRows,
             OnlyForms, OnlySearch, OnlyPhotos, OnlyWrites, OnlySwipes, OnlyChoices
    <2>2. CASE part \in {"overtaking", "inorder"}
      <3>1. /\ \/ part = "overtaking" /\ Overtaking!Next
               \/ part = "inorder" /\ InOrder!Next
               \/ UNCHANGED writes
            /\ WritesInv /\ WriteTypes
        BY <2>2 DEF Next, vars, ResumedNext, ConnectedNext, FormsNext, FieldNext, CarouselNext,
                    OvertakingNext, InOrderNext, SwipedNext, DisturbedNext, ControlledNext,
                    WritesIInv, WritesInv
      <3>2. WritesInv'
        <4>1. CASE UNCHANGED writes
          BY <3>1, <4>1, WritesRest DEF writes, WriteTypes
        <4>2. QED
          BY <3>1, <4>1, AsLoose, WritesStep
      <3>3. part = "inorder" => LastWins'
        <4>1. CASE UNCHANGED writes
          BY <4>1 DEF writes, WritesIInv, LastWins, OwnIsLast
        <4>2. QED
          BY <3>1, <4>1, LastWinsStep DEF WritesIInv
      <3>4. QED
        BY <2>1, <2>2, <3>2, <3>3 DEF WritesIInv
    <2>3. QED
      BY <2>1, <2>2 DEF WritesIInv
  <1>3. QED
    BY <1>1, <1>2, PTL DEF Spec

\* Once everything is answered and applied the app holds the server's rows, each
\* in its store, and its pages show them; where requests arrive in order, as it
\* wrote them last.
THEOREM RowsAreTheServers == Spec => []LocalRowsAreTheServers
  <1>1. ASSUME WritesInv PROVE InOrder!OneStorePerRecord
    BY <1>1 DEF WritesInv, WriteTypes, OneStore, InOrder!OneStorePerRecord, Loose!Visibility
  <1>2. ASSUME WritesInv PROVE InOrder!QuietIsTheServer
    <2> SUFFICES ASSUME requests = {}, notified = << >>, lost = 0
                 PROVE  /\ \A i \in Loose!Id : Loose!Live(i) <=> InOrder!Holds(i)
                        /\ \A i \in InOrder!Held : /\ InOrder!Local(i) = server[i]
                                                   /\ InOrder!StoreOf(i) = server[i].visibility
                        /\ \A p \in RecordPages : cache[p] # None /\ InOrder!Holds(cache[p].id)
                                                  => cache[p].record = InOrder!Local(cache[p].id)
      BY DEF InOrder!QuietIsTheServer, InOrder!Quiet, InOrder!Id, Loose!Id, InOrder!Range,
             Loose!Range, InOrder!Live, Loose!Live
    <2>1. WriteTypes /\ \A i \in Loose!Id : Agrees(i)
      BY <1>2 DEF WritesInv, DifferencesAreOnTheirWay, Pushed, Coming
    <2>2. ASSUME NEW i \in Loose!Id
          PROVE  /\ Loose!Live(i) <=> InOrder!Holds(i)
                 /\ InOrder!Holds(i) => /\ InOrder!StoreOf(i) = server[i].visibility
                                        /\ InOrder!Local(i) = server[i]
      <3>1. Loose!Live(i) => server[i].visibility \in Loose!Visibility
        BY <2>1 DEF WriteTypes, Loose!Live, Rec
      <3>2. InOrder!Holds(i) <=> \E s \in Loose!Visibility : i \in DOMAIN stores[s]
        BY DEF InOrder!Holds, InOrder!Visibility, Loose!Visibility
      <3>3. Loose!Live(i) <=> InOrder!Holds(i)
        BY <2>1, <3>1, <3>2 DEF Agrees
      <3>4. ASSUME InOrder!Holds(i) PROVE InOrder!StoreOf(i) = server[i].visibility
        <4>1. InOrder!StoreOf(i) \in Loose!Visibility /\ i \in DOMAIN stores[InOrder!StoreOf(i)]
          BY <3>2, <3>4 DEF InOrder!StoreOf, InOrder!Visibility, Loose!Visibility
        <4>2. QED
          BY <2>1, <3>3, <3>4, <4>1 DEF Agrees
      <3>5. QED
        BY <2>1, <3>3, <3>4 DEF Agrees, InOrder!Local
    <2>3. InOrder!Held = {i \in Loose!Id : InOrder!Holds(i)}
      BY DEF InOrder!Held, InOrder!Id, Loose!Id, InOrder!Range, Loose!Range
    <2>4. ASSUME NEW p \in RecordPages, cache[p] # None, InOrder!Holds(cache[p].id)
          PROVE  cache[p].record = InOrder!Local(cache[p].id)
      <3>1. cache[p].id \in Loose!Id
        BY <2>1, <2>4 DEF WriteTypes, Opened
      <3>2. cache[p].record = server[cache[p].id]
        BY <2>1, <2>2, <2>4, <3>1 DEF Agrees
      <3>3. QED
        BY <2>2, <2>4, <3>1, <3>2
    <2>5. QED
      BY <2>2, <2>3, <2>4
  <1>3. ASSUME LastWins PROVE InOrder!LastWriteStays
    <2> SUFFICES ASSUME requests = {}, lost = 0, NEW i \in Loose!Id, own[i] # 0, i \notin deleted
                 PROVE  server[i].n = own[i]
      BY DEF InOrder!LastWriteStays, InOrder!Quiet, InOrder!Id, Loose!Id, InOrder!Range,
             Loose!Range, InOrder!Live
    <2>1. QED
      BY <1>3 DEF LastWins, OwnIsLast
  <1>4. WritesIInv => LocalRowsAreTheServers
    BY <1>1, <1>2, <1>3 DEF WritesIInv, LocalRowsAreTheServers
  <1>5. QED
    BY WritesInductive, <1>4, PTL

\* But for the app's own writes no step moves a row that stays in its store.
THEOREM ChangesKeepTheOrder == Spec => ChangesDoNotReorder
  <1>1. ASSUME WritesIInv, [Next]_vars
        PROVE  [UNCHANGED written =>
                   \A s \in InOrder!Visibility : \A i \in DOMAIN stores[s] \cap DOMAIN stores'[s] :
                       stores'[s][i].index = stores[s][i].index]_InOrder!vars
    <2> SUFFICES ASSUME UNCHANGED written, NEW s \in Loose!Visibility,
                        NEW i \in DOMAIN stores[s] \cap DOMAIN stores'[s]
                 PROVE  stores'[s][i].index = stores[s][i].index
      BY DEF InOrder!Visibility, Loose!Visibility
    <2>1. CASE UNCHANGED stores
      BY <2>1
    <2>2. CASE part \in {"overtaking", "inorder"} /\ (Overtaking!Next \/ InOrder!Next)
      <3>1. WritesInv /\ WriteTypes
        BY <1>1, <2>2 DEF WritesIInv, WritesInv
      <3>2. Loose!Next
        BY <2>2, <3>1, AsLoose
      <3>3. QED
        BY <3>1, <3>2, OrderIsKept
    <2>3. UNCHANGED stores \/ (part \in {"overtaking", "inorder"} /\ (Overtaking!Next \/ InOrder!Next))
      BY <1>1 DEF Next, vars, writes, ResumedNext, ConnectedNext, FormsNext, FieldNext,
                  CarouselNext, OvertakingNext, InOrderNext, SwipedNext, DisturbedNext,
                  ControlledNext, OnlyRows, OnlyForms, OnlySearch, OnlyPhotos, OnlySwipes,
                  OnlyChoices
    <2>4. QED
      BY <2>1, <2>2, <2>3
  <1>2. QED
    BY WritesInductive, <1>1, PTL DEF Spec, ChangesDoNotReorder, InOrder!ChangesDoNotReorder

=============================================================================
