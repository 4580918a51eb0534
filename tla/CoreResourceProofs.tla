------------------------- MODULE CoreResourceProofs -------------------------
(***************************************************************************)
(* The versioned store, for every set of rows and of requests: its type,   *)
(* what it promises about a row (RowLifecycle), that a creation or a       *)
(* deletion succeeds for one request only, that a precondition is compared *)
(* with a version that was current during the request, and that clients    *)
(* hear of the versions that are stored.                                   *)
(***************************************************************************)
EXTENDS CoreResource, TLAPS

-----------------------------------------------------------------------------
(* The inductive invariant *)

\* Where a request stands follows from its operation.
PcInv == \A q \in Request :
    /\ req[q].pc = "insert" => req[q].op = "create" /\ req[q].expected = NoPrecondition
    /\ req[q].pc \in {"select", "write"} => req[q].op # "create"

\* Each request that has begun has a timestamp of its own.
StampInv ==
    /\ \A q \in Request : req[q].pc # "new" => req[q].now \in 1 .. clock
    /\ \A p, q \in Request : req[p].pc # "new" /\ req[q].pc # "new" /\ req[p].now = req[q].now
                                => p = q

\* The versions rows have had are timestamps that were given, and none is
\* that of a request that has yet to write.
FreshInv ==
    /\ \A r \in Row : history[r] \subseteq 1 .. clock
    /\ \A q \in Request, r \in Row : UnderWay(q) => req[q].now \notin history[r]

\* A row about to be written exists, and what was created or deleted shows.
PresenceInv == \A q \in Request :
    /\ req[q].pc = "write" => table[req[q].row].phase # "absent"
    /\ q \in Committed /\ req[q].op = "create" => table[req[q].row].phase # "absent"
    /\ q \in Committed /\ req[q].op = "delete" => table[req[q].row].phase = "deleted"

\* A request under way has seen the row's present version, and one past its
\* comparison has seen a version that satisfied it.
CarriedInv == \A q \in Request :
    /\ UnderWay(q) => table[req[q].row].version \in carried[q]
    /\ req[q].pc = "write" => \E v \in carried[q] : NotModified(req[q].expected, v)

\* What waits to be broadcast is stored.
NotifyInv == \A q \in Request : req[q].pc = "notify" => req[q].now \in history[req[q].row]

IInv ==
    /\ TypeOK
    /\ PcInv /\ StampInv /\ FreshInv /\ PresenceInv /\ CarriedInv /\ NotifyInv
    /\ OneCreatorOneDeleter /\ ComparedWithACurrentVersion /\ BroadcastsAreTheStoredVersions

-----------------------------------------------------------------------------
(* The kinds of step *)

\* A step that moves request q on and stores nothing: Refuse, Proceed, Lose
\* and Notify.
Moves(q) == \E pc \in {"write", "failed", "done", "lost"} :
    /\ req[q].pc \in {"insert", "select", "write", "notify"}
    /\ Goto(q, pc)
    /\ UNCHANGED <<clock, table, history, carried>>
    /\ pushed' = IF pc = "done" THEN pushed \cup {[row |-> req[q].row, version |-> req[q].now]}
                               ELSE pushed
    /\ pc = "done" => req[q].pc = "notify"
    /\ req[q].pc = "notify" => pc \in {"done", "lost"}
    /\ pc = "write" => /\ req[q].pc = "select"
                       /\ table[req[q].row].phase # "absent"
                       /\ NotModified(req[q].expected, table[req[q].row].version)

\* A step that stores the row of request q in phase p.
Stores(q, p) ==
    /\ Store(q, p)
    /\ \/ req[q].pc = "insert" /\ table[req[q].row].phase = "absent" /\ p = "live"
       \/ req[q].pc = "write" /\ req[q].op = "update" /\ p = table[req[q].row].phase
       \/ req[q].pc = "write" /\ req[q].op = "delete" /\ p = "deleted"
              /\ table[req[q].row].phase = "live"

\* Every step is of one of three kinds.
LEMMA StepKinds ==
    ASSUME TypeOK, NEW q \in Request, Step(q)
    PROVE  Begin(q) \/ Moves(q) \/ \E p \in {"absent", "live", "deleted"} : Stores(q, p)
  <1> DEFINE p == table[req[q].row].phase
  <1>0. p \in {"absent", "live", "deleted"}
    BY DEF TypeOK, StoredRow
  <1>1. CASE Begin(q)
    BY <1>1
  <1>2. CASE Insert(q)
    BY <1>2 DEF Insert, Refuse, Moves, Stores
  <1>3. CASE SelectForUpdate(q)
    BY <1>3 DEF SelectForUpdate, Refuse, Proceed, Moves
  <1>4. CASE WriteUpdate(q)
    BY <1>0, <1>4 DEF WriteUpdate, Stores
  <1>5. CASE SelectForDelete(q)
    BY <1>5 DEF SelectForDelete, Refuse, Proceed, Moves
  <1>6. CASE WriteDelete(q)
    BY <1>6 DEF WriteDelete, Refuse, Moves, Stores
  <1>7. CASE Notify(q)
    BY <1>7 DEF Notify, Moves
  <1>8. CASE Lose(q)
    BY <1>8 DEF Lose, UnderWay, Moves
  <1>9. QED
    BY <1>1, <1>2, <1>3, <1>4, <1>5, <1>6, <1>7, <1>8 DEF Step

\* What the three kinds of step do to the requests.
Moved(q) ==
    /\ UNCHANGED <<clock, table, history, carried>>
    /\ \A c \in Request : /\ req'[c].op = req[c].op
                          /\ req'[c].row = req[c].row
                          /\ req'[c].expected = req[c].expected
                          /\ req'[c].now = req[c].now
                          /\ c # q => req'[c].pc = req[c].pc
    /\ req[q].pc \in {"insert", "select", "write", "notify"}
    /\ req'[q].pc \in {"write", "failed", "done", "lost"}
    /\ pushed' = IF req'[q].pc = "done"
                 THEN pushed \cup {[row |-> req[q].row, version |-> req[q].now]} ELSE pushed
    /\ req'[q].pc = "done" => req[q].pc = "notify"
    /\ req[q].pc = "notify" => req'[q].pc \in {"done", "lost"}
    /\ req'[q].pc = "write" => /\ req[q].pc = "select"
                               /\ table[req[q].row].phase # "absent"
                               /\ NotModified(req[q].expected, table[req[q].row].version)

LEMMA MovesEffect ==
    ASSUME TypeOK, NEW q \in Request, Moves(q)
    PROVE  Moved(q)
  BY DEF Moved, Moves, Goto, TypeOK

Stored(q, p) ==
    /\ clock' = clock /\ pushed' = pushed
    /\ \A c \in Request : /\ req'[c].op = req[c].op
                          /\ req'[c].row = req[c].row
                          /\ req'[c].expected = req[c].expected
                          /\ req'[c].now = req[c].now
                          /\ c # q => req'[c].pc = req[c].pc
    /\ req[q].pc \in {"insert", "write"}
    /\ req'[q].pc = "notify"
    /\ table' = [table EXCEPT ![req[q].row] = [phase |-> p, version |-> req[q].now]]
    /\ history' = [history EXCEPT ![req[q].row] = @ \cup {req[q].now}]
    /\ \A c \in Request :
          carried'[c] = IF req[c].row = req[q].row /\ UnderWay(c)
                        THEN carried[c] \cup {req[q].now} ELSE carried[c]

LEMMA StoreEffect ==
    ASSUME TypeOK, NEW q \in Request, NEW p, Stores(q, p)
    PROVE  Stored(q, p)
  BY DEF Stored, Stores, Store, Goto, TypeOK

Begun(q) ==
    /\ clock' = clock + 1
    /\ UNCHANGED <<table, history, pushed>>
    /\ \A c \in Request : /\ req'[c].op = req[c].op
                          /\ req'[c].row = req[c].row
                          /\ c # q => req'[c] = req[c] /\ carried'[c] = carried[c]
    /\ req[q].pc = "new"
    /\ req'[q].pc = IF req[q].op = "create" THEN "insert" ELSE "select"
    /\ req'[q].now = clock + 1
    /\ req'[q].expected \in Expected
    /\ req[q].op = "create" => req'[q].expected = NoPrecondition
    /\ carried'[q] = {table[req[q].row].version}

LEMMA BeginEffect ==
    ASSUME TypeOK, NEW q \in Request, Begin(q)
    PROVE  Begun(q)
  <1>1. PICK e \in IF req[q].op = "create" THEN {NoPrecondition}
                                           ELSE Preconditions(req[q].row) :
           req' = [req EXCEPT ![q].pc = IF req[q].op = "create" THEN "insert" ELSE "select",
                              ![q].expected = e, ![q].now = clock + 1]
    BY DEF Begin
  <1>2. NoPrecondition \in Expected
    BY DEF NoPrecondition, Expected
  <1>3. \A v \in history[req[q].row] : v \in Nat /\ v \div TicksPerMs \in Nat
    BY StoreAssumption DEF TypeOK
  <1>4. Preconditions(req[q].row) \subseteq Expected
    BY <1>2, <1>3 DEF Preconditions, Expected
  <1>5. e \in Expected /\ (req[q].op = "create" => e = NoPrecondition)
    BY <1>1, <1>2, <1>4
  <1>6. QED
    BY <1>1, <1>5 DEF Begun, Begin, TypeOK

-----------------------------------------------------------------------------
(* Each kind of step preserves the invariant *)

LEMMA BeginPreserves ==
    ASSUME IInv, NEW q \in Request, Begin(q)
    PROVE  IInv'
  <1> Begun(q)
    BY BeginEffect DEF IInv
  <1> USE DEF IInv, Begun
  <1>1. TypeOK'
    <2>1. req' \in [Request -> [pc : Pc, op : Op, row : Row, expected : Expected, now : Nat]]
      <3> DEFINE pc == IF req[q].op = "create" THEN "insert" ELSE "select"
      <3>1. PICK e \in IF req[q].op = "create" THEN {NoPrecondition}
                                               ELSE Preconditions(req[q].row) :
               req' = [req EXCEPT ![q].pc = pc, ![q].expected = e, ![q].now = clock + 1]
        BY DEF Begin
      <3>2. pc \in Pc /\ clock + 1 \in Nat
        BY DEF TypeOK, Pc
      <3> HIDE DEF pc
      <3>3. req'[q].expected = e
        BY <3>1 DEF TypeOK
      <3>4. e \in Expected
        BY <3>3
      <3>5. [req[q] EXCEPT !.pc = pc, !.expected = e, !.now = clock + 1]
                \in [pc : Pc, op : Op, row : Row, expected : Expected, now : Nat]
        <4>1. req[q] \in [pc : Pc, op : Op, row : Row, expected : Expected, now : Nat]
          BY DEF TypeOK
        <4>2. QED
          BY ONLY <3>2, <3>4, <4>1
      <3>6. req' = [req EXCEPT ![q] = [req[q] EXCEPT !.pc = pc, !.expected = e, !.now = clock + 1]]
        BY <3>1 DEF TypeOK
      <3>7. QED
        BY <3>5, <3>6 DEF TypeOK
    <2>2. table[req[q].row].version \in Nat
      BY DEF TypeOK, StoredRow
    <2>3. carried' \in [Request -> SUBSET Nat]
      BY <2>2 DEF Begin, TypeOK
    <2>4. QED
      BY <2>1, <2>3 DEF TypeOK
  <1>2. PcInv'
    BY DEF PcInv
  <1>3. StampInv'
    BY DEF StampInv, TypeOK
  <1>4. FreshInv'
    <2>1. \A r \in Row : history[r] \subseteq 1 .. clock /\ clock + 1 \notin history[r]
      BY DEF FreshInv, TypeOK
    <2>2. \A r \in Row : history'[r] \subseteq 1 .. clock'
      BY <2>1 DEF TypeOK
    <2>3. QED
      BY <2>1, <2>2 DEF FreshInv, UnderWay
  <1>5. PresenceInv'
    BY DEF PresenceInv, Committed
  <1>6. CarriedInv'
    BY DEF CarriedInv, UnderWay
  <1>7. (OneCreatorOneDeleter /\ ComparedWithACurrentVersion)'
    BY DEF OneCreatorOneDeleter, ComparedWithACurrentVersion, Committed
  <1>8. NotifyInv' /\ BroadcastsAreTheStoredVersions'
    BY DEF NotifyInv, BroadcastsAreTheStoredVersions
  <1>9. QED
    BY <1>1, <1>2, <1>3, <1>4, <1>5, <1>6, <1>7, <1>8

LEMMA MovesPreserves ==
    ASSUME IInv, NEW q \in Request, Moves(q)
    PROVE  IInv'
  <1> Moved(q)
    BY MovesEffect DEF IInv
  <1> USE DEF IInv, Moved
  <1>1. TypeOK'
    BY DEF Moves, Goto, TypeOK, Pc
  <1>2. PcInv'
    BY DEF PcInv
  <1>3. StampInv'
    BY DEF StampInv
  <1>4. FreshInv'
    BY DEF FreshInv, UnderWay
  <1>5. PresenceInv'
    BY DEF PresenceInv, Committed
  <1>6. CarriedInv'
    BY DEF CarriedInv, UnderWay
  <1>7. Committed' \subseteq Committed
    BY DEF Committed
  <1>8. (OneCreatorOneDeleter /\ ComparedWithACurrentVersion)'
    BY <1>7 DEF OneCreatorOneDeleter, ComparedWithACurrentVersion, Committed
  <1>9. NotifyInv'
    BY DEF NotifyInv
  <1>10. BroadcastsAreTheStoredVersions'
    <2>1. \A m \in pushed' : m.version \in history'[m.row]
      BY DEF BroadcastsAreTheStoredVersions, NotifyInv
    <2>2. ASSUME NEW r \in Row, NEW v \in history[r]
          PROVE  \/ [row |-> r, version |-> v] \in pushed'
                 \/ \E c \in Request :
                       req'[c].row = r /\ req'[c].now = v /\ req'[c].pc \in {"notify", "lost"}
      <3>1. CASE [row |-> r, version |-> v] \in pushed
        BY <3>1
      <3>2. CASE \E c \in Request :
                    req[c].row = r /\ req[c].now = v /\ req[c].pc \in {"notify", "lost"}
        <4>1. PICK c \in Request :
                  req[c].row = r /\ req[c].now = v /\ req[c].pc \in {"notify", "lost"}
          BY <3>2
        <4>2. CASE c = q /\ req'[q].pc = "done"
          BY <4>1, <4>2
        <4>3. CASE ~ (c = q /\ req'[q].pc = "done")
          BY <4>1, <4>3
        <4>4. QED
          BY <4>2, <4>3
      <3>3. QED
        BY <3>1, <3>2 DEF BroadcastsAreTheStoredVersions
    <2>3. QED
      BY <2>1, <2>2 DEF BroadcastsAreTheStoredVersions
  <1>11. QED
    BY <1>1, <1>2, <1>3, <1>4, <1>5, <1>6, <1>8, <1>9, <1>10

LEMMA StorePreserves ==
    ASSUME IInv, NEW q \in Request, NEW p \in {"absent", "live", "deleted"}, Stores(q, p)
    PROVE  IInv'
  <1> Stored(q, p)
    BY StoreEffect DEF IInv
  <1> USE DEF IInv, Stored
  <1> DEFINE r == req[q].row
             v == req[q].now
  <1>0. /\ r \in Row
        /\ p # "absent"
        /\ v \in 1 .. clock /\ v \in Nat \ {0}
        /\ UnderWay(q)
    BY DEF Stores, TypeOK, PresenceInv, StampInv, UnderWay
  <1>1. TypeOK'
    <2>1. [phase |-> p, version |-> v] \in StoredRow
      BY <1>0 DEF StoredRow
    <2>2. table' \in [Row -> StoredRow]
      BY <1>0, <2>1 DEF TypeOK
    <2>3. history' \in [Row -> SUBSET Nat]
      BY <1>0 DEF TypeOK
    <2>4. carried' \in [Request -> SUBSET Nat]
      BY <1>0 DEF Stores, Store, TypeOK
    <2>5. req' \in [Request -> [pc : Pc, op : Op, row : Row, expected : Expected, now : Nat]]
      BY DEF Stores, Store, Goto, TypeOK, Pc
    <2>6. QED
      BY <2>2, <2>3, <2>4, <2>5 DEF TypeOK
  <1>2. PcInv'
    BY DEF PcInv
  <1>3. StampInv'
    BY DEF StampInv
  <1>4. FreshInv'
    <2>1. \A s \in Row : history'[s] \subseteq history[s] \cup {v}
      BY DEF TypeOK
    <2>2. \A s \in Row : history'[s] \subseteq 1 .. clock'
      BY <1>0, <2>1 DEF FreshInv
    <2>3. ASSUME NEW c \in Request, NEW s \in Row, UnderWay(c)' PROVE req'[c].now \notin history'[s]
      <3>1. c # q /\ UnderWay(c)
        BY <2>3 DEF UnderWay
      <3>2. req[c].now # v
        BY <1>0, <3>1 DEF StampInv, UnderWay
      <3>3. QED
        BY <2>1, <3>1, <3>2 DEF FreshInv
    <2>4. QED
      BY <2>2, <2>3 DEF FreshInv
  <1>5. PresenceInv'
    <2>1. \A s \in Row : /\ s # r => table'[s] = table[s]
                         /\ table'[r].phase = p
      BY <1>0 DEF TypeOK
    <2>2. \A c \in Committed : req[c].row = r /\ req[c].op = "delete" => p = "deleted"
      BY <1>0 DEF PresenceInv, Stores, PcInv, Committed
    <2>3. req[q].op = "delete" => p = "deleted"
      BY DEF Stores, PcInv
    <2>4. QED
      BY <1>0, <2>1, <2>2, <2>3 DEF PresenceInv, Committed, TypeOK
  <1>6. CarriedInv'
    <2>1. ASSUME NEW c \in Request, UnderWay(c)' PROVE table'[req'[c].row].version \in carried'[c]
      <3>1. c # q /\ UnderWay(c)
        BY <2>1 DEF UnderWay
      <3>2. CASE req[c].row = r
        BY <1>0, <3>1, <3>2 DEF TypeOK
      <3>3. CASE req[c].row # r
        BY <1>0, <3>1, <3>3 DEF TypeOK, CarriedInv
      <3>4. QED
        BY <3>2, <3>3
    <2>2. ASSUME NEW c \in Request, req'[c].pc = "write"
          PROVE  \E w \in carried'[c] : NotModified(req'[c].expected, w)
      BY <2>2 DEF CarriedInv
    <2>3. QED
      BY <2>1, <2>2 DEF CarriedInv
  <1>7. OneCreatorOneDeleter'
    <2>1. Committed' = Committed \cup {q}
      BY DEF Committed
    <2>2. \A c \in Committed : c # q /\ req[c].row = r /\ req[c].op = req[q].op => req[q].op = "update"
      BY DEF PresenceInv, Stores, PcInv, Committed, TypeOK, Op
    <2>3. QED
      BY <2>1, <2>2 DEF OneCreatorOneDeleter, Committed
  <1>8. ComparedWithACurrentVersion'
    <2>1. \A c \in Request : carried[c] \subseteq carried'[c]
      OBVIOUS
    <2>2. \E w \in carried'[q] : NotModified(req'[q].expected, w)
      <3>1. CASE req[q].pc = "write"
        BY <2>1, <3>1 DEF CarriedInv
      <3>2. CASE req[q].pc = "insert"
        <4>1. v \in carried'[q]
          BY <1>0
        <4>2. req[q].expected.kind = "none"
          BY <3>2 DEF PcInv, NoPrecondition
        <4>3. QED
          BY <4>1, <4>2 DEF NotModified
      <3>3. QED
        BY <3>1, <3>2
    <2>3. ASSUME NEW c \in Committed', c # q
          PROVE  \E w \in carried'[c] : NotModified(req'[c].expected, w)
      BY <2>1, <2>3 DEF ComparedWithACurrentVersion, Committed
    <2>4. QED
      BY <2>2, <2>3 DEF ComparedWithACurrentVersion
  <1>9. NotifyInv' /\ BroadcastsAreTheStoredVersions'
    <2>1. /\ \A s \in Row : history[s] \subseteq history'[s]
          /\ history'[r] = history[r] \cup {v} /\ \A s \in Row \ {r} : history'[s] = history[s]
      BY <1>0 DEF TypeOK
    <2>2. NotifyInv'
      BY <2>1, <1>0 DEF NotifyInv, TypeOK
    <2>3. \A m \in pushed' : m.version \in history'[m.row]
      BY <2>1 DEF BroadcastsAreTheStoredVersions, TypeOK
    <2>4. ASSUME NEW s \in Row, NEW w \in history'[s]
          PROVE  \/ [row |-> s, version |-> w] \in pushed'
                 \/ \E c \in Request :
                       req'[c].row = s /\ req'[c].now = w /\ req'[c].pc \in {"notify", "lost"}
      <3>1. CASE s = r /\ w = v
        BY <3>1
      <3>2. CASE w \in history[s]
        <4>1. \A c \in Request : req[c].pc \in {"notify", "lost"} => req'[c].pc \in {"notify", "lost"}
          OBVIOUS
        <4>2. QED
          BY <3>2, <4>1 DEF BroadcastsAreTheStoredVersions
      <3>3. QED
        BY <2>1, <3>1, <3>2
    <2>5. QED
      BY <2>2, <2>3, <2>4 DEF BroadcastsAreTheStoredVersions
  <1>10. QED
    BY <1>1, <1>2, <1>3, <1>4, <1>5, <1>6, <1>7, <1>8, <1>9

-----------------------------------------------------------------------------
(* The theorems *)

LEMMA InitInv == Init => IInv
  <1> SUFFICES ASSUME Init
               PROVE  IInv
    OBVIOUS
  <1>1. \A q \in Request : req[q].pc = "new" /\ req[q].now = 0
    BY DEF Init
  <1>2. TypeOK
    <2>1. req \in [Request -> [pc : Pc, op : Op, row : Row, expected : Expected, now : Nat]]
      <3>1. [pc : {"new"}, op : Registered, row : Row, expected : {NoPrecondition}, now : {0}]
               \subseteq [pc : Pc, op : Op, row : Row, expected : Expected, now : Nat]
        <4>1. Registered \subseteq Op
          BY StoreAssumption DEF StoreAssumption, Op
        <4>2. "new" \in Pc /\ NoPrecondition \in Expected
          BY DEF Pc, Expected, NoPrecondition
        <4>3. QED
          BY <4>1, <4>2
      <3>2. QED
        BY <3>1 DEF Init
    <2>2. table \in [Row -> StoredRow]
      BY DEF Init, StoredRow
    <2>3. QED
      BY <2>1, <2>2 DEF Init, TypeOK
  <1>3. PcInv /\ StampInv /\ FreshInv /\ PresenceInv /\ CarriedInv
    BY <1>1 DEF Init, PcInv, StampInv, FreshInv, PresenceInv, CarriedInv, Committed, UnderWay
  <1>4. OneCreatorOneDeleter /\ ComparedWithACurrentVersion
    BY <1>1 DEF OneCreatorOneDeleter, ComparedWithACurrentVersion, Committed
  <1>5. NotifyInv /\ BroadcastsAreTheStoredVersions
    BY <1>1 DEF Init, NotifyInv, BroadcastsAreTheStoredVersions
  <1>6. QED
    BY <1>2, <1>3, <1>4, <1>5 DEF IInv

LEMMA NextInv == IInv /\ [Next]_vars => IInv'
  <1> SUFFICES ASSUME IInv, [Next]_vars
               PROVE  IInv'
    OBVIOUS
  <1>1. CASE UNCHANGED vars
    BY <1>1 DEF vars, IInv, TypeOK, PcInv, StampInv, FreshInv, PresenceInv, CarriedInv,
                OneCreatorOneDeleter, ComparedWithACurrentVersion, Committed, UnderWay,
                NotifyInv, BroadcastsAreTheStoredVersions
  <1>2. ASSUME NEW q \in Request, Step(q)
        PROVE  IInv'
    <2>1. Begin(q) \/ Moves(q) \/ \E p \in {"absent", "live", "deleted"} : Stores(q, p)
      BY <1>2, StepKinds DEF IInv
    <2>2. QED
      BY <2>1, BeginPreserves, MovesPreserves, StorePreserves
  <1>3. QED
    BY <1>1, <1>2 DEF Next

\* The invariant holds in every state.
LEMMA Invariance == Spec => []IInv
  BY InitInv, NextInv, PTL DEF Spec

\* The store is well typed; a row has a version exactly when it exists.
THEOREM TypeCorrect == Spec => []TypeOK
  BY Invariance, PTL DEF IInv

\* Of the requests that create, or delete, a given row, one succeeds at most.
THEOREM CreationAndDeletionAreExclusive == Spec => []OneCreatorOneDeleter
  BY Invariance, PTL DEF IInv

\* A conditional write that succeeds was compared with a version its row had
\* while the request was running.
THEOREM PreconditionsAreCompared == Spec => []ComparedWithACurrentVersion
  BY Invariance, PTL DEF IInv

\* Clients hear of a version only once it is stored, and of every stored version
\* unless its request was cut off before it could say so.
THEOREM BroadcastsAreOfStoredVersions == Spec => []BroadcastsAreTheStoredVersions
  BY Invariance, PTL DEF IInv

\* A row that becomes what its phase allows takes a step of RowLifecycle.
LEMMA BecomeIsAStep ==
    ASSUME NEW r \in Row, NEW p, Lifecycle!Become(r, p),
           \/ table[r].phase = "absent" /\ p = "live"
           \/ p \in {"live", "deleted"} /\ p = table[r].phase
           \/ table[r].phase = "live" /\ p = "deleted"
    PROVE  Lifecycle!Next
  <1>1. [s \in Row |-> table[s].phase][r] = table[r].phase
    OBVIOUS
  <1>2. CASE table[r].phase = "absent" /\ p = "live"
    <2>1. Lifecycle!Become(r, "live")
      BY <1>2 DEF Lifecycle!Become
    <2>2. QED
      BY <1>1, <1>2, <2>1 DEF Lifecycle!Next, Lifecycle!Born
  <1>3. CASE p \in {"live", "deleted"} /\ p = table[r].phase
    <2>1. Lifecycle!Rewritten(r)
      BY <1>1, <1>3 DEF Lifecycle!Rewritten
    <2>2. QED
      BY <2>1 DEF Lifecycle!Next
  <1>4. CASE table[r].phase = "live" /\ p = "deleted"
    <2>1. Lifecycle!Become(r, "deleted")
      BY <1>4 DEF Lifecycle!Become
    <2>2. QED
      BY <1>1, <1>4, <2>1 DEF Lifecycle!Next, Lifecycle!Buried
  <1>5. QED
    BY <1>2, <1>3, <1>4

\* Every step of the store is a step of RowLifecycle or leaves the rows alone.
LEMMA LifecycleStep ==
    IInv /\ [Next]_vars => [Lifecycle!Next]_(Lifecycle!vars)
  <1> SUFFICES ASSUME IInv, [Next]_vars
               PROVE  Lifecycle!Next \/ UNCHANGED Lifecycle!vars
    OBVIOUS
  <1>1. ASSUME table' = table, history' = history
        PROVE  UNCHANGED Lifecycle!vars
    BY <1>1 DEF Lifecycle!vars
  <1>2. CASE UNCHANGED vars
    BY <1>1, <1>2 DEF vars
  <1>3. ASSUME NEW q \in Request, NEW p \in {"absent", "live", "deleted"}, Stores(q, p)
        PROVE  Lifecycle!Next
    <2> DEFINE r == req[q].row
               v == req[q].now
               phases == [s \in Row |-> table[s].phase]
               versions == [s \in Row |-> table[s].version]
    <2>1. /\ r \in Row /\ v \in Nat
          /\ UnderWay(q)
          /\ Stored(q, p)
      BY <1>3, StoreEffect DEF IInv, Stores, TypeOK, UnderWay
    <2>2. phases' = [phases EXCEPT ![r] = p] /\ versions' = [versions EXCEPT ![r] = v]
      BY <2>1 DEF Stored, IInv, TypeOK
    <2>3. v \notin UNION {history[s] : s \in Row}
      BY <2>1 DEF IInv, FreshInv
    <2>4. UNION {history'[s] : s \in Row} = (UNION {history[s] : s \in Row}) \cup {v}
      BY <2>1 DEF Stored, IInv, TypeOK
    <2>5. versions'[r] = v
      BY <2>1, <2>2
    <2>6. Lifecycle!Become(r, p)
      <3>1. versions'[r] \in Nat \ (UNION {history[s] : s \in Row})
        BY <2>1, <2>3, <2>5
      <3>2. (UNION {history[s] : s \in Row})' = (UNION {history[s] : s \in Row}) \cup {versions'[r]}
        BY <2>4, <2>5
      <3>3. versions' = [versions EXCEPT ![r] = versions'[r]]
        BY <2>2, <2>5
      <3>4. phases' = [phases EXCEPT ![r] = p]
        BY <2>2
      <3> HIDE DEF r
      <3>5. QED
        BY <3>1, <3>2, <3>3, <3>4 DEF Lifecycle!Become
    <2>7. \/ table[r].phase = "absent" /\ p = "live"
          \/ p \in {"live", "deleted"} /\ p = table[r].phase
          \/ table[r].phase = "live" /\ p = "deleted"
      BY <1>3 DEF Stores, IInv, PresenceInv
    <2>8. QED
      BY <2>1, <2>6, <2>7, BecomeIsAStep
  <1>4. ASSUME NEW q \in Request, Step(q)
        PROVE  Lifecycle!Next \/ UNCHANGED Lifecycle!vars
    <2>1. Begin(q) \/ Moves(q) \/ \E p \in {"absent", "live", "deleted"} : Stores(q, p)
      BY <1>4, StepKinds DEF IInv
    <2>2. CASE Begin(q)
      BY <1>1, <2>2 DEF Begin
    <2>3. CASE Moves(q)
      BY <1>1, <2>3 DEF Moves
    <2>4. QED
      BY <1>3, <2>1, <2>2, <2>3
  <1>5. QED
    BY <1>2, <1>4 DEF Next

\* The store implements RowLifecycle, whatever requests overlap.
THEOREM StoreImplementsLifecycle == Spec => RowsHaveALifecycle
  <1>1. Init => Lifecycle!Init
    <2> SUFFICES ASSUME Init
                 PROVE  Lifecycle!Init
      OBVIOUS
    <2>1. \A r \in Row : table[r].phase = "absent" /\ table[r].version = 0 /\ history[r] = {}
      BY DEF Init
    <2>2. UNION {history[r] : r \in Row} = {}
      BY <2>1
    <2>3. QED
      BY <2>1, <2>2 DEF Lifecycle!Init
  <1>2. QED
    BY <1>1, Invariance, LifecycleStep, PTL DEF Spec, RowsHaveALifecycle, Lifecycle!Spec

=============================================================================
