---------------------------- MODULE CoreResource ----------------------------
(***************************************************************************)
(* api/src/data/resources/coreResource.ts with api/src/data/conflicts.ts   *)
(* and the entry points of api/src/data/data.ts: the versioned row store   *)
(* every core resource is made of.  A request is an asynchronous function: *)
(* each await is a point where other requests run, so create is two steps  *)
(* (take the timestamp; insert) and update and delete are three (take the  *)
(* timestamp; select and compare the version; write).  The broadcast comes *)
(* after the answer of the database, one more step later.                  *)
(*                                                                         *)
(* A version token is the row's updated_at: the timestamps of Clock, here  *)
(* as numbers, TicksPerMs of them to a millisecond.  A row is never        *)
(* removed: deleted_at turns it into a tombstone.                          *)
(***************************************************************************)
EXTENDS Naturals, FiniteSets

CONSTANTS
    Row,            \* the rows of a resource, by id
    Request,        \* the requests of all clients; each is sent once
    TicksPerMs,     \* distinct timestamps within a millisecond
    Registered      \* the operations the resource registered; append-only ones only create

ASSUME StoreAssumption ==
    /\ TicksPerMs \in Nat \ {0}
    /\ Registered \subseteq {"create", "update", "delete"}

VARIABLES
    clock,      \* the last timestamp nowIso() gave
    table,      \* [Row -> the stored row]
    req,        \* [Request -> its progress]
    history,    \* [Row -> the versions the row has had]: what clients may have read
    carried,    \* [Request -> the versions its row has had since it began]
    pushed      \* the data_changed broadcasts

vars == <<clock, table, req, history, carried, pushed>>

Op    == {"create", "update", "delete"}
Pc    == {"new", "insert", "select", "write", "notify", "done", "failed", "lost"}

\* filter.expected_updated_at: none, a token as the server wrote it, or one
\* that kept three fractional digits.
Expected == [kind : {"none"}, at : {0}] \cup [kind : {"exact", "ms"}, at : Nat]
NoPrecondition == [kind |-> "none", at |-> 0]

\* A row that was never inserted has no version.
StoredRow == [phase : {"absent"}, version : {0}]
                \cup [phase : {"live", "deleted"}, version : Nat \ {0}]

TypeOK ==
    /\ clock \in Nat
    /\ table \in [Row -> StoredRow]
    /\ req \in [Request -> [pc : Pc, op : Op, row : Row, expected : Expected, now : Nat]]
    /\ history \in [Row -> SUBSET Nat]
    /\ carried \in [Request -> SUBSET Nat]
    /\ pushed \subseteq [row : Row, version : Nat]

\* The store starts empty: every row comes from a request.  What each request
\* asks for is its caller's choice; an unregistered operation is not reachable.
Init ==
    /\ clock = 0
    /\ table = [r \in Row |-> [phase |-> "absent", version |-> 0]]
    /\ req \in [Request -> [pc : {"new"}, op : Registered,
                            row : Row, expected : {NoPrecondition}, now : {0}]]
    /\ history = [r \in Row |-> {}]
    /\ carried = [q \in Request |-> {}]
    /\ pushed = {}

-----------------------------------------------------------------------------
(* Helpers *)

\* versionTokensMatch: a token that kept milliseconds matches every version
\* within its millisecond.
VersionTokensMatch(expected, actual) ==
    IF expected.kind = "exact" THEN expected.at = actual
                               ELSE expected.at = actual \div TicksPerMs

\* assertNotModified does not throw.
NotModified(expected, actual) ==
    expected.kind = "none" \/ VersionTokensMatch(expected, actual)

\* The preconditions a client can send for r: none, or a version it has read,
\* whole or cut to milliseconds.
Preconditions(r) ==
    {NoPrecondition}
        \cup {[kind |-> "exact", at |-> v] : v \in history[r]}
        \cup {[kind |-> "ms", at |-> v \div TicksPerMs] : v \in history[r]}

\* The request has begun and has not written yet.
UnderWay(q) == req[q].pc \in {"insert", "select", "write"}

\* Request q moves on to pc.
Goto(q, pc) == req' = [req EXCEPT ![q].pc = pc]

\* The row r is stored in phase p with the timestamp of request q, which
\* waits to broadcast it; every request under way on r sees the row move.
Store(q, p) ==
    LET r == req[q].row
        v == req[q].now
    IN  /\ table' = [table EXCEPT ![r] = [phase |-> p, version |-> v]]
        /\ history' = [history EXCEPT ![r] = @ \cup {v}]
        /\ carried' = [c \in Request |->
                          IF req[c].row = r /\ UnderWay(c) THEN carried[c] \cup {v}
                                                          ELSE carried[c]]
        /\ Goto(q, "notify")
        /\ UNCHANGED <<clock, pushed>>

\* The request is refused and leaves no trace.
Refuse(q) ==
    /\ Goto(q, "failed")
    /\ UNCHANGED <<clock, table, history, carried, pushed>>

\* The request goes on to its write.
Proceed(q) ==
    /\ Goto(q, "write")
    /\ UNCHANGED <<clock, table, history, carried, pushed>>

-----------------------------------------------------------------------------
(* Actions *)

\* A request reaches createCoreBody, updateCoreBody or remove: the timestamp
\* it will write is taken before its first await.  Only update and delete
\* carry a precondition.
Begin(q) ==
    /\ req[q].pc = "new"
    /\ \E e \in IF req[q].op = "create" THEN {NoPrecondition} ELSE Preconditions(req[q].row) :
          req' = [req EXCEPT ![q].pc = IF req[q].op = "create" THEN "insert" ELSE "select",
                             ![q].expected = e,
                             ![q].now = clock + 1]
    /\ clock' = clock + 1
    /\ carried' = [carried EXCEPT ![q] = {table[req[q].row].version}]
    /\ UNCHANGED <<table, history, pushed>>

\* Mutants: an insert that replaces the row it finds; a unique violation that
\* is swallowed, so that the row is broadcast all the same.
InsertOrReplace(q) == req[q].pc = "insert" /\ Store(q, "live")
InsertSwallowing(q) ==
    /\ req[q].pc = "insert"
    /\ IF table[req[q].row].phase = "absent" THEN Store(q, "live")
       ELSE Goto(q, "notify") /\ UNCHANGED <<clock, table, history, carried, pushed>>

\* create: the primary key refuses an id that exists, a tombstone's included.
Insert(q) ==
    /\ req[q].pc = "insert"
    /\ IF table[req[q].row].phase = "absent" THEN Store(q, "live") ELSE Refuse(q)

\* Mutant: a row that does not exist is updated.
SelectForUpdateUnfound(q) ==
    /\ req[q].pc = "select" /\ req[q].op = "update"
    /\ IF NotModified(req[q].expected, table[req[q].row].version)
       THEN Proceed(q) ELSE Refuse(q)

\* update: the row is selected by id, a tombstone too, and its version compared.
SelectForUpdate(q) ==
    LET row == table[req[q].row]
    IN  /\ req[q].pc = "select" /\ req[q].op = "update"
        /\ IF row.phase # "absent" /\ NotModified(req[q].expected, row.version)
           THEN Proceed(q) ELSE Refuse(q)

\* update: the write addresses the row by id alone, and leaves deleted_at.
WriteUpdate(q) ==
    /\ req[q].pc = "write" /\ req[q].op = "update"
    /\ Store(q, table[req[q].row].phase)

\* Mutant: delete ignores the precondition.
SelectForDeleteUnconditionally(q) ==
    /\ req[q].pc = "select" /\ req[q].op = "delete"
    /\ IF table[req[q].row].phase = "live" THEN Proceed(q) ELSE Refuse(q)

\* remove: only a live row is selected.
SelectForDelete(q) ==
    LET row == table[req[q].row]
    IN  /\ req[q].pc = "select" /\ req[q].op = "delete"
        /\ IF row.phase = "live" /\ NotModified(req[q].expected, row.version)
           THEN Proceed(q) ELSE Refuse(q)

\* Mutant: the write of a delete addresses the row by id alone.
WriteDeleteAgain(q) ==
    /\ req[q].pc = "write" /\ req[q].op = "delete"
    /\ Store(q, "deleted")

\* remove: the write addresses the row by id and only while it is live.
WriteDelete(q) ==
    /\ req[q].pc = "write" /\ req[q].op = "delete"
    /\ IF table[req[q].row].phase = "live" THEN Store(q, "deleted") ELSE Refuse(q)

\* The write is answered: notify broadcasts the row, and the caller is told.
Notify(q) ==
    /\ req[q].pc = "notify"
    /\ pushed' = pushed \cup {[row |-> req[q].row, version |-> req[q].now]}
    /\ Goto(q, "done")
    /\ UNCHANGED <<clock, table, history, carried>>

\* The api process stops, or the database connection of the request fails:
\* the request ends where it is.  What it stored stays, though its caller was
\* told nothing or an error, and nobody else was told.
Lose(q) ==
    /\ UnderWay(q) \/ req[q].pc = "notify"
    /\ Goto(q, "lost")
    /\ UNCHANGED <<clock, table, history, carried, pushed>>

Step(q) ==
    \/ Begin(q)
    \/ Insert(q)
    \/ SelectForUpdate(q) \/ WriteUpdate(q)
    \/ SelectForDelete(q) \/ WriteDelete(q)
    \/ Notify(q)
    \/ Lose(q)

Next == \E q \in Request : Step(q)

Spec == Init /\ [][Next]_vars

-----------------------------------------------------------------------------
(* Properties *)

Committed == {q \in Request : req[q].pc \in {"notify", "done"}}

\* Whatever the interleaving, the store is an instance of RowLifecycle: a row
\* is created once, never comes back from its tombstone, and each write gives
\* it a version no row ever had.
Lifecycle == INSTANCE RowLifecycle WITH
    phase   <- [r \in Row |-> table[r].phase],
    version <- [r \in Row |-> table[r].version],
    used    <- UNION {history[r] : r \in Row}

RowsHaveALifecycle == Lifecycle!Spec

\* Of the requests that create a row, and of those that delete it, at most
\* one is told it succeeded, however they overlap.
OneCreatorOneDeleter ==
    \A p, q \in Committed :
        p # q /\ req[p].row = req[q].row /\ req[p].op = req[q].op => req[p].op = "update"

\* A conditional write that succeeds was compared with a version the row had
\* at some moment while the request was running: a precondition that was
\* already stale when the request began never passes (unless a token cut to
\* milliseconds hides the difference).
ComparedWithACurrentVersion ==
    \A q \in Committed : \E v \in carried[q] : NotModified(req[q].expected, v)

\* Clients hear of a version only once it is stored, and every stored version
\* is heard of unless its request was cut off before it could say so.
BroadcastsAreTheStoredVersions ==
    /\ \A p \in pushed : p.version \in history[p.row]
    /\ \A r \in Row : \A v \in history[r] :
          \/ [row |-> r, version |-> v] \in pushed
          \/ \E q \in Request :
                req[q].row = r /\ req[q].now = v /\ req[q].pc \in {"notify", "lost"}

\* api/README.md: with expected_updated_at "the write only applies if the
\* stored row still carries that updated_at".  The code compares before an
\* await and writes after it.
AppliesOnlyToTheExpectedVersion ==
    [][\A q \in Request :
          req[q].pc = "write" /\ req'[q].pc = "notify"
              => NotModified(req[q].expected, table[req[q].row].version)]_vars

\* api/README.md: updated_at "is forced to strictly increase per row".  The
\* code takes the timestamp when the request begins and stores it awaits later.
VersionsIncrease ==
    [][\A r \in Row : table'[r].version # table[r].version
                         => table'[r].version > table[r].version]_vars

=============================================================================
