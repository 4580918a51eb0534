-------------------------------- MODULE Sync --------------------------------
(***************************************************************************)
(* api/src/procedures/sync.ts and resources.ts, the reads behind them in   *)
(* api/src/data/resources/coreResource.ts and messages.ts and in           *)
(* services/marketplace/src/data.ts, and the device's half in ios/evy/Core *)
(* (EVY+Sync, EVY+Stores, EVY+Ownership): how a device comes to hold the   *)
(* rows it may see.                                                        *)
(*                                                                         *)
(* A sync asks for what changed since a cursor.  The api discovers the     *)
(* services' resources and then reads one resource after another, core and *)
(* service ones side by side, with no snapshot; the next cursor is the     *)
(* largest updated_at among the core rows read (a service sends the bare   *)
(* payload of a row).  Beside that, every write is pushed to the devices   *)
(* that are connected.  A row's version is its timestamp, a number.        *)
(*                                                                         *)
(* Four constants open what real executions may add, one by one: writes    *)
(* during a sync; writes stored in another order than their timestamps     *)
(* (overlapping requests, or the clock of another process); deletes in the *)
(* service.                                                                *)
(***************************************************************************)
EXTENDS Naturals, Sequences, FiniteSets, FiniteSetsExt

CONSTANTS
    Core,           \* core resources, a sequence of sets of rows: the order they are read in
    Service,        \* the service's resources, likewise
    Private,        \* rows that only entitled devices receive
    Parent,         \* [row -> the row it addresses or answers, NoRow if there is none]
    Own,            \* rows this device creates
    Declarable,     \* rows a launch may declare to be owned
    NoRow,
    MaxStamp,       \* bound on the timestamps
    MaxFailures,    \* bound on failed reads and lost connections
    WritesDuring, Overlap, ServiceDeletes   \* what may happen

CoreRow     == UNION {Core[i] : i \in DOMAIN Core}
ServiceRow  == UNION {Service[i] : i \in DOMAIN Service}
Row         == CoreRow \cup ServiceRow

SyncAssumption ==
    /\ Core \in Seq(SUBSET Row) /\ Service \in Seq(SUBSET Row)
    /\ NoRow \notin Row
    /\ MaxStamp \in Nat /\ MaxFailures \in Nat
    /\ Private \cup Own \cup Declarable \subseteq Row
    /\ Parent \in [Row -> Row \cup {NoRow}]
    /\ {WritesDuring, Overlap, ServiceDeletes} \subseteq BOOLEAN

VARIABLES
    row,        \* [Row -> the stored row: its updated_at, and whether it is deleted]
    clock,      \* the last timestamp taken
    inflight,   \* writes that took their timestamp and are not stored yet
    online,     \* the device is connected and subscribed
    pushes,     \* data_changed notifications the device has not applied yet
    held,       \* [Row -> the version the device holds, 0 for none]
    created,    \* the ownership ledger
    declared,   \* the ownership declared at launch
    cursor, issuedFor,  \* EVYSyncState: the cursor, and the declaration it was issued under
    sync,       \* the sync in progress
    failures

store  == <<row, clock, inflight>>
device == <<held, created, declared, cursor, issuedFor>>
vars   == <<row, clock, inflight, online, pushes, held, created, declared, cursor, issuedFor,
            sync, failures>>

Version == [row : Row, stamp : 1 .. MaxStamp, deleted : BOOLEAN]
NoSync  == [pc |-> "idle", since |-> 0, owned |-> {}, core |-> 0, service |-> 0,
            got |-> {}, failed |-> FALSE]

TypeOK ==
    /\ row \in [Row -> [stamp : 0 .. MaxStamp, deleted : BOOLEAN]]
    /\ clock \in 0 .. MaxStamp
    /\ inflight \subseteq [row : Row, stamp : 1 .. MaxStamp, op : {"put", "delete"}]
    /\ online \in BOOLEAN /\ pushes \in Seq(Version)
    /\ held \in [Row -> 0 .. MaxStamp]
    /\ created \subseteq Row /\ declared \subseteq Row /\ issuedFor \subseteq Row
    /\ cursor \in 0 .. MaxStamp
    /\ sync.pc \in {"idle", "discover", "read"} /\ sync.got \subseteq Version
    /\ failures \in 0 .. MaxFailures

Init ==
    /\ row = [r \in Row |-> [stamp |-> 0, deleted |-> FALSE]]
    /\ clock = 0 /\ inflight = {}
    /\ online = FALSE /\ pushes = << >>
    /\ held = [r \in Row |-> 0]
    /\ created = {} /\ declared = {}
    /\ cursor = 0 /\ issuedFor = {}
    /\ sync = NoSync
    /\ failures = 0

Fail == failures < MaxFailures /\ failures' = failures + 1

-----------------------------------------------------------------------------
(* Writes, in the api or in the service *)

\* The writes a store accepts: a core row is not written after its deletion;
\* the service's update does not look whether its row is deleted.
Accepts(r, op) ==
    /\ op = "put" => r \in ServiceRow \/ ~ row[r].deleted
    /\ op = "delete" => /\ row[r].stamp # 0 /\ ~ row[r].deleted
                        /\ r \in ServiceRow => ServiceDeletes

\* A message answers one that exists.
MayBegin(r) ==
    Parent[r] # NoRow => row[Parent[r]].stamp # 0

\* The write is stored with its timestamp, and announced to who is connected.
Store(r, op, stamp) ==
    LET deleted == op = "delete" \/ row[r].deleted
    IN  /\ row' = [row EXCEPT ![r] = [stamp |-> stamp, deleted |-> deleted]]
        /\ pushes' = IF online
                     THEN Append(pushes, [row |-> r, stamp |-> stamp, deleted |-> (op = "delete")])
                     ELSE pushes

\* A write takes its timestamp as it arrives.  The device records what it
\* creates itself in its ledger.
Write(r, op) ==
    /\ clock < MaxStamp
    /\ WritesDuring \/ sync = NoSync
    /\ MayBegin(r) /\ Accepts(r, op)
    /\ clock' = clock + 1
    /\ r \in Own => online
    /\ created' = created \cup ({r} \cap Own)
    /\ \/ Store(r, op, clock') /\ UNCHANGED inflight
       \/ /\ Overlap
          /\ inflight' = inflight \cup {[row |-> r, stamp |-> clock', op |-> op]}
          /\ UNCHANGED <<row, pushes>>
    /\ UNCHANGED <<online, held, declared, cursor, issuedFor, sync, failures>>

\* An overlapping write is stored, if it still may be.
Land(w) ==
    /\ WritesDuring \/ sync = NoSync
    /\ inflight' = inflight \ {w}
    /\ IF Accepts(w.row, w.op) THEN Store(w.row, w.op, w.stamp) ELSE UNCHANGED <<row, pushes>>
    /\ UNCHANGED <<clock, online, device, sync, failures>>

-----------------------------------------------------------------------------
(* The device *)

\* ownedResources: what it created, what it holds privately, what it declared.
Owned == created \cup {r \in Private : held[r] # 0} \cup declared

\* applySyncedValue and removeSyncedValue: a deleted record is removed, any
\* other replaces what is held, whatever its version.
Applied(h, v) == [h EXCEPT ![v.row] = IF v.deleted THEN 0 ELSE v.stamp]

Connect ==
    /\ ~ online /\ online' = TRUE
    /\ UNCHANGED <<store, pushes, device, sync, failures>>

\* The connection is lost with what was on its way.
Disconnect ==
    /\ online /\ Fail
    /\ online' = FALSE /\ pushes' = << >> /\ sync' = NoSync
    /\ UNCHANGED <<store, device>>

\* Mutant: a notification of an earlier timestamp is dropped.
ApplyPushIfNewer ==
    /\ pushes # << >>
    /\ held' = IF Head(pushes).stamp > held[Head(pushes).row] THEN Applied(held, Head(pushes)) ELSE held
    /\ pushes' = Tail(pushes)
    /\ UNCHANGED <<store, online, created, declared, cursor, issuedFor, sync, failures>>

\* handleDataChanged, in the order the notifications came.
ApplyPush ==
    /\ pushes # << >>
    /\ held' = Applied(held, Head(pushes))
    /\ pushes' = Tail(pushes)
    /\ UNCHANGED <<store, online, created, declared, cursor, issuedFor, sync, failures>>

\* A launch with another EVY_OWNED_RESOURCES.
Redeclare(r) ==
    /\ ~ online
    /\ declared' = declared \cup {r}
    /\ UNCHANGED <<store, online, pushes, held, created, cursor, issuedFor, sync, failures>>

\* Mutant: the cursor is used whatever ownership it was issued under.
BeginSyncAnyCursor ==
    /\ online /\ sync = NoSync
    /\ sync' = [NoSync EXCEPT !.pc = "discover", !.since = cursor, !.owned = Owned]
    /\ UNCHANGED <<store, online, pushes, device, failures>>

\* EVY.sync: the cursor is void if the declaration has changed.
BeginSync ==
    /\ online /\ sync = NoSync
    /\ sync' = [NoSync EXCEPT !.pc = "discover", !.owned = Owned,
                              !.since = IF declared = issuedFor THEN cursor ELSE 0]
    /\ UNCHANGED <<store, online, pushes, device, failures>>

-----------------------------------------------------------------------------
(* The api *)

\* discoverResources: a service that fails is an error, and is not read.
Discover ==
    /\ sync.pc = "discover"
    /\ \/ sync' = [sync EXCEPT !.pc = "read"] /\ UNCHANGED failures
       \/ /\ Fail
          /\ sync' = [sync EXCEPT !.pc = "read", !.service = Len(Service), !.failed = TRUE]
    /\ UNCHANGED <<store, online, pushes, device>>

\* The clauses of runListForSync: public rows, owned rows, and those that
\* address or answer an owned one.
Entitled(r, owned) == r \notin Private \/ r \in owned \/ Parent[r] \in owned

Changed(rows, since) == {r \in rows : row[r].stamp > since}

\* Mutant: an incremental read leaves out what was deleted.
CoreReadLive(rows) ==
    {[row |-> r, stamp |-> row[r].stamp, deleted |-> FALSE] :
        r \in {x \in Changed(rows, sync.since) : Entitled(x, sync.owned) /\ ~ row[x].deleted}}

\* What a core read returns, tombstones included.
CoreRead(rows) ==
    {[row |-> r, stamp |-> row[r].stamp, deleted |-> row[r].deleted] :
        r \in {x \in Changed(rows, sync.since) : Entitled(x, sync.owned)}}

\* What the service's get returns: the payloads, without deleted_at.
ServiceRead(rows) ==
    {[row |-> r, stamp |-> row[r].stamp, deleted |-> FALSE] : r \in Changed(rows, sync.since)}

\* fetchResources: the core resources in turn, one that fails is an error.
ReadCore ==
    /\ sync.pc = "read" /\ sync.core < Len(Core)
    /\ \/ /\ sync' = [sync EXCEPT !.core = @ + 1,
                                  !.got = @ \cup CoreRead(Core[sync.core + 1])]
          /\ UNCHANGED failures
       \/ Fail /\ sync' = [sync EXCEPT !.core = @ + 1, !.failed = TRUE]
    /\ UNCHANGED <<store, online, pushes, device>>

\* The service's resources, side by side with the core ones.
ReadService ==
    /\ sync.pc = "read" /\ sync.service < Len(Service)
    /\ \/ /\ sync' = [sync EXCEPT !.service = @ + 1,
                                  !.got = @ \cup ServiceRead(Service[sync.service + 1])]
          /\ UNCHANGED failures
       \/ Fail /\ sync' = [sync EXCEPT !.service = @ + 1, !.failed = TRUE]
    /\ UNCHANGED <<store, online, pushes, device>>

\* Mutant: the cursor is one past what was read.
NextCursorPast == 1 + Max({sync.since} \cup {v.stamp : v \in {x \in sync.got : x.row \notin ServiceRow}})

\* Mutant: the cursor is the largest timestamp read, wherever it began.
NextCursorOfResponse == Max({0} \cup {v.stamp : v \in {x \in sync.got : x.row \notin ServiceRow}})

\* nextCursor: service payloads carry no updated_at.
NextCursor == Max({sync.since} \cup {v.stamp : v \in {x \in sync.got : x.row \notin ServiceRow}})

\* Mutant: the cursor advances past what could not be read.
EndSyncPartial ==
    /\ sync.pc = "read" /\ sync.core = Len(Core) /\ sync.service = Len(Service)
    /\ pushes = << >>
    /\ held' = [r \in Row |->
                   IF \E v \in sync.got : v.row = r
                   THEN LET v == CHOOSE x \in sync.got : x.row = r IN Applied(held, v)[r]
                   ELSE held[r]]
    /\ cursor' = NextCursor /\ issuedFor' = declared
    /\ sync' = NoSync
    /\ UNCHANGED <<store, online, pushes, created, declared, failures>>

\* The response reaches the device behind the notifications that were sent
\* before it, and the device applies its rows; a response with errors leaves
\* the cursor where it was.
EndSync ==
    /\ sync.pc = "read" /\ sync.core = Len(Core) /\ sync.service = Len(Service)
    /\ pushes = << >>
    /\ held' = [r \in Row |->
                   IF \E v \in sync.got : v.row = r
                   THEN LET v == CHOOSE x \in sync.got : x.row = r IN Applied(held, v)[r]
                   ELSE held[r]]
    /\ IF sync.failed
       THEN UNCHANGED <<cursor, issuedFor>>
       ELSE cursor' = NextCursor /\ issuedFor' = declared
    /\ sync' = NoSync
    /\ UNCHANGED <<store, online, pushes, created, declared, failures>>

-----------------------------------------------------------------------------
Next ==
    \/ \E r \in Row, op \in {"put", "delete"} : Write(r, op)
    \/ \E w \in inflight : Land(w)
    \/ Connect \/ Disconnect \/ ApplyPush \/ BeginSync
    \/ \E r \in Declarable : Redeclare(r)
    \/ Discover \/ ReadCore \/ ReadService \/ EndSync

Spec == Init /\ [][Next]_vars

-----------------------------------------------------------------------------
(* Properties *)

\* What a cursor promises (api/README.md:66): the device holds every row it
\* is entitled to as it was stored up to the cursor, and none that was deleted
\* by then, whatever connections and reads failed before.  What is later than
\* the cursor, the next sync asks for.
NothingIsMissed ==
    sync = NoSync /\ pushes = << >> /\ declared = issuedFor =>
        \A r \in Row :
            row[r].stamp \in 1 .. cursor /\ Entitled(r, Owned)
                => held[r] = IF row[r].deleted THEN 0 ELSE row[r].stamp

\* The cursor of a declaration only advances: a response without core rows
\* does not send the device back to the beginning.
CursorAdvances == [][issuedFor' = issuedFor => cursor' >= cursor]_vars

=============================================================================
