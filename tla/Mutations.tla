------------------------------ MODULE Mutations ------------------------------
(***************************************************************************)
(* The rows an app holds, of one resource: its own writes, stored at once  *)
(* and sent each by a task of its own (EVY+Mutations.swift); the pushes    *)
(* and syncs that bring the server's rows (EVYWebsocket, EVY+Stores), into *)
(* the public or the private store (EVYDataStore); and the snapshot a page *)
(* takes of the record it was opened on (EVY+QueryParams).                 *)
(*                                                                         *)
(* A record is told by the number of the write that made it and by its     *)
(* visibility.  What may be missed by a sync beside pushes is the subject  *)
(* of Sync: here one runs when every push has been applied.                *)
(***************************************************************************)
EXTENDS Naturals, FiniteSets, SequencesExt, FiniteSetsExt

CONSTANTS
    Ids,          \* the ids of the rows, in the order the server lists them
    Page,         \* pages that show one record
    Ordered,      \* do requests arrive in the order they were sent
    MaxWrites,    \* bound: writes, here and elsewhere
    MaxSyncs,     \* bound: syncs
    MaxFaults,    \* bound: requests that fail on their way
    None          \* nothing

MutationsAssumption ==
    /\ Ids \in Seq(STRING) /\ IsInjective(Ids)
    /\ Ordered \in BOOLEAN
    /\ None \notin [n : Nat, visibility : {"public", "private"}]
    /\ None \notin [id : STRING, record : [n : Nat, visibility : {"public", "private"}]]
    /\ {MaxWrites, MaxSyncs, MaxFaults} \subseteq Nat

Id         == Range(Ids)
Visibility == {"public", "private"}
Record     == [n : 1 .. MaxWrites, visibility : Visibility]

VARIABLES
    server,     \* for each id its record, or None before it is created
    deleted,    \* the ids that were deleted there
    stores,     \* for each of the two stores: id -> [record, index]
    cache,      \* for each page the record it was opened on, [id, record], or None
    active,     \* activeCacheScopeId
    requests,   \* writes whose task has not been answered
    pushes,     \* data_changed notifications on their way
    written, syncs, faults,
    own         \* for each id the number of this app's last write; 0 if another wrote it

vars == <<server, deleted, stores, cache, active, requests, pushes, written, syncs, faults, own>>

Live(i)  == server[i] # None /\ i \notin deleted
Holds(i) == \E s \in Visibility : i \in DOMAIN stores[s]
Held     == {i \in Id : Holds(i)}
StoreOf(i) == CHOOSE s \in Visibility : i \in DOMAIN stores[s]
Local(i)   == stores[StoreOf(i)][i].record

-----------------------------------------------------------------------------
(* EVYDataStore.                                                            *)

NextSortIndex(st) == IF DOMAIN st = {} THEN 0 ELSE Max({st[i].index : i \in DOMAIN st}) + 1

Upsert(st, i, record, index) ==
    [j \in DOMAIN st \cup {i} |-> IF j = i THEN [record |-> record, index |-> index] ELSE st[j]]
Delete(st, i) == [j \in DOMAIN st \ {i} |-> st[j]]

(* EVY+Stores.                                                              *)

\* A mutant: a row takes the next place whether it has one or not.
PlaceAnew(st, i, position) == IF position # None THEN position ELSE NextSortIndex(st)

\* An existing row keeps its place.
Place(st, i, position) ==
    IF i \in DOMAIN st THEN st[i].index
    ELSE IF position # None THEN position ELSE NextSortIndex(st)

\* A mutant: the store a record was in before keeps it.
ApplyToItsStore(sts, i, record, position) ==
    LET s == record.visibility
    IN  [sts EXCEPT ![s] = Upsert(@, i, record, Place(@, i, position))]

\* applySyncedRecord; the counterpart store gives the row up.
ApplySyncedRecord(sts, i, record, position) ==
    LET s == record.visibility
    IN  [t \in Visibility |-> IF t = s THEN Upsert(sts[s], i, record, Place(sts[s], i, position))
                              ELSE Delete(sts[t], i)]

RemoveSyncedRecord(sts, i) == [s \in Visibility |-> Delete(sts[s], i)]

\* A mutant: only the page in view is refreshed.
RefreshActive(c, i, record) ==
    [p \in Page |-> IF p = active /\ c[p] # None /\ c[p].id = i
                    THEN [id |-> i, record |-> record] ELSE c[p]]

\* refreshCacheSnapshots: of every page.
RefreshCacheSnapshots(c, i, record) ==
    [p \in Page |-> IF c[p] # None /\ c[p].id = i THEN [id |-> i, record |-> record] ELSE c[p]]

\* The record an id names: the private store is looked at where the public one is empty.
Resolved(i) ==
    IF DOMAIN stores["public"] # {}
    THEN IF i \in DOMAIN stores["public"] THEN stores["public"][i].record ELSE None
    ELSE IF i \in DOMAIN stores["private"] THEN stores["private"][i].record ELSE None

-----------------------------------------------------------------------------
Init ==
    /\ server = [i \in Id |-> None] /\ deleted = {}
    /\ stores = [s \in Visibility |-> [i \in {} |-> None]]
    /\ cache = [p \in Page |-> None]
    /\ active \in Page
    /\ requests = {} /\ pushes = << >>
    /\ written = 0 /\ syncs = 0 /\ faults = 0
    /\ own = [i \in Id |-> 0]

NextWrite == written < MaxWrites /\ written' = written + 1

Request(op, i, record) == [op |-> op, id |-> i, record |-> record]

\* createWithGeneratedId: an id nobody has used.
Create(i, visibility) ==
    LET record == [n |-> written + 1, visibility |-> visibility] IN
    /\ NextWrite
    /\ server[i] = None /\ own[i] = 0
    /\ stores' = [stores EXCEPT ![visibility] = Upsert(@, i, record, NextSortIndex(@))]
    /\ own' = [own EXCEPT ![i] = written + 1]
    /\ requests' = requests \cup {Request("create", i, record)}
    /\ UNCHANGED <<server, deleted, cache, active, pushes, syncs, faults>>

\* The row a local update leaves: it is written without its place.
Updated(row, record) == [record |-> record, index |-> 0]

\* update: the rows a filter matches, in the store they are in, whatever
\* becomes of their visibility; and the snapshot of the page in view.
Update(matched, visibility) ==
    LET new(i) == [n |-> written + 1,
                   visibility |-> IF visibility = None THEN Local(i).visibility ELSE visibility]
    IN  /\ NextWrite
        /\ matched # {} /\ matched \subseteq Held
        /\ stores' = [s \in Visibility |->
                [i \in DOMAIN stores[s] |->
                    IF i \in matched THEN Updated(stores[s][i], new(i)) ELSE stores[s][i]]]
        /\ cache' = [cache EXCEPT ![active] =
                IF @ # None /\ @.id \in matched THEN [id |-> @.id, record |-> new(@.id)] ELSE @]
        /\ own' = [i \in Id |-> IF i \in matched THEN written + 1 ELSE own[i]]
        /\ requests' = requests \cup {Request("update", i, new(i)) : i \in matched}
        /\ UNCHANGED <<server, deleted, active, pushes, syncs, faults>>

\* The server takes a write, or refuses it: an id that exists, one that does
\* not or no longer does.  The task only tells the user of the refusal.
Accepts(r) == IF r.op = "create" THEN server[r.id] = None ELSE Live(r.id)

Serve(r) ==
    /\ Ordered => \A q \in requests : r.record.n <= q.record.n
    /\ requests' = requests \ {r}
    /\ IF Accepts(r)
       THEN /\ server' = [server EXCEPT ![r.id] = r.record]
            /\ pushes' = Append(pushes, Request("update", r.id, r.record))
       ELSE UNCHANGED <<server, pushes>>
    /\ UNCHANGED <<deleted, stores, cache, active, written, syncs, faults, own>>

\* A request that never arrives.
Fail(r) ==
    /\ faults < MaxFaults
    /\ faults' = faults + 1
    /\ requests' = requests \ {r}
    /\ UNCHANGED <<server, deleted, stores, cache, active, pushes, written, syncs, own>>

\* Another client writes or deletes a row.
OtherPuts(i, visibility) ==
    LET record == [n |-> written + 1, visibility |-> visibility] IN
    /\ NextWrite
    /\ Live(i) \/ (server[i] = None /\ own[i] = 0)
    /\ server' = [server EXCEPT ![i] = record]
    /\ own' = [own EXCEPT ![i] = 0]
    /\ pushes' = Append(pushes, Request("update", i, record))
    /\ UNCHANGED <<deleted, stores, cache, active, requests, syncs, faults>>

OtherDeletes(i) ==
    /\ Live(i)
    /\ NextWrite
    /\ pushes' = Append(pushes, Request("delete", i, server[i]))
    /\ deleted' = deleted \cup {i}
    /\ own' = [own EXCEPT ![i] = 0]
    /\ UNCHANGED <<server, stores, cache, active, requests, syncs, faults>>

\* A mutant: a deletion is applied like any other change.
AppliedPushUpserting(push) ==
    /\ stores' = ApplySyncedRecord(stores, push.id, push.record, None)
    /\ cache' = RefreshCacheSnapshots(cache, push.id, push.record)

\* handleDataChanged.
AppliedPush(push) ==
    IF push.op = "delete"
    THEN stores' = RemoveSyncedRecord(stores, push.id) /\ UNCHANGED cache
    ELSE /\ stores' = ApplySyncedRecord(stores, push.id, push.record, None)
         /\ cache' = RefreshCacheSnapshots(cache, push.id, push.record)

Push ==
    /\ pushes # << >>
    /\ AppliedPush(Head(pushes))
    /\ pushes' = Tail(pushes)
    /\ UNCHANGED <<server, deleted, active, requests, written, syncs, faults, own>>

\* A sync: all rows with their places, or those that changed, here any that
\* differ, with the tombstones and without places; applied one by one.
PlaceListed(k) == Cardinality({j \in 1 .. k - 1 : Live(Ids[j])})

Synced(full) ==
    LET upTo[k \in 0 .. Len(Ids)] ==
            IF k = 0 THEN stores
            ELSE IF ~ Live(Ids[k]) THEN upTo[k - 1]
            ELSE ApplySyncedRecord(upTo[k - 1], Ids[k], server[Ids[k]],
                                   IF full THEN PlaceListed(k) ELSE None)
    IN  upTo[Len(Ids)]

Sync(full) ==
    LET after == Synced(full)
        gone  == IF full THEN {} ELSE deleted
    IN  /\ syncs < MaxSyncs /\ syncs' = syncs + 1
        /\ pushes = << >>
        /\ stores' = [s \in Visibility |-> [i \in DOMAIN after[s] \ gone |-> after[s][i]]]
        /\ cache' = [p \in Page |-> IF cache[p] # None /\ Live(cache[p].id)
                                    THEN [id |-> cache[p].id, record |-> server[cache[p].id]]
                                    ELSE cache[p]]
        /\ UNCHANGED <<server, deleted, active, requests, pushes, written, faults, own>>

\* A page is opened on a record, cacheQueryParams, or comes back into view.
Open(p, i) ==
    /\ Holds(i)
    /\ cache' = IF Resolved(i) = None THEN cache
                ELSE [cache EXCEPT ![p] = [id |-> i, record |-> Resolved(i)]]
    /\ active' = p
    /\ UNCHANGED <<server, deleted, stores, requests, pushes, written, syncs, faults, own>>

Return(p) ==
    /\ active' = p
    /\ UNCHANGED <<server, deleted, stores, cache, requests, pushes, written, syncs, faults, own>>

Next ==
    \/ \E i \in Id, v \in Visibility : Create(i, v) \/ OtherPuts(i, v)
    \/ \E i \in Id : OtherDeletes(i)
    \/ \E matched \in SUBSET Id, v \in Visibility \cup {None} : Update(matched, v)
    \/ \E r \in requests : Serve(r) \/ Fail(r)
    \/ Push
    \/ \E full \in BOOLEAN : Sync(full)
    \/ \E p \in Page : Return(p) \/ \E i \in Id : Open(p, i)

Spec == Init /\ [][Next]_vars

-----------------------------------------------------------------------------
(* Type invariant. *)
TypeOK ==
    /\ \A i \in Id : Live(i) => server[i] \in Record
    /\ \A s \in Visibility : \A i \in DOMAIN stores[s] :
          stores[s][i].record \in Record /\ stores[s][i].index \in Nat
    /\ active \in Page
    /\ \A r \in requests : r.op \in {"create", "update"} /\ r.id \in Id /\ r.record \in Record
    /\ written \in 0 .. MaxWrites /\ syncs \in 0 .. MaxSyncs /\ faults \in 0 .. MaxFaults

Quiet == requests = {} /\ pushes = << >> /\ faults = 0

(* A record is in one of the stores, whoever changed its visibility.           *)
OneStorePerRecord == DOMAIN stores["public"] \cap DOMAIN stores["private"] = {}

(* Once every write is answered and every push applied the app holds the       *)
(* server's rows, in the store their visibility names, and no page shows an     *)
(* older copy of one.                                                           *)
QuietIsTheServer ==
    Quiet => /\ \A i \in Id : Live(i) <=> Holds(i)
             /\ \A i \in Held : Local(i) = server[i] /\ StoreOf(i) = server[i].visibility
             /\ \A p \in Page : cache[p] # None /\ Holds(cache[p].id)
                                => cache[p].record = Local(cache[p].id)

Index(i) == stores[StoreOf(i)][i].index

(* What comes from the server, but for what the app wrote itself, does not      *)
(* reorder the rows that stay in their store.                                   *)
ChangesDoNotReorder ==
    [][UNCHANGED written =>
          \A s \in Visibility : \A i \in DOMAIN stores[s] \cap DOMAIN stores'[s] :
              stores'[s][i].index = stores[s][i].index]_vars

(* Rows are only ever put into another order by a sync (EVY+Stores.swift:77).   *)
(* (Not so: an update of the app's own writes its rows with the place 0.)       *)
OnlyASyncReorders ==
    [][UNCHANGED syncs =>
          \A s \in Visibility : \A i \in DOMAIN stores[s] \cap DOMAIN stores'[s] :
              stores'[s][i].index = stores[s][i].index]_vars

(* Where nobody else wrote a row since, it ends as this app wrote it last.      *)
(* (Not so where requests overtake each other.)                                 *)
LastWriteStays ==
    Quiet => \A i \in Id : own[i] # 0 /\ Live(i) => server[i].n = own[i]

(* A record the app holds can be opened.  (Not so for a private one of a        *)
(* resource that has public ones.)                                              *)
HeldIsFound == \A i \in Held : Resolved(i) # None

=============================================================================
