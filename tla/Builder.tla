-------------------------------- MODULE Builder --------------------------------
(***************************************************************************)
(* web/app/api/wsClient.ts and web/app/state/AppProvider.tsx: a builder    *)
(* that edits the graph of a flow beside other writers.                    *)
(*                                                                         *)
(* Every edit of the builder changes its maps at once.  An effect compares *)
(* them with those of its last run and queues a save of the difference;    *)
(* saves run one at a time, each a sequence of writes the api accepts or   *)
(* refuses one by one.  The api pushes every write to every client, the    *)
(* writer included; a push is dispatched to the maps, which React renders  *)
(* later, and kept to be replayed on the maps the effect compares with.    *)
(*                                                                         *)
(* The graph is one page and the rows it refers to: a flow and its pages   *)
(* are written alike.  The api is atomic here: what its awaits may do to a *)
(* precondition is in CoreResource.  Its timestamps come from a counter,   *)
(* which the builder's clock may be ahead of or behind.  Every edit makes  *)
(* a content that no record had before.                                    *)
(***************************************************************************)
EXTENDS Naturals, Sequences, FiniteSets, SequencesExt

CONSTANTS
    Page, Row,      \* the page, and the rows it may refer to
    First,          \* the rows it refers to at first
    Settings,       \* what may be the case: see Setting
    MaxClock,       \* bound on the timestamps of the api
    Prompt          \* the effect of a render runs before the next message is taken

\* The builder's clock, and bounds: the edits of the builder, the writes of
\* others, the writes that fail for another reason than a conflict, and the
\* sockets lost.
Setting == [skew : {"behind", "true", "ahead"}, edits : Nat, others : Nat, faults : Nat, losses : Nat]

\* A clock that is ahead is so by more than the time that is looked at.
Ahead == 1000

BuilderAssumption ==
    /\ Page \notin Row /\ First \subseteq Row /\ IsFiniteSet(Row)
    /\ Settings \subseteq Setting /\ MaxClock \in 2 .. Ahead /\ Prompt \in BOOLEAN

VARIABLES
    setting,        \* which of Settings is the case
    clock,          \* the last timestamp
    table,          \* the api's: [Record -> its record]
    made,           \* the rows ever made
    local,          \* the builder's maps: appState
    previous,       \* previousMapsRef
    actions,        \* remote changes dispatched and not rendered yet
    applied,        \* appliedRemoteChangesRef
    effect,         \* the effect of a render is due
    versions,       \* serverVersions; 0 is none
    saves,          \* the saves queued: the graphs [previous, next]
    writes,         \* the writes the running save has still to make
    sent,           \* the first of them was sent and is not answered yet
    inbox,          \* the messages of the api on their way
    shown,          \* the contents the builder has had on its canvas
    refused,        \* the builder's writes that were refused
    bounds          \* [edits, others, faults, losses] so far

maps  == <<local, previous, actions, applied, effect, shown>>
queue == <<saves, writes, sent>>
api   == <<clock, table, made>>
vars  == <<setting, api, maps, versions, queue, inbox, refused, bounds>>

Record == {Page} \cup Row

\* A record: its content, what it refers to, its updated_at; an id never
\* used, and one that was deleted.
Absent  == [content |-> 0, refs |-> {}, stamp |-> 0]
Deleted == [content |-> 0, refs |-> {}, stamp |-> 1]
Is(r)   == r.content # 0

\* A record with other references.
Referring(r, to) == [r EXCEPT !.refs = to]

Init ==
    /\ setting \in Settings
    /\ clock = 2
    /\ table = [x \in Record |-> IF x \in Row \ First THEN Absent
                                 ELSE [content |-> 2, refs |-> IF x = Page THEN First ELSE {}, stamp |-> 2]]
    /\ made = First
    /\ local = table /\ previous = table
    /\ actions = << >> /\ applied = << >> /\ effect = FALSE
    /\ versions = [x \in Record |-> table[x].stamp]
    /\ saves = << >> /\ writes = << >> /\ sent = FALSE
    /\ inbox = << >> /\ shown = {2} /\ refused = 0
    /\ bounds = [edits |-> 0, others |-> 0, faults |-> 0, losses |-> 0]

Spend(what) == bounds[what] < setting[what] /\ bounds' = [bounds EXCEPT ![what] = @ + 1]

-----------------------------------------------------------------------------
(* The maps *)

\* Mutant: a push is ignored where there is a copy.
ApplyRemoteRecordIfNew(m, c) ==
    IF ~ Is(c.record) THEN [m EXCEPT ![c.id] = Absent]
    ELSE IF Is(m[c.id]) THEN m ELSE [m EXCEPT ![c.id] = c.record]

\* applyRemoteRecord: a push is ignored where the copy is at least as new.
ApplyRemoteRecord(m, c) ==
    IF ~ Is(c.record) THEN [m EXCEPT ![c.id] = Absent]
    ELSE IF Is(m[c.id]) /\ m[c.id].stamp >= c.record.stamp THEN m
    ELSE [m EXCEPT ![c.id] = c.record]

Replay(m, changes) ==
    LET after[i \in 0 .. Len(changes)] ==
            IF i = 0 THEN m ELSE ApplyRemoteRecord(after[i - 1], changes[i])
    IN  after[Len(changes)]

\* collectReachableEntityIds, scopeCollectionsToReachableIds.
Reachable(m)   == IF Is(m[Page]) THEN {Page} \cup {r \in m[Page].refs : Is(m[r])} ELSE {}
Scoped(m, ids) == [x \in Record |-> IF x \in ids THEN m[x] ELSE Absent]

\* The maps are rendered: what they show.
Show(m) == local' = m /\ shown' = shown \cup {m[x].content : x \in Record}

\* React renders what was dispatched; the effect of that comes later.
Render ==
    /\ actions # << >> /\ ~ effect
    /\ Show(Replay(local, actions)) /\ actions' = << >>
    /\ effect' = (local' # local)
    /\ UNCHANGED <<api, previous, applied, versions, queue, inbox, refused, bounds>>

\* Mutant: the remote changes do not move the baseline.
AutosaveFromLastRun(after) ==
    LET ids  == Reachable(previous) \cup Reachable(after)
        save == [previous |-> Scoped(previous, ids), next |-> Scoped(after, ids)]
    IN  /\ saves' = IF \A x \in Record : save.previous[x].content = save.next[x].content
                    THEN saves ELSE Append(saves, save)
        /\ previous' = after /\ applied' = << >> /\ effect' = FALSE

\* The autosave effect: the baseline moves by the remote changes, and what
\* still differs in what either graph reaches is queued to be saved.
Autosave(after) ==
    LET before == Replay(previous, applied)
        ids    == Reachable(before) \cup Reachable(after)
        save   == [previous |-> Scoped(before, ids), next |-> Scoped(after, ids)]
    IN  /\ saves' = IF \A x \in Record : save.previous[x].content = save.next[x].content
                    THEN saves ELSE Append(saves, save)
        /\ previous' = after /\ applied' = << >> /\ effect' = FALSE

Effect ==
    /\ effect /\ Autosave(local)
    /\ UNCHANGED <<api, local, actions, shown, versions, writes, sent, inbox, refused, bounds>>

\* An edit of what the builder sees, with what was dispatched before it, is
\* rendered at once; its effect runs before anything else.
Seen == Replay(local, actions)

Edit(edited) ==
    /\ ~ effect /\ Spend("edits")
    /\ clock' = clock + 1
    /\ Show(edited) /\ actions' = << >>
    /\ Autosave(local')
    /\ UNCHANGED <<table, versions, writes, sent, inbox, refused>>

\* now() of the builder, for a record whose content is new.
Touched(r) ==
    [r EXCEPT !.content = clock + 1,
              !.stamp = CASE setting.skew = "behind" -> 1
                          [] setting.skew = "true"   -> clock + 1
                          [] setting.skew = "ahead"  -> clock + Ahead]

\* UPDATE_ROW, UPDATE_PAGE_TITLE.
Update(x) ==
    /\ x \in Reachable(local) \cap Reachable(Seen)
    /\ Edit([Seen EXCEPT ![x] = Touched(@)]) /\ UNCHANGED made

\* ADD_ROW: the record, and the page that refers to it.
AddRow(r) ==
    /\ r \notin made /\ made' = made \cup {r} /\ Is(Seen[Page])
    /\ Edit([Seen EXCEPT ![r] = Touched(Absent),
                        ![Page] = Touched(Referring(Seen[Page], Seen[Page].refs \cup {r}))])

\* REMOVE_ROW.
RemoveRow(r) ==
    /\ r \in Row \cap Reachable(local) \cap Reachable(Seen)
    /\ Edit([Seen EXCEPT ![r] = Absent,
                        ![Page] = Touched(Referring(Seen[Page], Seen[Page].refs \ {r}))])
    /\ UNCHANGED made

-----------------------------------------------------------------------------
(* The saves *)

\* The writes of a save that turns p into n: what differs, then what is gone.
Write(p, n, x)  == [op |-> IF Is(p[x]) THEN "update" ELSE "create", id |-> x, record |-> n[x]]
Delete(x)       == [op |-> "delete", id |-> x, record |-> Absent]
Changed(p, n, ids) ==
    LET order == SetToSeq({x \in ids : Is(n[x]) /\ p[x].content # n[x].content})
    IN  [i \in DOMAIN order |-> Write(p, n, order[i])]
Missing(p, n, ids) ==
    LET order == SetToSeq({x \in ids : Is(p[x]) /\ ~ Is(n[x])})
    IN  [i \in DOMAIN order |-> Delete(order[i])]

\* Mutants: pages are written before the rows they refer to; rows are deleted
\* before the pages that refer to them are written.
WritesPagesFirst(p, n) ==
    Changed(p, n, {Page}) \o Changed(p, n, Row) \o Missing(p, n, {Page}) \o Missing(p, n, Row)
WritesDeletesFirst(p, n) ==
    Missing(p, n, {Page}) \o Missing(p, n, Row) \o Changed(p, n, Row) \o Changed(p, n, {Page})

Writes(p, n) ==
    Changed(p, n, Row) \o Changed(p, n, {Page}) \o Missing(p, n, {Page}) \o Missing(p, n, Row)

\* The next save begins when the one before it has ended, either way.
BeginSave ==
    /\ saves # << >> /\ writes = << >>
    /\ writes' = Writes(Head(saves).previous, Head(saves).next) /\ saves' = Tail(saves)
    /\ UNCHANGED <<api, maps, versions, sent, inbox, refused, bounds>>

\* The api accepts write w: an id is created once, what is gone is not found,
\* and an update whose version has moved is a conflict.
Accepts(w) ==
    CASE w.op = "create" -> table[w.id] = Absent
      [] w.op = "update" -> Is(table[w.id]) /\ versions[w.id] \in {0, table[w.id].stamp}
      [] w.op = "delete" -> Is(table[w.id])

Push(x, record)  == [kind |-> "push", id |-> x, record |-> record]
Reply(x, record) == [kind |-> "reply", id |-> x, record |-> record]
Error(x)         == [kind |-> "error", id |-> x, record |-> Absent]

\* writeRecord, deleteRecord: the precondition is the version known when the
\* write is sent.  Every client is told before the caller is answered.
SendWrite ==
    LET w      == Head(writes)
        record == IF w.op = "delete" THEN Deleted ELSE [w.record EXCEPT !.stamp = clock + 1]
    IN  /\ writes # << >> /\ ~ sent /\ sent' = TRUE
        /\ Accepts(w) /\ clock < MaxClock
        /\ clock' = clock + 1 /\ table' = [table EXCEPT ![w.id] = record]
        /\ inbox' = inbox \o << Push(w.id, record), Reply(w.id, record) >>
        /\ UNCHANGED <<made, maps, versions, saves, writes, refused, bounds>>

SendRefused ==
    LET w == Head(writes)
    IN  /\ writes # << >> /\ ~ sent /\ sent' = TRUE
        /\ IF Accepts(w) THEN Spend("faults") ELSE UNCHANGED bounds
        /\ inbox' = Append(inbox, Error(w.id)) /\ refused' = refused + 1
        /\ UNCHANGED <<api, maps, versions, saves, writes>>

-----------------------------------------------------------------------------
(* The messages of the api *)

\* A push: its version is remembered, and it is dispatched to the maps.
ReceivePush ==
    /\ inbox # << >> /\ Head(inbox).kind = "push" /\ inbox' = Tail(inbox)
    /\ Prompt => ~ effect
    /\ LET c == Head(inbox) IN
         /\ versions' = [versions EXCEPT ![c.id] = IF Is(c.record) THEN c.record.stamp ELSE 0]
         /\ actions' = Append(actions, c) /\ applied' = Append(applied, c)
    /\ UNCHANGED <<api, local, previous, effect, shown, queue, refused, bounds>>

\* Mutants: the version remembered is the builder's own; a refused write
\* wedges the queue.
ReceiveReplyOwnStamp ==
    /\ inbox # << >> /\ Head(inbox).kind = "reply" /\ inbox' = Tail(inbox)
    /\ versions' = [versions EXCEPT ![Head(inbox).id] = Head(writes).record.stamp]
    /\ writes' = Tail(writes) /\ sent' = FALSE
    /\ UNCHANGED <<api, maps, saves, refused, bounds>>
ReceiveErrorWedging ==
    /\ inbox # << >> /\ Head(inbox).kind = "error" /\ inbox' = Tail(inbox)
    /\ writes' = << >>
    /\ UNCHANGED <<api, maps, versions, saves, sent, refused, bounds>>

\* The answer to a write: its version is remembered, and the next is due.
ReceiveReply ==
    /\ inbox # << >> /\ Head(inbox).kind = "reply" /\ inbox' = Tail(inbox)
    /\ versions' = [versions EXCEPT ![Head(inbox).id] =
                       IF Is(Head(inbox).record) THEN Head(inbox).record.stamp ELSE 0]
    /\ writes' = Tail(writes) /\ sent' = FALSE
    /\ UNCHANGED <<api, maps, saves, refused, bounds>>

\* A refused write ends its save.
ReceiveError ==
    /\ inbox # << >> /\ Head(inbox).kind = "error" /\ inbox' = Tail(inbox)
    /\ writes' = << >> /\ sent' = FALSE
    /\ UNCHANGED <<api, maps, versions, saves, refused, bounds>>

\* The socket is lost with what was on its way; the client opens another.
\* The call that waits for its answer is not told.
LoseSocket ==
    /\ Spend("losses") /\ inbox' = << >>
    /\ UNCHANGED <<api, maps, versions, queue, refused>>

\* Another writer, who knows the latest version, edits, adds or removes.
OtherStores(changes) ==
    LET stored == [x \in DOMAIN changes |-> IF Is(changes[x])
                       THEN [changes[x] EXCEPT !.content = clock + 1, !.stamp = clock + 1] ELSE Deleted]
        order  == SetToSeq(DOMAIN changes)
    IN  /\ Spend("others") /\ clock' = clock + 1
        /\ table' = [x \in Record |-> IF x \in DOMAIN changes THEN stored[x] ELSE table[x]]
        /\ inbox' = inbox \o [i \in DOMAIN order |-> Push(order[i], stored[order[i]])]
        /\ UNCHANGED <<maps, versions, queue, refused>>

OtherUpdate(x) == Is(table[x]) /\ OtherStores([y \in {x} |-> table[x]]) /\ UNCHANGED made

OtherAdd(r) ==
    /\ r \notin made /\ made' = made \cup {r} /\ Is(table[Page])
    /\ OtherStores([x \in {r, Page} |->
          IF x = r THEN [Absent EXCEPT !.content = 1]
          ELSE Referring(table[Page], table[Page].refs \cup {r})])

OtherRemove(r) ==
    /\ r \in table[Page].refs /\ Is(table[r]) /\ UNCHANGED made
    /\ OtherStores([x \in {r, Page} |->
          IF x = r THEN Absent ELSE Referring(table[Page], table[Page].refs \ {r})])

Work ==
    \/ Render \/ Effect
    \/ BeginSave \/ SendWrite \/ SendRefused
    \/ ReceivePush \/ ReceiveReply \/ ReceiveError

Next ==
    /\ UNCHANGED setting
    /\ \/ Work
       \/ \E x \in Record : Update(x) \/ OtherUpdate(x)
       \/ \E r \in Row : AddRow(r) \/ RemoveRow(r) \/ OtherAdd(r) \/ OtherRemove(r)
       \/ LoseSocket

Spec == Init /\ [][Next]_vars


-----------------------------------------------------------------------------
(* Properties *)

Quiet == actions = << >> /\ ~ effect /\ saves = << >> /\ writes = << >> /\ inbox = << >>

\* When all is saved and received, and nothing was refused or lost, the canvas
\* of a builder whose clock is not ahead shows what the api stores.
Converges ==
    setting.skew # "ahead" /\ Quiet /\ refused = 0 /\ bounds.losses = 0 =>
        \A x \in Record : local[x].content = table[x].content

\* Nobody else writes: then no update is refused for a version that moved, a
\* conflict with the builder's own predecessor.
NoConflictAlone ==
    [][SendRefused /\ bounds.others + bounds'.faults + bounds.losses = 0 /\ Head(writes).op = "update"
         => ~ Is(table[Head(writes).id])]_vars

\* A stored page refers only to rows that are stored, where only the builder
\* writes, its clock is ahead, and no write was refused or lost: rows are
\* created before, and deleted after, the page.
ServerIsWhole ==
    setting.skew = "ahead" /\ bounds.others = 0 /\ refused = 0 /\ bounds.losses = 0 =>
        \A r \in table[Page].refs : Is(table[r])

\* A builder that edits nothing saves nothing: what others wrote is not sent
\* back to the api by a client that was told of it.
NoEcho == bounds.edits = 0 => saves = << >> /\ writes = << >>

\* The answer to a call that is awaited is on its way, where no socket is lost:
\* the queue outlives a save that is refused.
NoCallHangs == sent /\ bounds.losses = 0 => \E i \in DOMAIN inbox : inbox[i].kind \in {"reply", "error"}

\* One builder whose clock is right, and nobody else.
OneBuilder == {[skew |-> "true", edits |-> 2, others |-> 0, faults |-> 0, losses |-> 0]}

-----------------------------------------------------------------------------
(* What the comments say and the code does not do: TLC refutes each where the  *)
(* cause it names is possible.                                                 *)

\* "A push is ignored when the local copy is at least as new, which covers the
\* echo of our own write" (flatGraph.ts): nobody else writes, and the canvas
\* changes by the builder's own edits only.  The api stamps a record after the
\* builder did, so the echo of one edit undoes the next.
EchoIsIgnored ==
    [][Render /\ bounds.others = 0 =>
          \A x \in Record : local'[x].content = local[x].content]_vars

\* An update replaces only a content that the builder has had on its canvas:
\* the precondition is the version last pushed, not the one on the canvas.
UnseenIsRefused ==
    [][\A x \in Record : SendWrite /\ table'[x] # table[x] /\ Head(writes).op = "update"
                            => table[x].content \in shown]_vars

=============================================================================
