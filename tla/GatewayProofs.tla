----------------------------- MODULE GatewayProofs -----------------------------
(***************************************************************************)
(* The gateway's machines, for any number of callers, attempts, services,  *)
(* requests and files: an adapter never gives up on its service and, once  *)
(* disposed of, never opens a socket again; the table of adapters holds    *)
(* what is live; a file's row and its binary agree; and a binary that is   *)
(* stored is what was sent.                                                *)
(*                                                                         *)
(* The machines share no state, so each has an invariant of its own, which *)
(* the steps of the others leave as it is.                                 *)
(***************************************************************************)
EXTENDS MCGateway, Sequences, SequenceTheorems, TLAPS

-----------------------------------------------------------------------------
(* The invariants *)

AdapterTypes ==
    /\ socket \in {"none", "opening", "open"}
    /\ connectPromise \in 0 .. MaxAttempts + 1
    /\ attempt \in [Failing!Attempt -> {"none", "opening", "subscribing"}]
    /\ background \subseteq Failing!Attempt
    /\ losses \in Nat

\* What the adapter takes for a connection is one, or its close is to come; the
\* promise it keeps is that of an attempt at work; and unless it is disposed of
\* something is always under way that ends in a socket or another attempt.
AdapterInv ==
    /\ AdapterTypes
    /\ connected \/ connectPromise = Failing!Settled => socket = "open" \/ closing
    /\ \A a \in Failing!Attempt : attempt[a] = "subscribing" => socket = "open"
    /\ connectPromise \in Failing!Attempt => attempt[connectPromise] # "none" \/ closing
    /\ disposed => ~ reconnectTimer
    /\ ~ disposed /\ socket # "open" =>
           closing \/ reconnectTimer \/ \E a \in background : attempt[a] = "opening"

LookupState ==
    [pc : {"idle", "list", "listed", "reached", "refused"}, service : Service \cup {""},
     listed : SUBSET Service, registered : BOOLEAN]

\* A service that was registered when a request asked for it stays registered,
\* and is in every list the request reads.
SoundInv ==
    /\ rows \subseteq Service
    /\ lookup \in [Request -> LookupState]
    /\ live = {adapters.generation} \X adapters.services
    /\ \A r \in Request :
           /\ lookup[r].registered => lookup[r].pc # "refused"
           /\ lookup[r].registered /\ lookup[r].pc \in {"list", "listed"} => lookup[r].service \in rows
           /\ lookup[r].registered /\ lookup[r].pc = "listed" => lookup[r].service \in lookup[r].listed

FaultyInv ==
    /\ {adapters.generation} \X adapters.services \subseteq live
    /\ Misconfigured = {} => live = {adapters.generation} \X adapters.services

\* A beginning of a file: no chunk twice and none left out.
Sent == {s \in Seq(Nat) : Len(s) <= MaxChunks /\ \A i \in 1 .. Len(s) : s[i] = i - 1}

Creating == {"write", "rename", "insert", "drop", "undo", "undoTmp"}
Deleting == {"unlink", "tombstone"}

UploadState == [pc : {"sending", "waiting", "failed", "ended"}, next : Nat]

FileRequest ==
    [op : {"none", "create", "delete"}, pc : Creating \cup Deleting \cup {"idle"},
     file : File \cup {"none"}, bytes : Sent]

FilesTypes ==
    /\ session \in [File -> Sent] /\ tmp \in [File -> Sent] /\ binary \in [File -> Sent]
    /\ row \in [File -> {"none", "live", "deleted"}]
    /\ upload \in [File -> UploadState]
    /\ req \in [Writer -> FileRequest]
    /\ \A r \in Writer : req[r].pc # "idle" => req[r].file \in File
    /\ faults \in Nat

Creates(r, f) == req[r].pc \in Creating /\ req[r].file = f
Deletes(r, f) == req[r].pc \in Deleting /\ req[r].file = f

\* The whole file, unless it cannot be.
Whole(f, s, lost) == f \notin lost /\ Size[f] <= MaxChunks => Len(s) = Size[f]

\* Without another client a file has one create, which comes after its upload
\* and before its row; a delete comes after its row.
OneCreate ==
    /\ \A r \in Writer, f \in File :
           /\ Creates(r, f) => upload[f].pc # "sending" /\ row[f] = "none"
           /\ Deletes(r, f) => row[f] # "none"
    /\ \A r, q \in Writer, f \in File : Creates(r, f) /\ Creates(q, f) => r = q
    /\ \A f \in File : upload[f].pc = "sending" => row[f] = "none"

BinaryFirst ==
    /\ \A r \in Writer : req[r].pc = "insert" => binary[req[r].file] # << >>
    /\ \A f \in File : row[f] = "live" => binary[f] # << >> \/ f \in unlinked

WholeFiles ==
    /\ \A f \in File :
           /\ tmp[f] # << >> => Whole(f, tmp[f], shortened)
           /\ binary[f] # << >> => Whole(f, binary[f], shortened)
           /\ upload[f].pc = "sending" /\ f \notin shortened /\ Size[f] <= MaxChunks =>
                  Len(session[f]) = upload[f].next
    /\ \A r \in Writer, f \in File : Creates(r, f) => Whole(f, req[r].bytes, shortened)

AloneInv == FilesTypes /\ OneCreate /\ BinaryFirst /\ WholeFiles

\* A binary without a live row, or whose delete has passed its disk, belongs to
\* a create that will either insert the row or drop the binary.
Accounted(f) ==
    /\ binary[f] # << >>
    /\ row[f] # "live" \/ \E r \in Writer : req[r].pc = "tombstone" /\ req[r].file = f
    => \E r \in Writer : req[r].pc \in {"insert", "drop"} /\ req[r].file = f

SharedInv ==
    /\ FilesTypes
    /\ \A r \in Writer, f \in File : Deletes(r, f) => row[f] # "none"
    /\ \A f \in File : Accounted(f)

IInv ==
    /\ AdapterInv
    /\ part = "sound" => SoundInv
    /\ part = "faulty" => FaultyInv
    /\ part = "alone" => AloneInv
    /\ part = "shared" => SharedInv

-----------------------------------------------------------------------------
(* The adapter *)

\* What the two ways to run an adapter share.
LEMMA AdapterConstants ==
    /\ MaxAttempts \in Nat \ {0} /\ MaxLosses \in Nat /\ FewLosses \in Nat
    /\ FewLosses <= MaxLosses
  BY GatewayAssumption DEF Failing!AdapterAssumption, Recovering!AdapterAssumption

\* An adapter whose service opens and subscribes in time takes the steps of one
\* whose service may not.
LEMMA RecoveringFails == ASSUME losses \in Nat, Recovering!Next PROVE Failing!Next
  <1>1. Recovering!Lose => Failing!Lose
    BY AdapterConstants DEF Recovering!Lose, Failing!Lose
  <1>2. Recovering!Attempt = Failing!Attempt
    BY DEF Recovering!Attempt, Failing!Attempt
  <1>3. \A a \in Failing!Attempt : Recovering!JoinOrStart(a) => Failing!JoinOrStart(a)
    BY DEF Recovering!JoinOrStart, Failing!JoinOrStart, Recovering!NoPromise, Failing!NoPromise
  <1>4. \A failed : Recovering!Reject(failed) => Failing!Reject(failed)
    BY <1>2 DEF Recovering!Reject, Failing!Reject, Recovering!NoPromise, Failing!NoPromise, Recovering!Idle, Failing!Idle
  <1>5. ASSUME NEW c \in Caller,
               Recovering!Forward(c) \/ Recovering!AnswerCall(c) \/ Recovering!TimeOutCall(c)
        PROVE  Failing!Forward(c) \/ Failing!AnswerCall(c) \/ Failing!TimeOutCall(c)
    BY <1>2, <1>3, <1>5, Zenon DEF Recovering!Forward, Failing!Forward, Recovering!AnswerCall, Failing!AnswerCall, Recovering!TimeOutCall, Failing!TimeOutCall, Recovering!Idle, Failing!Idle, Recovering!Called, Failing!Called, Recovering!Settled, Failing!Settled, Recovering!socketVars, Failing!socketVars, Recovering!adapterVars, Failing!adapterVars
  <1>6. ASSUME NEW a \in Failing!Attempt,
               \/ Recovering!TimeOutConnect(a) \/ Recovering!Subscribed(a)
               \/ Recovering!FailToSubscribe(a)
        PROVE  Failing!Subscribed(a)
    BY <1>6 DEF Recovering!TimeOutConnect, Failing!TimeOutConnect, Recovering!FailToSubscribe, Failing!FailToSubscribe, Recovering!Subscribed, Failing!Subscribed, Recovering!Called, Failing!Called, Recovering!Settled, Failing!Settled, Recovering!Idle, Failing!Idle
  <1>7. ASSUME \/ Recovering!Open \/ Recovering!Refuse \/ Recovering!CloseSocket
               \/ Recovering!CloseEvent \/ Recovering!TimerFires \/ Recovering!Dispose
        PROVE  \/ Failing!Open \/ Failing!Refuse \/ Failing!CloseSocket
               \/ Failing!CloseEvent \/ Failing!TimerFires \/ Failing!Dispose
    BY <1>1, <1>2, <1>3, <1>4, <1>7, Zenon DEF Recovering!Open, Failing!Open, Recovering!Refuse, Failing!Refuse, Recovering!CloseSocket, Failing!CloseSocket, Recovering!CloseEvent, Failing!CloseEvent, Recovering!TimerFires, Failing!TimerFires, Recovering!Dispose, Failing!Dispose, Recovering!Stuck, Failing!Stuck, Recovering!NoPromise, Failing!NoPromise, Recovering!Settled, Failing!Settled, Recovering!socketVars, Failing!socketVars, Recovering!adapterVars, Failing!adapterVars
  <1>8. QED
    BY <1>2, <1>5, <1>6, <1>7 DEF Recovering!Next, Failing!Next

\* What a request to connect leaves: an attempt, if the socket is not open.
LEMMA JoinStep ==
    ASSUME AdapterInv, NEW a \in Failing!Attempt, Failing!JoinOrStart(a)
    PROVE  /\ socket' \in {"none", "opening", "open"}
           /\ attempt' \in [Failing!Attempt -> {"none", "opening", "subscribing"}]
           /\ connectPromise' = a
           /\ socket = "open" <=> socket' = "open"
           /\ \A b \in Failing!Attempt :
                  /\ attempt'[b] = "subscribing" => attempt[b] = "subscribing"
                  /\ attempt[b] = "opening" => attempt'[b] = "opening"
           /\ attempt'[a] # "none" \/ closing
           /\ socket = "open" \/ closing \/ attempt'[a] = "opening"
  BY AdapterConstants DEF Failing!JoinOrStart, AdapterInv, AdapterTypes, Failing!Attempt, Failing!Settled, Failing!NoPromise

\* What a rejection leaves: a timer, if the attempt was to be made again.
LEMMA RejectStep ==
    ASSUME AdapterInv, NEW failed \in SUBSET Failing!Attempt, Failing!Reject(failed),
           socket' \in {"none", "opening", "open"}, socket = "open" => socket' = "open",
           UNCHANGED <<closing, connected, disposed>>, losses' \in Nat
    PROVE  AdapterInv'
  <1>1. AdapterTypes'
    BY AdapterConstants DEF Failing!Reject, Failing!NoPromise, AdapterInv, AdapterTypes, Failing!Attempt, Failing!Settled
  <1>2. ~ disposed' /\ socket' # "open" =>
            closing' \/ reconnectTimer' \/ \E a \in background' : attempt'[a] = "opening"
    BY DEF Failing!Reject, AdapterInv, AdapterTypes, Failing!Attempt, Failing!Settled
  <1>3. /\ connectPromise' = 0 /\ (disposed' => ~ reconnectTimer')
        /\ \A a \in Failing!Attempt : attempt'[a] = "subscribing" => socket' = "open"
    BY DEF Failing!Reject, Failing!NoPromise, AdapterInv, AdapterTypes, Failing!Attempt, Failing!Settled
  <1>4. QED
    BY <1>1, <1>2, <1>3, AdapterConstants DEF AdapterInv, AdapterTypes, Failing!Attempt, Failing!Settled

LEMMA CallStep ==
    ASSUME AdapterInv, NEW c \in Caller,
           Failing!Forward(c) \/ Failing!AnswerCall(c) \/ Failing!TimeOutCall(c)
    PROVE  AdapterInv' /\ (disposed /\ socket = "none" => socket' = "none")
  <1>1. CASE UNCHANGED <<socket, closing, connected, connectPromise, reconnectTimer, disposed,
                         attempt, background, losses>>
    BY <1>1 DEF AdapterInv, AdapterTypes, Failing!Attempt, Failing!Settled
  <1>2. ASSUME NEW a \in Failing!Attempt, ~ disposed, ~ connected, Failing!JoinOrStart(a),
               UNCHANGED <<closing, connected, reconnectTimer, disposed, background, losses>>
        PROVE  AdapterInv'
    BY <1>2, JoinStep, AdapterConstants DEF AdapterInv, AdapterTypes, Failing!Attempt, Failing!Settled
  <1>3. QED
    BY <1>1, <1>2
    DEF Failing!Forward, Failing!AnswerCall, Failing!TimeOutCall, Failing!socketVars, Failing!adapterVars

LEMMA TimerStep ==
    ASSUME AdapterInv, Failing!TimerFires
    PROVE  AdapterInv' /\ (disposed /\ socket = "none" => socket' = "none")
  <1>1. ~ disposed /\ UNCHANGED <<closing, connected, disposed, losses>> /\ reconnectTimer' = FALSE
    BY DEF Failing!TimerFires, AdapterInv, AdapterTypes, Failing!Attempt, Failing!Settled
  <1>2. CASE /\ connected \/ connectPromise = Failing!Settled
             /\ UNCHANGED <<attempt, connectPromise, socket, background>>
    BY <1>1, <1>2 DEF AdapterInv, AdapterTypes, Failing!Attempt, Failing!Settled
  <1>3. ASSUME NEW a \in Failing!Attempt, ~ connected, Failing!JoinOrStart(a),
               background' = background \cup {a}
        PROVE  AdapterInv'
    BY <1>1, <1>3, JoinStep, AdapterConstants DEF AdapterInv, AdapterTypes, Failing!Attempt, Failing!Settled
  <1>4. QED
    BY <1>1, <1>2, <1>3 DEF Failing!TimerFires

LEMMA AdapterStep ==
    ASSUME AdapterInv, Failing!Next
    PROVE  AdapterInv' /\ (disposed /\ socket = "none" => socket' = "none")
  <1>1. ASSUME NEW a \in Failing!Attempt, Failing!TimeOutConnect(a) \/ Failing!FailToSubscribe(a)
        PROVE  AdapterInv' /\ UNCHANGED socket
    <2>1. Failing!Reject({a}) /\ losses' \in Nat /\ UNCHANGED <<socket, closing, connected, disposed>>
      BY <1>1 DEF Failing!TimeOutConnect, Failing!FailToSubscribe, Failing!Lose, Failing!socketVars, AdapterInv, AdapterTypes, Failing!Attempt, Failing!Settled
    <2>2. QED
      BY <2>1, RejectStep DEF AdapterInv, AdapterTypes
  <1>2. ASSUME NEW a \in Failing!Attempt, Failing!Subscribed(a)
        PROVE  AdapterInv' /\ UNCHANGED socket
    <2>1. /\ socket = "open" /\ connectPromise' \in {connectPromise, Failing!Settled}
          /\ attempt' = [attempt EXCEPT ![a] = "none"] /\ background' = background \ {a}
          /\ connectPromise = a => connectPromise' = Failing!Settled
          /\ UNCHANGED <<socket, closing, connected, reconnectTimer, disposed, losses>>
      BY <1>2 DEF Failing!Subscribed
    <2>2. QED
      BY <2>1, AdapterConstants DEF AdapterInv, AdapterTypes, Failing!Attempt, Failing!Settled
  <1>3. CASE Failing!Open
    BY <1>3, AdapterConstants DEF Failing!Open, AdapterInv, AdapterTypes, Failing!Attempt, Failing!Settled
  <1>4. CASE Failing!Refuse
    <2> DEFINE failed == {a \in Failing!Attempt : attempt[a] = "opening"}
    <2>1. /\ Failing!Reject(failed) /\ losses' \in Nat /\ socket' = "none" /\ socket = "opening"
          /\ UNCHANGED <<closing, connected, disposed>>
      BY <1>4 DEF Failing!Refuse, Failing!Lose, AdapterInv, AdapterTypes, Failing!Attempt, Failing!Settled
    <2>2. QED
      BY <2>1, RejectStep
  <1>5. CASE Failing!CloseSocket
    <2>1. losses' \in Nat /\ attempt' \in [Failing!Attempt -> {"none", "opening", "subscribing"}]
      BY <1>5 DEF Failing!CloseSocket, Failing!Lose, AdapterInv, AdapterTypes, Failing!Attempt, Failing!Settled
    <2>2. /\ socket' = "none" /\ closing' = TRUE /\ background' \subseteq background
          /\ \A a \in Failing!Attempt : attempt'[a] # "subscribing"
          /\ UNCHANGED <<connected, connectPromise, reconnectTimer, disposed>>
      BY <1>5 DEF Failing!CloseSocket, Failing!adapterVars, AdapterInv, AdapterTypes, Failing!Attempt, Failing!Settled
    <2>3. AdapterTypes'
      BY <2>1, <2>2, AdapterConstants DEF AdapterInv, AdapterTypes, Failing!Attempt, Failing!Settled
    <2>4. closing'
      BY <2>2, Zenon
    <2>5. disposed' => ~ reconnectTimer'
      BY <2>2 DEF AdapterInv
    <2>6. AdapterInv'
      BY <2>2, <2>3, <2>4, <2>5 DEF AdapterInv, Failing!Attempt, Failing!Settled
    <2>7. QED
      BY <2>2, <2>6
  <1>6. CASE Failing!CloseEvent \/ Failing!Dispose
    <2>1. connectPromise' = 0 /\ UNCHANGED <<socket, attempt, background, losses>>
      BY <1>6 DEF Failing!CloseEvent, Failing!Dispose, Failing!NoPromise, Failing!socketVars
    <2>2. ~ connected' /\ (disposed' \/ reconnectTimer') /\ ~ (disposed' /\ reconnectTimer')
      <3>1. CASE Failing!CloseEvent
        <4>1. ~ connected' /\ reconnectTimer' = (reconnectTimer \/ ~ disposed) /\ disposed' = disposed
          BY <3>1, Zenon DEF Failing!CloseEvent
        <4>2. QED
          BY <4>1 DEF AdapterInv
      <3>2. CASE Failing!Dispose
        BY <3>2, Zenon DEF Failing!Dispose
      <3>3. QED
        BY <1>6, <3>1, <3>2
    <2>3. AdapterTypes'
      BY <2>1, AdapterConstants DEF AdapterInv, AdapterTypes, Failing!Attempt, Failing!Settled
    <2>4. AdapterInv'
      BY <2>1, <2>2, <2>3, AdapterConstants DEF AdapterInv, AdapterTypes, Failing!Attempt, Failing!Settled
    <2>5. QED
      BY <2>1, <2>4
  <1>7. QED
    BY <1>1, <1>2, <1>3, <1>4, <1>5, <1>6, CallStep, TimerStep DEF Failing!Next

-----------------------------------------------------------------------------
(* The table of adapters *)

\* What a request may have found.
Found(st) ==
    /\ st.registered => st.pc # "refused"
    /\ st.registered /\ st.pc \in {"list", "listed"} => st.service \in rows
    /\ st.registered /\ st.pc = "listed" => st.service \in st.listed

\* One request moves to where it may be, while the services stay registered.
LEMMA OneLooksUp ==
    ASSUME SoundInv, NEW r \in Request, NEW st \in LookupState, Found(st),
           lookup' = [lookup EXCEPT ![r] = st], UNCHANGED rows,
           live' = {adapters'.generation} \X adapters'.services
    PROVE  SoundInv'
  BY DEF SoundInv, Found

LEMMA SoundStep == ASSUME SoundInv, Sound!Next PROVE SoundInv'
  <1>1. ASSUME NEW s \in Service, Sound!Register(s) PROVE SoundInv'
    BY <1>1 DEF Sound!Register, SoundInv
  <1>2. ASSUME NEW r \in Request, NEW s \in Service, Sound!GetServiceAdapter(r, s) PROVE SoundInv'
    <2> DEFINE st == [Sound!Idle EXCEPT !.pc = IF s \in adapters.services THEN "reached" ELSE "list",
                                        !.service = s, !.registered = (s \in rows)]
    <2>1. (s \in rows) \in BOOLEAN
      OBVIOUS
    <2>2. st \in LookupState
      BY <2>1 DEF LookupState, Sound!Idle
    <2>3. Found(st)
      BY DEF Found, Sound!Idle
    <2>4. /\ lookup' = [lookup EXCEPT ![r] = st]
          /\ UNCHANGED rows /\ live' = {adapters'.generation} \X adapters'.services
      BY <1>2 DEF Sound!GetServiceAdapter, SoundInv
    <2> HIDE DEF st
    <2>5. QED
      BY <2>2, <2>3, <2>4, OneLooksUp
  <1>3. ASSUME NEW r \in Request, Sound!ListExternalServices(r) PROVE SoundInv'
    <2> DEFINE st == [lookup[r] EXCEPT !.pc = "listed", !.listed = rows]
    <2>1. lookup[r] \in LookupState /\ lookup[r].pc = "list"
      BY <1>3 DEF Sound!ListExternalServices, SoundInv
    <2>2. st \in LookupState /\ Found(st)
      BY <2>1 DEF LookupState, Found, SoundInv
    <2>3. /\ lookup' = [lookup EXCEPT ![r] = st]
          /\ UNCHANGED rows /\ live' = {adapters'.generation} \X adapters'.services
      BY <1>3, <2>1 DEF Sound!ListExternalServices, SoundInv, LookupState
    <2> HIDE DEF st
    <2>4. QED
      BY <2>2, <2>3, OneLooksUp
  <1>4. ASSUME NEW r \in Request, Sound!InitServiceAdapters(r) PROVE SoundInv'
    <2> DEFINE st == [lookup[r] EXCEPT !.pc = IF lookup[r].service \in lookup[r].listed
                                              THEN "reached" ELSE "refused"]
    <2>1. lookup[r] \in LookupState /\ lookup[r].pc = "listed" /\ Found(lookup[r])
      BY <1>4 DEF Sound!InitServiceAdapters, SoundInv, Found
    <2>2. st \in LookupState /\ Found(st)
      BY <2>1 DEF LookupState, Found
    <2>3. /\ lookup' = [lookup EXCEPT ![r] = st]
          /\ adapters' = [generation |-> generations', services |-> lookup[r].listed]
          /\ live' = (live \ ({adapters.generation} \X adapters.services))
                         \cup ({generations'} \X lookup[r].listed)
          /\ UNCHANGED rows
      BY <1>4, <2>1 DEF Sound!InitServiceAdapters, SoundInv, LookupState
    <2>4. live' = {adapters'.generation} \X adapters'.services
      BY <2>3 DEF SoundInv
    <2> HIDE DEF st
    <2>5. QED
      BY <2>2, <2>3, <2>4, OneLooksUp
  <1>5. ASSUME NEW r \in Request, Sound!End(r) PROVE SoundInv'
    <2>1. Sound!Idle \in LookupState /\ Found(Sound!Idle)
      BY DEF LookupState, Found, Sound!Idle
    <2>2. QED
      BY <1>5, <2>1, OneLooksUp DEF Sound!End, SoundInv
  <1>6. QED
    BY <1>1, <1>2, <1>3, <1>4, <1>5 DEF Sound!Next

\* A table that could not be replaced is left as it is.
LEMMA FaultyStep == ASSUME FaultyInv, Faulty!Next PROVE FaultyInv'
  <1>1. ASSUME NEW r \in Lookup, Faulty!InitServiceAdapters(r) PROVE FaultyInv'
    BY <1>1 DEF Faulty!InitServiceAdapters, FaultyInv
  <1>2. CASE UNCHANGED <<adapters, live>>
    BY <1>2 DEF FaultyInv
  <1>3. QED
    BY <1>1, <1>2
    DEF Faulty!Next, Faulty!Register, Faulty!GetServiceAdapter, Faulty!ListExternalServices, Faulty!End

-----------------------------------------------------------------------------
(* Files: the types *)

LEMMA FilesConstants ==
    Size \in [File -> Nat \ {0}] /\ MaxChunks \in Nat \ {0} /\ MaxFaults \in Nat
  BY GatewayAssumption DEF Alone!FilesAssumption

\* A beginning of a file is one with no chunk, and with the next one.
LEMMA SentGrows ==
    /\ << >> \in Sent
    /\ \A s \in Sent :
           /\ s # << >> <=> Len(s) # 0
           /\ Len(s) \in 0 .. MaxChunks
           /\ Len(s) < MaxChunks => /\ Append(s, Len(s)) \in Sent
                                    /\ Len(Append(s, Len(s))) = Len(s) + 1
  <1>1. << >> \in Sent
    BY FilesConstants DEF Sent
  <1>2. ASSUME NEW s \in Sent
        PROVE  (s # << >> <=> Len(s) # 0) /\ Len(s) \in 0 .. MaxChunks
    BY FilesConstants, EmptySeq DEF Sent
  <1>3. ASSUME NEW s \in Sent, Len(s) < MaxChunks
        PROVE  Append(s, Len(s)) \in Sent /\ Len(Append(s, Len(s))) = Len(s) + 1
    <2>1. s \in Seq(Nat) /\ Len(s) \in Nat /\ \A i \in 1 .. Len(s) : s[i] = i - 1
      BY DEF Sent
    <2> DEFINE t == Append(s, Len(s))
    <2>2. /\ t \in Seq(Nat) /\ Len(t) = Len(s) + 1
          /\ \A i \in 1 .. Len(s) : t[i] = s[i]
          /\ t[Len(s) + 1] = Len(s)
      BY <2>1, AppendProperties
    <2> HIDE DEF t
    <2>3. \A i \in 1 .. Len(t) : t[i] = i - 1
      <3> SUFFICES ASSUME NEW i \in 1 .. Len(t) PROVE t[i] = i - 1
        OBVIOUS
      <3>1. i \in 1 .. Len(s) \/ i = Len(s) + 1
        BY <2>1, <2>2
      <3>2. QED
        BY <2>1, <2>2, <3>1
    <2>4. t \in Sent
      BY <1>3, <2>1, <2>2, <2>3, FilesConstants DEF Sent
    <2>5. QED
      BY <2>2, <2>4 DEF t
  <1>4. QED
    BY <1>1, <1>2, <1>3

\* What a request that goes to another place leaves as it is.
Goes(r, place) ==
    /\ req' \in [Writer -> FileRequest]
    /\ req'[r].pc = place /\ req'[r].file = req[r].file /\ req'[r].bytes = req[r].bytes
    /\ \A q \in Writer \ {r} : req'[q] = req[q]

LEMMA GotoStep ==
    ASSUME FilesTypes, NEW r \in Writer, NEW place \in Creating \cup Deleting,
           Alone!Goto(r, place)
    PROVE  Goes(r, place)
  <1>1. req[r] \in FileRequest /\ req' = [req EXCEPT ![r] = [req[r] EXCEPT !.pc = place]]
    BY DEF FilesTypes, FileRequest, Alone!Goto
  <1>2. QED
    BY <1>1 DEF FilesTypes, FileRequest, Goes

\* What a request that is answered leaves as it is.
Ends(r) ==
    /\ req' \in [Writer -> FileRequest] /\ req'[r] = Alone!Idle
    /\ \A q \in Writer \ {r} : req'[q] = req[q]

SendsAsBefore ==
    /\ upload' \in [File -> UploadState]
    /\ \A f \in File : /\ upload'[f].pc = "sending" <=> upload[f].pc = "sending"
                       /\ upload'[f].next = upload[f].next

LEMMA EndStep ==
    ASSUME FilesTypes, NEW r \in Writer, req' = [req EXCEPT ![r] = Alone!Idle]
    PROVE  Ends(r)
  BY SentGrows DEF FilesTypes, FileRequest, Alone!Idle, Ends

LEMMA AnswerStep ==
    ASSUME FilesTypes, NEW r \in Writer, NEW pc \in {"failed", "ended"}, Alone!Answer(r, pc)
    PROVE  Ends(r) /\ SendsAsBefore
  <1>1. Ends(r)
    BY EndStep DEF Alone!Answer
  <1>2. \A f \in File : upload'[f] \in {upload[f], [upload[f] EXCEPT !.pc = pc]}
                        /\ (upload'[f] # upload[f] => upload[f].pc = "waiting")
    BY DEF Alone!Answer
  <1>3. DOMAIN upload' = File
    BY DEF Alone!Answer
  <1>4. upload' \in [File -> UploadState]
    BY <1>2 DEF Alone!Answer, FilesTypes, UploadState
  <1>5. QED
    BY <1>1, <1>2, <1>4 DEF SendsAsBefore, FilesTypes, UploadState

LEMMA UploadTypes ==
    ASSUME FilesTypes, NEW f \in File,
           \/ Alone!SendFrame(f) \/ Alone!LoseFrame(f) \/ Alone!FailUpload(f) \/ Alone!CancelUpload(f)
    PROVE  FilesTypes'
  <1>1. UNCHANGED <<tmp, binary, row, req>> /\ faults' \in Nat
    BY DEF FilesTypes, Alone!SendFrame, Alone!LoseFrame, Alone!FailUpload, Alone!CancelUpload,
           Alone!Fault, Alone!disk, Alone!ghost
  <1>2. \E s \in Sent : session' \in {session, [session EXCEPT ![f] = s]}
    <2>1. session[f] \in Sent /\ << >> \in Sent
      BY SentGrows DEF FilesTypes
    <2>2. \/ session' = session \/ session' = [session EXCEPT ![f] = << >>]
          \/ Len(session[f]) < MaxChunks /\ session' = [session EXCEPT ![f] = Append(session[f], Len(session[f]))]
      BY DEF FilesTypes, Alone!SendFrame, Alone!HandleUploadChunk, Alone!LoseFrame, Alone!FailUpload,
             Alone!CancelUpload
    <2>3. QED
      BY <2>1, <2>2, SentGrows
  <1>3. \E st \in UploadState : upload' = [upload EXCEPT ![f] = st]
    <2>1. upload[f] \in UploadState
      BY DEF FilesTypes, UploadState
    <2>2. \/ upload' = [upload EXCEPT ![f] = [upload[f] EXCEPT !.next = upload[f].next + 1]]
          \/ upload' = [upload EXCEPT ![f] = [upload[f] EXCEPT !.pc = "failed"]]
          \/ upload' = [upload EXCEPT ![f] = [upload[f] EXCEPT !.pc = "ended"]]
      BY DEF FilesTypes, Alone!SendFrame, Alone!LoseFrame, Alone!FailUpload, Alone!CancelUpload
    <2>3. /\ [upload[f] EXCEPT !.next = upload[f].next + 1] \in UploadState
          /\ [upload[f] EXCEPT !.pc = "failed"] \in UploadState
          /\ [upload[f] EXCEPT !.pc = "ended"] \in UploadState
      BY <2>1 DEF UploadState
    <2>4. QED
      BY <2>2, <2>3
  <1>4. QED
    BY <1>1, <1>2, <1>3 DEF FilesTypes, UploadState

\* A create begins with the chunks so far, if there are any.
Begins(r, f) ==
    /\ req[r].pc = "idle" /\ session[f] # << >>
    /\ req' \in [Writer -> FileRequest]
    /\ req'[r].pc = "write" /\ req'[r].file = f /\ req'[r].bytes = session[f]
    /\ \A q \in Writer \ {r} : req'[q] = req[q]

LEMMA BeginTypes ==
    ASSUME FilesTypes, NEW r \in Writer, NEW f \in File,
           Alone!BeginCreate(r, f) \/ Shared!BeginCreate(r, f)
    PROVE  FilesTypes' /\ (Begins(r, f) \/ req' = req)
  <1>1. UNCHANGED <<session, tmp, binary, row, faults>> /\ req[r] = Alone!Idle
    BY DEF Alone!BeginCreate, Shared!BeginCreate, Alone!disk, Shared!disk, Alone!Idle, Shared!Idle
  <1>2. upload' \in [File -> UploadState]
    <2>1. \/ upload' = upload
          \/ \E pc \in {"failed", "waiting"} : upload' = [upload EXCEPT ![f] = [upload[f] EXCEPT !.pc = pc]]
      BY DEF Alone!BeginCreate, Shared!BeginCreate, FilesTypes
    <2>2. ASSUME NEW pc \in {"failed", "waiting"}
          PROVE  [upload[f] EXCEPT !.pc = pc] \in UploadState
      <3>1. upload[f] \in UploadState
        BY DEF FilesTypes
      <3>2. QED
        BY <3>1 DEF UploadState
    <2> HIDE DEF UploadState
    <2>3. upload \in [File -> UploadState]
      BY DEF FilesTypes
    <2>4. QED
      BY <2>1, <2>2, <2>3
  <1>3. CASE session[f] = << >>
    BY <1>1, <1>2, <1>3 DEF Alone!BeginCreate, Shared!BeginCreate, FilesTypes
  <1>4. CASE session[f] # << >>
    <2> DEFINE st == [op |-> "create", pc |-> "write", file |-> f, bytes |-> session[f]]
    <2>1. req' = [req EXCEPT ![r] = st]
      BY <1>4 DEF Alone!BeginCreate, Shared!BeginCreate
    <2>2. st \in FileRequest
      BY DEF FileRequest, FilesTypes, Creating
    <2>3. st.pc = "write" /\ st.file = f /\ st.bytes = session[f] /\ Alone!Idle.pc = "idle"
      BY DEF Alone!Idle
    <2> HIDE DEF st
    <2>4. Begins(r, f)
      BY <1>1, <1>4, <2>1, <2>2, <2>3 DEF Begins, FilesTypes
    <2>5. QED
      BY <1>1, <1>2, <2>4 DEF Begins, FilesTypes
  <1>5. QED
    BY <1>3, <1>4

\* What the steps of a request do to the request and to the uploader.
LEMMA CreateTypes ==
    ASSUME FilesTypes, NEW r \in Writer,
           \/ Alone!WriteTmp(r) \/ Alone!RenameTmp(r) \/ Alone!UndoWrite(r)
           \/ Alone!InsertMetadata(r) \/ Alone!DropBinary(r)
    PROVE  /\ FilesTypes' /\ SendsAsBefore
           /\ (\E place \in Creating : Goes(r, place)) \/ Ends(r)
  <1>1. req[r].pc \in Creating /\ req[r] \in FileRequest /\ req[r].file \in File
    BY DEF FilesTypes, Alone!WriteTmp, Alone!RenameTmp, Alone!UndoWrite, Alone!InsertMetadata,
           Alone!DropBinary, Creating
  <1>2. session' \in [File -> Sent] /\ tmp' \in [File -> Sent] /\ binary' \in [File -> Sent]
    <2>1. req[r].bytes \in Sent /\ tmp[req[r].file] \in Sent /\ << >> \in Sent
      BY <1>1, SentGrows DEF FileRequest, FilesTypes
    <2>2. /\ \E s \in Sent : session' \in {session, [session EXCEPT ![req[r].file] = s]}
          /\ \E s \in Sent : tmp' \in {tmp, [tmp EXCEPT ![req[r].file] = s]}
          /\ \E s \in Sent : binary' \in {binary, [binary EXCEPT ![req[r].file] = s]}
      BY <2>1
      DEF Alone!WriteTmp, Alone!RenameTmp, Alone!UndoWrite, Alone!InsertMetadata, Alone!DropBinary,
          Alone!disk
    <2>3. QED
      BY <1>1, <2>2 DEF FilesTypes
  <1>3. row' \in [File -> {"none", "live", "deleted"}] /\ faults' \in Nat
    <2>1. row' \in {row, [row EXCEPT ![req[r].file] = "live"]} /\ (faults' = faults \/ Alone!Fault)
      BY DEF Alone!WriteTmp, Alone!RenameTmp, Alone!UndoWrite, Alone!InsertMetadata, Alone!DropBinary
    <2>2. QED
      BY <1>1, <2>1 DEF FilesTypes, Alone!Fault
  <1>4. \/ \E place \in Creating : Alone!Goto(r, place) /\ UNCHANGED upload
        \/ \E pc \in {"failed", "ended"} : Alone!Answer(r, pc)
    BY DEF Alone!WriteTmp, Alone!RenameTmp, Alone!UndoWrite, Alone!InsertMetadata,
           Alone!DropBinary, Creating
  <1>5. (\E place \in Creating : Goes(r, place) /\ UNCHANGED upload) \/ (Ends(r) /\ SendsAsBefore)
    BY <1>4, GotoStep, AnswerStep
  <1>6. SendsAsBefore
    BY <1>5 DEF SendsAsBefore, FilesTypes
  <1>7. req' \in [Writer -> FileRequest] /\ \A q \in Writer : req'[q].pc # "idle" => req'[q].file \in File
    BY <1>1, <1>5 DEF FilesTypes, Goes, Ends, Alone!Idle
  <1>8. QED
    BY <1>2, <1>3, <1>5, <1>6, <1>7 DEF FilesTypes, SendsAsBefore

LEMMA DeleteTypes ==
    ASSUME FilesTypes, NEW r \in Writer,
           \/ \E f \in File : Alone!BeginDelete(r, f)
           \/ Alone!UnlinkBinary(r) \/ Alone!Tombstone(r)
    PROVE  FilesTypes'
  <1>1. CASE \E f \in File : Alone!BeginDelete(r, f)
    <2>1. PICK f \in File : Alone!BeginDelete(r, f)
      BY <1>1
    <2> DEFINE st == [op |-> "delete", pc |-> "unlink", file |-> f, bytes |-> << >>]
    <2>2. st \in FileRequest /\ st.file \in File
      BY SentGrows DEF FileRequest, Deleting
    <2>3. req' = [req EXCEPT ![r] = st] /\ UNCHANGED <<session, tmp, binary, row, upload, faults>>
      BY <2>1 DEF Alone!BeginDelete, Alone!disk
    <2> HIDE DEF st
    <2>4. QED
      BY <2>2, <2>3 DEF FilesTypes
  <1>2. CASE Alone!UnlinkBinary(r)
    <2>1. Goes(r, "tombstone") /\ req[r].file \in File
      BY <1>2, GotoStep DEF Alone!UnlinkBinary, Deleting, FilesTypes
    <2>2. binary' \in [File -> Sent] /\ UNCHANGED <<session, tmp, row, upload, faults>>
      BY <1>2, <2>1, SentGrows DEF Alone!UnlinkBinary, FilesTypes
    <2>3. QED
      BY <2>1, <2>2 DEF FilesTypes, Goes
  <1>3. CASE Alone!Tombstone(r)
    <2>1. Ends(r)
      BY <1>3, EndStep DEF Alone!Tombstone
    <2>2. row' \in [File -> {"none", "live", "deleted"}] /\ faults' \in Nat
      BY <1>3 DEF Alone!Tombstone, FilesTypes, Alone!Fault
    <2>3. UNCHANGED <<session, tmp, binary, upload>>
      BY <1>3 DEF Alone!Tombstone, Alone!disk
    <2>4. QED
      BY <2>1, <2>2, <2>3 DEF FilesTypes, Ends, Alone!Idle
  <1>4. QED
    BY <1>1, <1>2, <1>3

LEMMA RestartTypes == ASSUME FilesTypes, Alone!Restart PROVE FilesTypes'
  <1>1. UNCHANGED <<tmp, binary, row>> /\ faults' \in Nat
    BY DEF Alone!Restart, Alone!disk, Alone!Fault, FilesTypes
  <1>2. session' \in [File -> Sent]
    BY SentGrows DEF Alone!Restart
  <1>3. upload' \in [File -> UploadState]
    <2>1. \A f \in File : [upload[f] EXCEPT !.pc = "failed"] \in UploadState /\ upload[f] \in UploadState
      BY DEF FilesTypes, UploadState
    <2>2. QED
      BY <2>1 DEF Alone!Restart
  <1>4. req' \in [Writer -> FileRequest] /\ \A r \in Writer : req'[r].pc = "idle"
    BY SentGrows DEF Alone!Restart, Alone!Idle, FileRequest
  <1>5. QED
    BY <1>1, <1>2, <1>3, <1>4 DEF FilesTypes

-----------------------------------------------------------------------------
(* Files: one client *)

\* What the steps of a create do to its own file; to no other do they anything.
CreateEffect(r, f) ==
    /\ \A g \in File \ {f} : tmp'[g] = tmp[g] /\ binary'[g] = binary[g] /\ row'[g] = row[g]
    /\ \/ row'[f] = row[f]
       \/ req[r].pc = "insert" /\ Ends(r) /\ binary' = binary
    /\ tmp'[f] \in {tmp[f], << >>, req[r].bytes}
    /\ binary'[f] \in {binary[f], << >>, tmp[f]}
    /\ req'[r].pc = "insert" => binary'[f] # << >>
    /\ \A g \in File : upload[g].pc = "sending" /\ g # f => session'[g] = session[g]
    /\ UNCHANGED <<unlinked, shortened>>

LEMMA CreateHasEffect ==
    ASSUME FilesTypes, NEW r \in Writer,
           \/ Alone!WriteTmp(r) \/ Alone!RenameTmp(r) \/ Alone!UndoWrite(r)
           \/ Alone!InsertMetadata(r) \/ Alone!DropBinary(r)
    PROVE  Creates(r, req[r].file) /\ req[r].file \in File /\ CreateEffect(r, req[r].file)
  <1>1. Creates(r, req[r].file) /\ req[r].file \in File
    BY DEF FilesTypes, Creates, Creating, Alone!WriteTmp, Alone!RenameTmp, Alone!UndoWrite, Alone!InsertMetadata,
         Alone!DropBinary
  <1>2. UNCHANGED <<unlinked, shortened>>
    BY DEF Alone!ghost, Alone!WriteTmp, Alone!RenameTmp, Alone!UndoWrite, Alone!InsertMetadata,
         Alone!DropBinary
  <1>3. CASE Alone!WriteTmp(r)
    <2>1. req'[r].pc # "insert"
      BY <1>3, GotoStep DEF Alone!WriteTmp, Goes, Creating
    <2>2. QED
      BY <1>1, <1>2, <1>3, <2>1 DEF Alone!WriteTmp, CreateEffect, FilesTypes
  <1>4. CASE Alone!RenameTmp(r)
    <2>1. CASE tmp[req[r].file] # << >> /\ binary' = [binary EXCEPT ![req[r].file] = tmp[req[r].file]]
      BY <1>1, <1>2, <1>4, <2>1 DEF Alone!RenameTmp, CreateEffect, FilesTypes, Alone!disk
    <2>2. CASE Alone!Goto(r, "undo") /\ UNCHANGED <<session, tmp, binary>>
      <3>1. req'[r].pc # "insert"
        BY <2>2, GotoStep DEF Goes, Creating
      <3>2. QED
        BY <1>1, <1>2, <1>4, <2>2, <3>1 DEF Alone!RenameTmp, CreateEffect, FilesTypes
    <2>3. QED
      BY <1>4, <2>1, <2>2 DEF Alone!RenameTmp, Alone!disk
  <1>5. CASE Alone!UndoWrite(r)
    <2>1. req'[r].pc # "insert"
      BY <1>5, GotoStep, AnswerStep DEF Alone!UndoWrite, Goes, Creating, Ends, Alone!Idle
    <2>2. QED
      BY <1>1, <1>2, <1>5, <2>1 DEF Alone!UndoWrite, CreateEffect, FilesTypes
  <1>6. CASE Alone!InsertMetadata(r)
    <2>1. UNCHANGED <<session, tmp, binary>> /\ req[r].pc = "insert"
      BY <1>6 DEF Alone!InsertMetadata, Alone!disk
    <2>2. CASE Alone!Goto(r, "drop") /\ UNCHANGED row
      <3>1. req'[r].pc # "insert"
        BY <2>2, GotoStep DEF Goes, Creating
      <3>2. QED
        BY <1>1, <1>2, <2>1, <2>2, <3>1 DEF CreateEffect
    <2>3. CASE row' = [row EXCEPT ![req[r].file] = "live"] /\ Alone!Answer(r, "ended")
      <3>1. Ends(r) /\ req'[r].pc # "insert"
        BY <2>3, AnswerStep DEF Ends, Alone!Idle
      <3>2. QED
        BY <1>1, <1>2, <2>1, <2>3, <3>1 DEF CreateEffect, FilesTypes
    <2>4. QED
      BY <1>6, <2>2, <2>3 DEF Alone!InsertMetadata
  <1>7. CASE Alone!DropBinary(r)
    <2>1. req'[r].pc # "insert"
      BY <1>7, AnswerStep DEF Alone!DropBinary, Ends, Alone!Idle
    <2>2. QED
      BY <1>1, <1>2, <1>7, <2>1 DEF Alone!DropBinary, CreateEffect, FilesTypes
  <1>8. QED
    BY <1>1, <1>3, <1>4, <1>5, <1>6, <1>7

LEMMA CreateStep ==
    ASSUME AloneInv, NEW r \in Writer,
           \/ Alone!WriteTmp(r) \/ Alone!RenameTmp(r) \/ Alone!UndoWrite(r)
           \/ Alone!InsertMetadata(r) \/ Alone!DropBinary(r)
    PROVE  AloneInv'
  <1> DEFINE f == req[r].file
  <1>1. /\ FilesTypes' /\ SendsAsBefore
        /\ (\E place \in Creating : Goes(r, place)) \/ Ends(r)
    BY CreateTypes DEF AloneInv
  <1>2. f \in File /\ Creates(r, f) /\ CreateEffect(r, f)
    BY CreateHasEffect DEF AloneInv
  <1> HIDE DEF f
  <1>3. /\ upload[f].pc # "sending" /\ row[f] = "none"
        /\ \A q \in Writer \ {r} : ~ Creates(q, f) /\ ~ Deletes(q, f)
    BY <1>2 DEF AloneInv, OneCreate
  <1>4. /\ \A q \in Writer \ {r} : req'[q] = req[q]
        /\ req'[r].pc \in Creating => req'[r].file = f /\ req'[r].bytes = req[r].bytes
        /\ req'[r].pc \in Creating \cup {"idle"}
    BY <1>1 DEF Goes, Ends, Alone!Idle, Creating, f
  <1>5. Creating \cap Deleting = {} /\ "insert" \in Creating /\ "idle" \notin Creating \cup Deleting
    BY DEF Creating, Deleting
  <1>6. \A q \in Writer, g \in File :
            /\ Creates(q, g)' => IF q = r THEN g = f ELSE g # f /\ Creates(q, g)
            /\ Deletes(q, g)' => q # r /\ g # f /\ Deletes(q, g)
    BY <1>3, <1>4, <1>5 DEF Creates, Deletes
  <1>7. req'[r].pc \in Creating => row' = row
    <2>1. ASSUME Ends(r) PROVE req'[r].pc \notin Creating
      BY <2>1, <1>5 DEF Ends, Alone!Idle
    <2>2. ASSUME row'[f] = row[f] PROVE row' = row
      BY <1>1, <1>2, <2>2 DEF CreateEffect, AloneInv, FilesTypes
    <2>3. QED
      BY <1>2, <2>1, <2>2 DEF CreateEffect
  <1>8. OneCreate'
    <2>1. \A q \in Writer, g \in File : Creates(q, g)' => upload'[g].pc # "sending" /\ row'[g] = "none"
      <3> SUFFICES ASSUME NEW q \in Writer, NEW g \in File, Creates(q, g)'
                   PROVE  upload'[g].pc # "sending" /\ row'[g] = "none"
        OBVIOUS
      <3>1. CASE q = r
        <4>1. req'[r].pc \in Creating /\ req'[r].file = g
          BY <3>1 DEF Creates, Creating
        <4>2. g = f /\ row' = row
          BY <4>1, <1>4, <1>7
        <4>3. QED
          BY <4>2, <1>1, <1>2, <1>3 DEF SendsAsBefore
      <3>2. CASE q # r
        BY <3>2, <1>1, <1>2, <1>6 DEF SendsAsBefore, CreateEffect, AloneInv, OneCreate
      <3>3. QED
        BY <3>1, <3>2
    <2>2. \A q \in Writer, g \in File : Deletes(q, g)' => row'[g] # "none"
      BY <1>2, <1>6 DEF CreateEffect, AloneInv, OneCreate
    <2>3. \A q, p \in Writer, g \in File : Creates(q, g)' /\ Creates(p, g)' => q = p
      BY <1>6 DEF AloneInv, OneCreate
    <2>4. \A g \in File : upload'[g].pc = "sending" => row'[g] = "none"
      BY <1>1, <1>2, <1>3 DEF SendsAsBefore, CreateEffect, AloneInv, OneCreate
    <2>5. QED
      BY <2>1, <2>2, <2>3, <2>4 DEF OneCreate
  <1>9. BinaryFirst'
    <2>1. \A q \in Writer : req'[q].pc = "insert" => binary'[req'[q].file] # << >>
      <3>1. ASSUME NEW q \in Writer \ {r}, req'[q].pc = "insert" PROVE binary'[req'[q].file] # << >>
        <4>1. req'[q] = req[q] /\ req[q].file \in File \ {f}
          BY <3>1, <1>1, <1>3, <1>4, <1>5 DEF FilesTypes, Creates
        <4>2. QED
          BY <3>1, <4>1, <1>2 DEF CreateEffect, AloneInv, BinaryFirst
      <3>2. QED
        BY <3>1, <1>2, <1>4, <1>5 DEF CreateEffect
    <2>2. \A g \in File : row'[g] = "live" => binary'[g] # << >> \/ g \in unlinked'
      BY <1>2, <1>3 DEF CreateEffect, AloneInv, BinaryFirst, f
    <2>3. QED
      BY <2>1, <2>2 DEF BinaryFirst
  <1>10. WholeFiles'
    <2>1. shortened' = shortened
      BY <1>2 DEF CreateEffect
    <2>2. Whole(f, req[r].bytes, shortened)
      BY <1>2 DEF AloneInv, WholeFiles
    <2>3. \A g \in File : (tmp'[g] # << >> => Whole(g, tmp'[g], shortened')) /\ (binary'[g] # << >> => Whole(g, binary'[g], shortened'))
      BY <1>2, <2>2 DEF CreateEffect, AloneInv, WholeFiles
    <2>4. \A g \in File : upload'[g].pc = "sending" /\ g \notin shortened' /\ Size[g] <= MaxChunks =>
              Len(session'[g]) = upload'[g].next
      BY <1>1, <1>2, <1>3 DEF SendsAsBefore, CreateEffect, AloneInv, WholeFiles
    <2>5. \A q \in Writer, g \in File : Creates(q, g)' => Whole(g, req'[q].bytes, shortened')
      <3>1. \A q \in Writer \ {r}, g \in File : Creates(q, g)' => Creates(q, g) /\ req'[q] = req[q]
        BY <1>4, <1>6
      <3>2. \A g \in File : Creates(r, g)' => g = f /\ req'[r].bytes = req[r].bytes
        BY <1>4 DEF Creates
      <3>3. QED
        BY <2>1, <2>2, <3>1, <3>2 DEF AloneInv, WholeFiles
    <2>6. QED
      BY <2>1, <2>3, <2>4, <2>5 DEF WholeFiles
  <1>11. QED
    BY <1>1, <1>8, <1>9, <1>10 DEF AloneInv

LEMMA UploadStep ==
    ASSUME AloneInv, NEW f \in File,
           \/ Alone!SendFrame(f) \/ Alone!LoseFrame(f) \/ Alone!FailUpload(f) \/ Alone!CancelUpload(f)
    PROVE  AloneInv'
  <1>1. FilesTypes'
    BY UploadTypes DEF AloneInv
  <1>2. UNCHANGED <<tmp, binary, row, req, unlinked>> /\ shortened \subseteq shortened'
    BY DEF Alone!SendFrame, Alone!LoseFrame, Alone!FailUpload, Alone!CancelUpload, Alone!disk, Alone!ghost
  <1>3. /\ \A g \in File \ {f} : upload'[g] = upload[g] /\ session'[g] = session[g]
        /\ upload'[f].pc = "sending" => upload[f].pc = "sending"
        /\ f \in shortened' \/ upload'[f].pc # "sending" \/
               session' = IF Len(session[f]) < MaxChunks /\ upload[f].next = Len(session[f])
                          THEN [session EXCEPT ![f] = Append(session[f], upload[f].next)] ELSE session
    BY DEF AloneInv, FilesTypes, UploadState, Alone!SendFrame, Alone!HandleUploadChunk, Alone!LoseFrame,
           Alone!FailUpload, Alone!CancelUpload
  <1>4. OneCreate'
    BY <1>2, <1>3 DEF AloneInv, OneCreate, Creates, Deletes
  <1>5. BinaryFirst'
    BY <1>2 DEF AloneInv, BinaryFirst
  <1>6. WholeFiles'
    <2>1. \A g \in File : \A s : Whole(g, s, shortened) => Whole(g, s, shortened')
      BY <1>2 DEF Whole
    <2>2. \A g \in File : (tmp'[g] # << >> => Whole(g, tmp'[g], shortened')) /\ (binary'[g] # << >> => Whole(g, binary'[g], shortened'))
      BY <1>2, <2>1 DEF AloneInv, WholeFiles
    <2>3. ASSUME upload'[f].pc = "sending", f \notin shortened', Size[f] <= MaxChunks
          PROVE  Len(session'[f]) = upload'[f].next
      <3>1. Alone!SendFrame(f)
        BY <2>3 DEF Alone!LoseFrame, Alone!FailUpload, Alone!CancelUpload, AloneInv, FilesTypes, UploadState
      <3>2. /\ upload[f].pc = "sending" /\ upload[f].next < Size[f] /\ upload[f].next \in Nat
            /\ upload'[f].next = upload[f].next + 1
        BY <3>1 DEF Alone!SendFrame, AloneInv, FilesTypes, UploadState
      <3>3. Len(session[f]) = upload[f].next
        BY <2>3, <3>2, <1>2 DEF AloneInv, WholeFiles
      <3>4. Len(session[f]) < MaxChunks
        BY <2>3, <3>2, <3>3, FilesConstants
      <3>5. session'[f] = Append(session[f], Len(session[f]))
        BY <3>1, <3>3, <3>4 DEF Alone!SendFrame, Alone!HandleUploadChunk, AloneInv, FilesTypes
      <3>6. QED
        BY <3>2, <3>3, <3>4, <3>5, SentGrows DEF AloneInv, FilesTypes
    <2>4. \A g \in File : upload'[g].pc = "sending" /\ g \notin shortened' /\ Size[g] <= MaxChunks =>
              Len(session'[g]) = upload'[g].next
      BY <1>2, <1>3, <2>3 DEF AloneInv, WholeFiles
    <2>5. \A q \in Writer, g \in File : Creates(q, g)' => Whole(g, req'[q].bytes, shortened')
      BY <1>2, <2>1 DEF AloneInv, WholeFiles, Creates
    <2>6. QED
      BY <2>2, <2>4, <2>5 DEF WholeFiles
  <1>7. QED
    BY <1>1, <1>4, <1>5, <1>6 DEF AloneInv

LEMMA BeginStep ==
    ASSUME AloneInv, NEW r \in Writer, NEW f \in File, Alone!BeginCreate(r, f) PROVE AloneInv'
  <1>1. FilesTypes' /\ (Begins(r, f) \/ req' = req)
    BY BeginTypes DEF AloneInv
  <1>2. /\ UNCHANGED <<session, tmp, binary, row, unlinked, shortened>>
        /\ upload[f].pc = "sending" /\ upload[f].next = Size[f] /\ upload'[f].pc # "sending"
        /\ \A g \in File \ {f} : upload'[g] = upload[g]
    BY DEF Alone!BeginCreate, AloneInv, FilesTypes, UploadState, Alone!disk, Alone!ghost
  <1>3. row[f] = "none" /\ \A q \in Writer : ~ Creates(q, f)
    BY <1>2 DEF AloneInv, OneCreate
  <1>4. \A q \in Writer, g \in File :
            /\ Creates(q, g)' => Creates(q, g) \/ (q = r /\ g = f /\ req'[q].bytes = session[f])
            /\ Deletes(q, g)' => Deletes(q, g)
            /\ q # r => req'[q] = req[q]
    <2>1. \A q \in Writer \ {r} : req'[q] = req[q]
      BY <1>1 DEF Begins
    <2>2. \/ req'[r] = req[r]
          \/ req'[r].pc = "write" /\ req'[r].file = f /\ req'[r].bytes = session[f]
      BY <1>1 DEF Begins
    <2>3. QED
      BY <2>1, <2>2 DEF Creates, Deletes, Creating, Deleting
  <1>5. \A q \in Writer : req'[q].pc = "insert" => req'[q] = req[q]
    BY <1>1 DEF Begins
  <1>6. OneCreate'
    <2>1. \A q \in Writer, g \in File : Creates(q, g)' => upload'[g].pc # "sending" /\ row'[g] = "none"
      BY <1>2, <1>3, <1>4 DEF AloneInv, OneCreate
    <2>2. \A q \in Writer, g \in File : Deletes(q, g)' => row'[g] # "none"
      BY <1>2, <1>4 DEF AloneInv, OneCreate
    <2>3. \A q, p \in Writer, g \in File : Creates(q, g)' /\ Creates(p, g)' => q = p
      BY <1>3, <1>4 DEF AloneInv, OneCreate
    <2>4. \A g \in File : upload'[g].pc = "sending" => row'[g] = "none"
      BY <1>2 DEF AloneInv, OneCreate
    <2>5. QED
      BY <2>1, <2>2, <2>3, <2>4 DEF OneCreate
  <1>7. BinaryFirst'
    BY <1>2, <1>5 DEF AloneInv, BinaryFirst
  <1>8. WholeFiles'
    <2>1. \A g \in File : \A s : Whole(g, s, shortened) => Whole(g, s, shortened')
      BY <1>2 DEF Whole
    <2>2. \A g \in File : (tmp'[g] # << >> => Whole(g, tmp'[g], shortened')) /\ (binary'[g] # << >> => Whole(g, binary'[g], shortened'))
      BY <1>2, <2>1 DEF AloneInv, WholeFiles
    <2>3. \A g \in File : upload'[g].pc = "sending" /\ g \notin shortened' /\ Size[g] <= MaxChunks =>
              Len(session'[g]) = upload'[g].next
      BY <1>2 DEF AloneInv, WholeFiles
    <2>4. Whole(f, session[f], shortened)
      BY <1>2 DEF AloneInv, WholeFiles, Whole
    <2>5. \A q \in Writer, g \in File : Creates(q, g) => Whole(g, req'[q].bytes, shortened)
      <3>1. \A q \in Writer, g \in File : Creates(q, g) => req'[q] = req[q]
        BY <1>1 DEF Begins, Creates, Creating
      <3>2. QED
        BY <3>1 DEF AloneInv, WholeFiles
    <2>6. \A q \in Writer, g \in File : Creates(q, g)' => Whole(g, req'[q].bytes, shortened')
      BY <1>4, <2>1, <2>4, <2>5
    <2>7. QED
      BY <2>2, <2>3, <2>6 DEF WholeFiles
  <1>9. QED
    BY <1>1, <1>6, <1>7, <1>8 DEF AloneInv

LEMMA DeleteStep ==
    ASSUME AloneInv, NEW r \in Writer,
           \/ \E f \in File : Alone!BeginDelete(r, f)
           \/ Alone!UnlinkBinary(r) \/ Alone!Tombstone(r)
    PROVE  AloneInv'
  <1>1. FilesTypes'
    BY DeleteTypes DEF AloneInv
  <1>2. UNCHANGED <<session, tmp, upload, shortened>>
    BY DEF Alone!BeginDelete, Alone!UnlinkBinary, Alone!Tombstone, Alone!disk, Alone!ghost
  <1>3. /\ \A q \in Writer \ {r} : req'[q] = req[q]
        /\ req'[r].pc \in Deleting \cup {"idle"}
        /\ \A g \in File : Deletes(r, g)' => row[g] # "none"
    <2>1. ASSUME NEW f \in File, Alone!BeginDelete(r, f)
          PROVE  /\ \A q \in Writer \ {r} : req'[q] = req[q]
                 /\ req'[r].pc = "unlink" /\ req'[r].file = f /\ row[f] # "none"
      BY <2>1 DEF Alone!BeginDelete, AloneInv, FilesTypes
    <2>2. ASSUME Alone!UnlinkBinary(r)
          PROVE  Goes(r, "tombstone") /\ Deletes(r, req[r].file) /\ req[r].file \in File
      BY <2>2, GotoStep DEF Alone!UnlinkBinary, Deletes, Deleting, AloneInv, FilesTypes
    <2>3. ASSUME Alone!Tombstone(r) PROVE Ends(r)
      BY <2>3, EndStep DEF Alone!Tombstone, AloneInv
    <2>4. CASE \E f \in File : Alone!BeginDelete(r, f)
      BY <2>1, <2>4 DEF Deletes, Deleting
    <2>5. CASE Alone!UnlinkBinary(r)
      BY <2>2, <2>5 DEF Goes, Deletes, Deleting, AloneInv, OneCreate
    <2>6. CASE Alone!Tombstone(r)
      BY <2>3, <2>6 DEF Ends, Deletes, Deleting, Alone!Idle
    <2>7. QED
      BY <2>4, <2>5, <2>6
  <1>4. \A q \in Writer, g \in File :
            /\ Creates(q, g)' => q # r /\ Creates(q, g)
            /\ Deletes(q, g)' => row[g] # "none"
    <2>1. Creating \cap (Deleting \cup {"idle"}) = {}
      BY DEF Creating, Deleting
    <2>2. \A q \in Writer, g \in File : Creates(q, g)' => q # r /\ Creates(q, g)
      BY <1>3, <2>1 DEF Creates
    <2>3. \A q \in Writer \ {r}, g \in File : Deletes(q, g)' => Deletes(q, g)
      BY <1>3 DEF Deletes
    <2>4. QED
      BY <1>3, <2>2, <2>3 DEF AloneInv, OneCreate
  <1>5. \A g \in File :
            /\ row'[g] = "none" <=> row[g] = "none"
            /\ row'[g] = "live" => row[g] = "live"
    BY DEF Alone!BeginDelete, Alone!UnlinkBinary, Alone!Tombstone, AloneInv, FilesTypes
  <1>6. /\ unlinked \subseteq unlinked'
        /\ \A g \in File :
               \/ binary'[g] = binary[g]
               \/ binary'[g] = << >> /\ g \in unlinked' /\ row[g] # "none"
    <2>1. ASSUME Alone!UnlinkBinary(r) PROVE row[req[r].file] # "none"
      BY <2>1 DEF Alone!UnlinkBinary, AloneInv, FilesTypes, OneCreate, Deletes, Deleting
    <2>2. QED
      BY <2>1 DEF Alone!BeginDelete, Alone!UnlinkBinary, Alone!Tombstone, Alone!disk, Alone!ghost,
                  AloneInv, FilesTypes
  <1>7. OneCreate'
    <2>1. \A q \in Writer, g \in File : Creates(q, g)' => upload'[g].pc # "sending" /\ row'[g] = "none"
      BY <1>2, <1>4, <1>5 DEF AloneInv, OneCreate
    <2>2. \A q \in Writer, g \in File : Deletes(q, g)' => row'[g] # "none"
      BY <1>4, <1>5
    <2>3. \A q, p \in Writer, g \in File : Creates(q, g)' /\ Creates(p, g)' => q = p
      BY <1>4 DEF AloneInv, OneCreate
    <2>4. \A g \in File : upload'[g].pc = "sending" => row'[g] = "none"
      BY <1>2, <1>5 DEF AloneInv, OneCreate
    <2>5. QED
      BY <2>1, <2>2, <2>3, <2>4 DEF OneCreate
  <1>8. BinaryFirst'
    <2>1. ASSUME NEW q \in Writer, req'[q].pc = "insert" PROVE binary'[req'[q].file] # << >>
      <3>1. q # r /\ req'[q] = req[q]
        BY <2>1, <1>3 DEF Deleting
      <3>2. req[q].file \in File /\ Creates(q, req[q].file)
        BY <2>1, <3>1 DEF AloneInv, FilesTypes, Creates, Creating
      <3>3. row[req[q].file] = "none"
        BY <3>2 DEF AloneInv, OneCreate
      <3>4. QED
        BY <2>1, <3>1, <3>2, <3>3, <1>6 DEF AloneInv, BinaryFirst
    <2>2. QED
      BY <2>1, <1>5, <1>6 DEF AloneInv, BinaryFirst
  <1>9. WholeFiles'
    <2>1. \A q \in Writer, g \in File : Creates(q, g)' => Whole(g, req'[q].bytes, shortened')
      BY <1>2, <1>3, <1>4 DEF AloneInv, WholeFiles
    <2>2. QED
      BY <2>1, <1>2, <1>6 DEF AloneInv, WholeFiles
  <1>10. QED
    BY <1>1, <1>7, <1>8, <1>9 DEF AloneInv

LEMMA RestartStep == ASSUME AloneInv, Alone!Restart PROVE AloneInv'
  <1>1. FilesTypes'
    BY RestartTypes DEF AloneInv
  <1>2. /\ UNCHANGED <<tmp, binary, row, unlinked>> /\ shortened \subseteq shortened'
        /\ \A g \in File : /\ upload'[g].pc = "sending" <=> upload[g].pc = "sending"
                           /\ upload'[g].next = upload[g].next
                           /\ session'[g] = << >> /\ (session[g] = << >> \/ g \in shortened')
    BY DEF Alone!Restart, Alone!disk, AloneInv, FilesTypes, UploadState
  <1>3. \A q \in Writer : req'[q].pc = "idle"
    BY DEF Alone!Restart, Alone!Idle
  <1>4. \A q \in Writer, g \in File : ~ Creates(q, g)' /\ ~ Deletes(q, g)'
    BY <1>3 DEF Creates, Deletes, Creating, Deleting
  <1>5. OneCreate'
    BY <1>2, <1>4 DEF AloneInv, OneCreate
  <1>6. BinaryFirst'
    BY <1>2, <1>3 DEF AloneInv, BinaryFirst
  <1>7. WholeFiles'
    BY <1>2, <1>4 DEF AloneInv, WholeFiles, Whole
  <1>8. QED
    BY <1>1, <1>5, <1>6, <1>7 DEF AloneInv

LEMMA AloneStep == ASSUME AloneInv, Alone!Next PROVE AloneInv'
  BY UploadStep, BeginStep, CreateStep, DeleteStep, RestartStep DEF Alone!Next

-----------------------------------------------------------------------------
(* Files: another client creates the same ids, and nothing fails *)

LEMMA NoFault == ASSUME faults \in Nat, Shared!Fault PROVE FALSE
  BY DEF Shared!Fault

\* But for how a create begins, the steps are those of one client.
LEMMA SharedUploadIsAlone ==
    ASSUME FilesTypes, NEW f \in File,
           \/ Shared!SendFrame(f) \/ Shared!LoseFrame(f) \/ Shared!FailUpload(f)
           \/ Shared!CancelUpload(f) \/ Shared!Restart
    PROVE  Alone!SendFrame(f) \/ Alone!CancelUpload(f)
  <1>1. ~ Shared!Fault
    BY NoFault DEF FilesTypes
  <1>2. Shared!SendFrame(f) => Alone!SendFrame(f)
    BY <1>1 DEF Shared!SendFrame, Alone!SendFrame, Shared!HandleUploadChunk, Alone!HandleUploadChunk, Shared!disk, Alone!disk, Shared!ghost, Alone!ghost
  <1>3. Shared!CancelUpload(f) => Alone!CancelUpload(f)
    BY <1>1 DEF Shared!CancelUpload, Alone!CancelUpload, Shared!disk, Alone!disk, Shared!ghost, Alone!ghost
  <1>4. QED
    BY <1>1, <1>2, <1>3 DEF Shared!Restart, Shared!LoseFrame, Shared!FailUpload

LEMMA SharedRequestIsAlone ==
    ASSUME FilesTypes, NEW r \in Writer
    PROVE  /\ Shared!WriteTmp(r) => Alone!WriteTmp(r)
           /\ Shared!RenameTmp(r) => Alone!RenameTmp(r)
           /\ Shared!UndoWrite(r) => Alone!UndoWrite(r)
           /\ Shared!InsertMetadata(r) => Alone!InsertMetadata(r)
           /\ Shared!DropBinary(r) => Alone!DropBinary(r)
           /\ Shared!UnlinkBinary(r) => Alone!UnlinkBinary(r)
           /\ Shared!Tombstone(r) => Alone!Tombstone(r)
           /\ \A f \in File : Shared!BeginDelete(r, f) => Alone!BeginDelete(r, f)
  <1>1. ~ Shared!Fault
    BY NoFault DEF FilesTypes
  <1>2. Shared!WriteTmp(r) => Alone!WriteTmp(r)
    BY <1>1 DEF Shared!WriteTmp, Alone!WriteTmp, Shared!Goto, Alone!Goto, Shared!ghost, Alone!ghost
  <1>3. Shared!RenameTmp(r) => Alone!RenameTmp(r)
    BY <1>1 DEF Shared!RenameTmp, Alone!RenameTmp, Shared!Goto, Alone!Goto, Shared!ghost, Alone!ghost, Shared!disk, Alone!disk
  <1>4. Shared!UndoWrite(r) => Alone!UndoWrite(r)
    BY <1>1 DEF Shared!UndoWrite, Alone!UndoWrite, Shared!Goto, Alone!Goto, Shared!Answer, Alone!Answer, Shared!Idle, Alone!Idle, Shared!ghost, Alone!ghost
  <1>5. Shared!InsertMetadata(r) => Alone!InsertMetadata(r)
    BY <1>1 DEF Shared!InsertMetadata, Alone!InsertMetadata, Shared!Goto, Alone!Goto, Shared!Answer, Alone!Answer, Shared!Idle, Alone!Idle, Shared!ghost, Alone!ghost, Shared!disk, Alone!disk
  <1>6. Shared!DropBinary(r) => Alone!DropBinary(r)
    BY <1>1 DEF Shared!DropBinary, Alone!DropBinary, Shared!Answer, Alone!Answer, Shared!Idle, Alone!Idle, Shared!ghost, Alone!ghost
  <1>7. Shared!UnlinkBinary(r) => Alone!UnlinkBinary(r)
    BY <1>1 DEF Shared!UnlinkBinary, Alone!UnlinkBinary, Shared!Goto, Alone!Goto
  <1>8. Shared!Tombstone(r) => Alone!Tombstone(r)
    BY <1>1 DEF Shared!Tombstone, Alone!Tombstone, Shared!Idle, Alone!Idle, Shared!ghost, Alone!ghost, Shared!disk, Alone!disk
  <1>9. \A f \in File : Shared!BeginDelete(r, f) => Alone!BeginDelete(r, f)
    BY <1>1 DEF Shared!BeginDelete, Alone!BeginDelete, Shared!Idle, Alone!Idle, Shared!ghost, Alone!ghost, Shared!disk, Alone!disk
  <1>10. QED
    BY <1>2, <1>3, <1>4, <1>5, <1>6, <1>7, <1>8, <1>9

\* A request that neither inserts nor drops nor tombstones on either side of a
\* step accounts for nothing, and the others account for what they did.
LEMMA Bystander ==
    ASSUME NEW r \in Writer, NEW f \in File, Accounted(f),
           \A q \in Writer \ {r} : req'[q] = req[q],
           req[r].file = f => req[r].pc \notin {"insert", "drop"},
           req'[r].file = f => req'[r].pc # "tombstone",
           binary'[f] # << >> => binary'[f] = binary[f],
           row'[f] = row[f] \/ (req[r].pc = "tombstone" /\ req[r].file = f)
    PROVE  Accounted(f)'
  <1> SUFFICES ASSUME binary'[f] # << >>,
                      \/ row'[f] # "live"
                      \/ \E q \in Writer : req'[q].pc = "tombstone" /\ req'[q].file = f
               PROVE  \E q \in Writer : req'[q].pc \in {"insert", "drop"} /\ req'[q].file = f
    BY DEF Accounted
  <1>1. row[f] # "live" \/ \E q \in Writer : req[q].pc = "tombstone" /\ req[q].file = f
    OBVIOUS
  <1>2. PICK q \in Writer : req[q].pc \in {"insert", "drop"} /\ req[q].file = f
    BY <1>1 DEF Accounted
  <1>3. QED
    BY <1>2

\* Rows are not taken back.
LEMMA DeletesStay ==
    ASSUME SharedInv, NEW r \in Writer, \A q \in Writer \ {r} : req'[q] = req[q],
           \A g \in File : row'[g] = "none" => row[g] = "none",
           \A g \in File : Deletes(r, g)' => row[g] # "none"
    PROVE  \A q \in Writer, g \in File : Deletes(q, g)' => row'[g] # "none"
  <1>1. \A q \in Writer \ {r}, g \in File : Deletes(q, g)' => Deletes(q, g)
    BY DEF Deletes, Deleting
  <1>2. QED
    BY <1>1 DEF SharedInv

LEMMA SharedCreateStep ==
    ASSUME SharedInv, NEW r \in Writer,
           \/ Alone!WriteTmp(r) \/ Alone!RenameTmp(r) \/ Alone!UndoWrite(r)
           \/ Alone!InsertMetadata(r) \/ Alone!DropBinary(r)
    PROVE  SharedInv'
  <1>1. /\ FilesTypes'
        /\ (\E place \in Creating : Goes(r, place)) \/ Ends(r)
    BY CreateTypes DEF SharedInv
  <1>2. PICK f \in File : f = req[r].file /\ Creates(r, f) /\ CreateEffect(r, f)
    BY CreateHasEffect DEF SharedInv
  <1>3. /\ \A q \in Writer \ {r} : req'[q] = req[q]
        /\ req'[r].pc \in Creating => req'[r].file = f
        /\ req'[r].pc \in Creating \cup {"idle"}
        /\ req[r].pc \in Creating
    BY <1>1, <1>2 DEF Goes, Ends, Alone!Idle, Creating, Creates
  <1>4. \A g \in File : row'[g] = "none" => row[g] = "none"
    <2>1. row'[f] \in {row[f], "live"}
      BY <1>2 DEF Alone!WriteTmp, Alone!RenameTmp, Alone!UndoWrite, Alone!InsertMetadata,
                  Alone!DropBinary, SharedInv, FilesTypes
    <2>2. QED
      BY <1>2, <2>1 DEF CreateEffect
  <1>5. \A q \in Writer, g \in File : Deletes(q, g)' => row'[g] # "none"
    <2>1. \A g \in File : ~ Deletes(r, g)'
      BY <1>3 DEF Deletes, Deleting, Creating
    <2>2. QED
      BY <1>3, <1>4, <2>1, DeletesStay
  <1>6. ASSUME NEW g \in File \ {f} PROVE Accounted(g)'
    BY <1>2, <1>3, <1>6, Bystander DEF CreateEffect, SharedInv, Creating
  <1>7. Accounted(f)'
    <2>1. CASE binary'[f] = << >>
      BY <2>1 DEF Accounted
    <2>2. CASE req'[r].pc \in {"insert", "drop"}
      BY <1>3, <2>2 DEF Accounted, Creating
    <2>3. CASE req[r].pc \in {"write", "rename", "undoTmp"} /\ binary' = binary /\ row' = row
      BY <1>2, <1>3, <2>3, Bystander DEF SharedInv, Creating
    <2>4. CASE row[f] = "none" /\ row'[f] = "live"
      <3>1. \A q \in Writer : ~ Deletes(q, f)
        BY <1>2, <2>4 DEF SharedInv
      <3>2. \A q \in Writer : ~ (req'[q].pc = "tombstone" /\ req'[q].file = f)
        BY <1>3, <3>1 DEF Deletes, Deleting, Creating
      <3>3. QED
        BY <2>4, <3>2 DEF Accounted
    <2>5. \/ binary'[f] = << >> \/ req'[r].pc \in {"insert", "drop"}
          \/ req[r].pc \in {"write", "rename", "undoTmp"} /\ binary' = binary /\ row' = row
          \/ row[f] = "none" /\ row'[f] = "live"
      <3>1. CASE Alone!WriteTmp(r)
        BY <3>1 DEF Alone!WriteTmp
      <3>2. CASE Alone!RenameTmp(r)
        BY <3>2, GotoStep DEF Alone!RenameTmp, Alone!disk, Goes, Creating, SharedInv
      <3>3. CASE Alone!UndoWrite(r)
        BY <3>3, <1>2 DEF Alone!UndoWrite, SharedInv, FilesTypes
      <3>4. CASE Alone!InsertMetadata(r)
        BY <3>4, <1>2, GotoStep DEF Alone!InsertMetadata, Goes, Creating, SharedInv, FilesTypes
      <3>5. CASE Alone!DropBinary(r)
        BY <3>5, <1>2 DEF Alone!DropBinary, SharedInv, FilesTypes
      <3>6. QED
        BY <3>1, <3>2, <3>3, <3>4, <3>5
    <2>6. QED
      BY <2>1, <2>2, <2>3, <2>4, <2>5
  <1>8. QED
    BY <1>1, <1>5, <1>6, <1>7 DEF SharedInv

LEMMA SharedBeginStep ==
    ASSUME SharedInv, NEW r \in Writer, NEW f \in File, Shared!BeginCreate(r, f) PROVE SharedInv'
  <1>1. FilesTypes' /\ (Begins(r, f) \/ req' = req)
    BY BeginTypes DEF SharedInv
  <1>2. UNCHANGED <<binary, row>>
    BY DEF Shared!BeginCreate, Shared!disk
  <1>3. CASE req' = req
    BY <1>1, <1>2, <1>3 DEF SharedInv, Accounted, Deletes, Deleting
  <1>4. CASE Begins(r, f)
    <2>1. /\ \A q \in Writer \ {r} : req'[q] = req[q]
          /\ req[r].pc = "idle" /\ req'[r].pc = "write"
      BY <1>4 DEF Begins
    <2>2. \A q \in Writer, g \in File : Deletes(q, g)' => row'[g] # "none"
      BY <1>2, <2>1, DeletesStay DEF Deletes, Deleting
    <2>3. ASSUME NEW g \in File PROVE Accounted(g)'
      BY <1>2, <2>1, Bystander DEF SharedInv
    <2>4. QED
      BY <1>1, <2>2, <2>3 DEF SharedInv
  <1>5. QED
    BY <1>1, <1>3, <1>4

LEMMA SharedDeleteStep ==
    ASSUME SharedInv, NEW r \in Writer,
           \/ \E f \in File : Alone!BeginDelete(r, f)
           \/ Alone!UnlinkBinary(r) \/ Alone!Tombstone(r)
    PROVE  SharedInv'
  <1>1. FilesTypes'
    BY DeleteTypes DEF SharedInv
  <1>2. CASE \E f \in File : Alone!BeginDelete(r, f)
    <2>1. PICK f \in File : Alone!BeginDelete(r, f)
      BY <1>2
    <2>2. /\ \A q \in Writer \ {r} : req'[q] = req[q]
          /\ req[r].pc = "idle" /\ req'[r].pc = "unlink" /\ req'[r].file = f
          /\ row[f] # "none" /\ UNCHANGED <<binary, row>>
      BY <2>1 DEF Alone!BeginDelete, Alone!Idle, Alone!disk, SharedInv, FilesTypes
    <2>3. \A q \in Writer, g \in File : Deletes(q, g)' => row'[g] # "none"
      BY <2>2, DeletesStay DEF Deletes
    <2>4. ASSUME NEW g \in File PROVE Accounted(g)'
      BY <2>2, Bystander DEF SharedInv
    <2>5. QED
      BY <1>1, <2>3, <2>4 DEF SharedInv
  <1>3. CASE Alone!UnlinkBinary(r)
    <2>1. PICK f \in File : f = req[r].file
      BY <1>3 DEF Alone!UnlinkBinary, SharedInv, FilesTypes
    <2>2. /\ \A q \in Writer \ {r} : req'[q] = req[q]
          /\ req[r].pc = "unlink" /\ req'[r].pc = "tombstone" /\ req'[r].file = f
      BY <1>3, <2>1, GotoStep DEF Alone!UnlinkBinary, SharedInv, Goes, Deleting
    <2>3. /\ binary'[f] = << >> /\ \A g \in File \ {f} : binary'[g] = binary[g]
          /\ UNCHANGED row
      BY <1>3, <2>1 DEF Alone!UnlinkBinary, SharedInv, FilesTypes
    <2>4. \A q \in Writer, g \in File : Deletes(q, g)' => row'[g] # "none"
      <3>1. row[f] # "none"
        BY <2>1, <2>2 DEF SharedInv, Deletes, Deleting
      <3>2. QED
        BY <2>2, <2>3, <3>1, DeletesStay DEF Deletes
    <2>5. ASSUME NEW g \in File PROVE Accounted(g)'
      <3>1. CASE g = f
        BY <2>3, <3>1 DEF Accounted
      <3>2. CASE g # f
        BY <2>2, <2>3, <3>2, Bystander DEF SharedInv
      <3>3. QED
        BY <3>1, <3>2
    <2>6. QED
      BY <1>1, <2>4, <2>5 DEF SharedInv
  <1>4. CASE Alone!Tombstone(r)
    <2>1. /\ \A q \in Writer \ {r} : req'[q] = req[q]
          /\ req[r].pc = "tombstone" /\ req'[r].pc = "idle"
      BY <1>4, EndStep DEF Alone!Tombstone, SharedInv, Ends, Alone!Idle
    <2>2. /\ UNCHANGED binary /\ req[r].file \in File
          /\ \A g \in File : row'[g] = row[g] \/ g = req[r].file
          /\ \A g \in File : row'[g] = "none" => row[g] = "none"
      BY <1>4 DEF Alone!Tombstone, Alone!disk, SharedInv, FilesTypes
    <2>3. \A q \in Writer, g \in File : Deletes(q, g)' => row'[g] # "none"
      BY <2>1, <2>2, DeletesStay DEF Deletes, Deleting
    <2>4. ASSUME NEW g \in File PROVE Accounted(g)'
      BY <2>1, <2>2, Bystander DEF SharedInv
    <2>5. QED
      BY <1>1, <2>3, <2>4 DEF SharedInv
  <1>5. QED
    BY <1>2, <1>3, <1>4

LEMMA SharedStep == ASSUME SharedInv, Shared!Next PROVE SharedInv'
  <1>1. FilesTypes
    BY DEF SharedInv
  <1>2. ASSUME NEW f \in File,
               \/ Shared!SendFrame(f) \/ Shared!LoseFrame(f) \/ Shared!FailUpload(f)
               \/ Shared!CancelUpload(f) \/ Shared!Restart
        PROVE  SharedInv'
    <2>1. Alone!SendFrame(f) \/ Alone!CancelUpload(f)
      BY <1>1, <1>2, SharedUploadIsAlone
    <2>2. FilesTypes' /\ UNCHANGED <<binary, row, req>>
      BY <1>1, <2>1, UploadTypes DEF Alone!SendFrame, Alone!CancelUpload, Alone!disk
    <2>3. QED
      BY <2>2 DEF SharedInv, Accounted, Deletes, Deleting
  <1>3. ASSUME NEW r \in Writer, NEW f \in File, Shared!BeginCreate(r, f) \/ Shared!BeginDelete(r, f)
        PROVE  SharedInv'
    BY <1>1, <1>3, SharedBeginStep, SharedDeleteStep, SharedRequestIsAlone
  <1>4. ASSUME NEW r \in Writer,
               \/ Shared!WriteTmp(r) \/ Shared!RenameTmp(r) \/ Shared!UndoWrite(r)
               \/ Shared!InsertMetadata(r) \/ Shared!DropBinary(r)
               \/ Shared!UnlinkBinary(r) \/ Shared!Tombstone(r)
        PROVE  SharedInv'
    BY <1>1, <1>4, SharedCreateStep, SharedDeleteStep, SharedRequestIsAlone
  <1>5. ~ Shared!Restart
    BY <1>1, NoFault DEF Shared!Restart, FilesTypes
  <1>6. QED
    BY <1>2, <1>3, <1>4, <1>5 DEF Shared!Next

-----------------------------------------------------------------------------
(* The theorems *)

LEMMA InitInv == Init => IInv
  <1> SUFFICES ASSUME Init PROVE IInv
    OBVIOUS
  <1>1. AdapterInv
    BY AdapterConstants
    DEF Init, Failing!Init, AdapterInv, AdapterTypes, Failing!Attempt, Failing!Settled
  <1>2. ASSUME part = "sound" PROVE SoundInv
    <2>1. Sound!Init
      BY <1>2 DEF Init
    <2>2. Sound!Idle \in LookupState /\ Sound!Idle.registered = FALSE
      BY DEF LookupState, Sound!Idle
    <2>3. QED
      BY <2>1, <2>2 DEF Sound!Init, SoundInv
  <1>3. ASSUME part = "faulty" PROVE FaultyInv
    BY <1>3 DEF Init, Faulty!Init, FaultyInv
  <1>4. Alone!Init
    BY DEF Init
  <1>5. FilesTypes
    <2>1. << >> \in Sent /\ Alone!Idle \in FileRequest /\ Alone!Idle.pc = "idle"
      BY SentGrows DEF FileRequest, Alone!Idle
    <2>2. QED
      BY <1>4, <2>1 DEF Alone!Init, FilesTypes, UploadState
  <1>6. \A r \in Writer, f \in File : ~ Creates(r, f) /\ ~ Deletes(r, f) /\ req[r].pc = "idle"
    BY <1>4 DEF Alone!Init, Alone!Idle, Creates, Deletes, Creating, Deleting
  <1>7. OneCreate /\ BinaryFirst /\ WholeFiles
    <2>1. \A r \in Writer : req[r].pc = "idle"
      BY <1>4 DEF Alone!Init, Alone!Idle
    <2>2. \A f \in File : /\ tmp[f] = << >> /\ binary[f] = << >> /\ row[f] = "none"
                         /\ Len(session[f]) = upload[f].next
      BY <1>4 DEF Alone!Init
    <2>3. QED
      BY <1>6, <2>1, <2>2 DEF OneCreate, BinaryFirst, WholeFiles
  <1>8. SharedInv
    BY <1>4, <1>5, <1>6 DEF Alone!Init, SharedInv, Accounted
  <1>9. QED
    BY <1>1, <1>2, <1>3, <1>5, <1>7, <1>8 DEF IInv, AloneInv

\* The machines leave each other as they are.
LEMMA Idles ==
    /\ AdapterInv /\ UNCHANGED adapter => AdapterInv'
    /\ SoundInv /\ UNCHANGED registry => SoundInv'
    /\ FaultyInv /\ UNCHANGED registry => FaultyInv'
    /\ AloneInv /\ UNCHANGED files => AloneInv'
    /\ SharedInv /\ UNCHANGED files => SharedInv'
  <1>1. AdapterInv /\ UNCHANGED adapter => AdapterInv'
    BY DEF adapter, AdapterInv, AdapterTypes, Failing!Attempt, Failing!Settled
  <1>2. /\ SoundInv /\ UNCHANGED registry => SoundInv'
        /\ FaultyInv /\ UNCHANGED registry => FaultyInv'
    BY DEF registry, SoundInv, FaultyInv
  <1>3. FilesTypes /\ UNCHANGED files => FilesTypes'
    BY DEF files, FilesTypes
  <1>4. AloneInv /\ UNCHANGED files => AloneInv'
    <2>1. OneCreate /\ UNCHANGED files => OneCreate'
      BY DEF files, OneCreate, Creates, Deletes, Creating, Deleting
    <2>2. BinaryFirst /\ UNCHANGED files => BinaryFirst'
      BY DEF files, BinaryFirst
    <2>3. WholeFiles /\ UNCHANGED files => WholeFiles'
      BY DEF files, WholeFiles, Whole, Creates, Creating
    <2>4. QED
      BY <1>3, <2>1, <2>2, <2>3 DEF AloneInv
  <1>5. SharedInv /\ UNCHANGED files => SharedInv'
    BY <1>3 DEF files, SharedInv, Accounted, Deletes, Deleting
  <1>6. QED
    BY <1>1, <1>2, <1>4, <1>5

LEMMA NextInv ==
    ASSUME IInv, [Next]_vars
    PROVE  IInv' /\ (disposed /\ socket = "none" => socket' = "none")
  <1>1. CASE UNCHANGED vars
    BY <1>1, Idles DEF vars, IInv, adapter
  <1>2. CASE FailingNext \/ RecoveringNext
    <2>1. UNCHANGED <<part, registry, files>>
      BY <1>2 DEF FailingNext, RecoveringNext, Rest
    <2>2. losses \in Nat /\ AdapterInv
      BY DEF IInv, AdapterInv, AdapterTypes
    <2>3. Failing!Next
      BY <1>2, <2>2, RecoveringFails DEF FailingNext, RecoveringNext
    <2>4. AdapterInv' /\ (disposed /\ socket = "none" => socket' = "none")
      BY <2>2, <2>3, AdapterStep
    <2>5. QED
      BY <2>1, <2>4, Idles DEF IInv
  <1>3. CASE SoundNext \/ FaultyNext
    <2>1. UNCHANGED <<part, adapter, files>>
      BY <1>3 DEF SoundNext, FaultyNext, Rest
    <2>2. UNCHANGED socket
      BY <2>1 DEF adapter
    <2>3. (part = "sound" => SoundInv') /\ (part = "faulty" => FaultyInv')
      BY <1>3, SoundStep, FaultyStep DEF SoundNext, FaultyNext, IInv
    <2>4. QED
      BY <2>1, <2>2, <2>3, Idles DEF IInv
  <1>4. CASE AloneNext \/ SharedNext
    <2>1. UNCHANGED <<part, adapter, registry>>
      BY <1>4 DEF AloneNext, SharedNext, Rest
    <2>2. UNCHANGED socket
      BY <2>1 DEF adapter
    <2>3. (part = "alone" => AloneInv') /\ (part = "shared" => SharedInv')
      BY <1>4, AloneStep, SharedStep DEF AloneNext, SharedNext, IInv
    <2>4. QED
      BY <2>1, <2>2, <2>3, Idles DEF IInv
  <1>5. QED
    BY <1>1, <1>2, <1>3, <1>4 DEF Next

LEMMA Inductive == Spec => []IInv
  <1>1. IInv /\ [Next]_vars => IInv'
    BY NextInv
  <1>2. QED
    BY InitInv, <1>1, PTL DEF Spec

\* An adapter that is not disposed of never gives up on its service: while it
\* has no socket, a close is to come, a timer is set or an attempt is at work.
THEOREM NeverGivesUpOnAService == Spec => []NeverGivesUp
  <1>1. IInv => NeverGivesUp
    BY DEF IInv, AdapterInv, NeverGivesUp, Failing!NeverGivesUp
  <1>2. QED
    BY Inductive, <1>1, PTL

\* An adapter that is disposed of opens no socket again, whoever calls it and
\* whatever timer was set.
THEOREM DisposedNeverOpens == Spec => DisposedStaysClosed
  <1>1. IInv /\ [Next]_vars =>
            [disposed /\ socket = "none" => socket' = "none"]_(Failing!vars)
    BY NextInv
  <1>2. QED
    BY Inductive, <1>1, PTL DEF Spec, DisposedStaysClosed, Failing!DisposedStaysClosed

\* Replacements of the table that overlap leave no adapter nobody disposes of,
\* and refuse no service that was registered when a request asked for it.
THEOREM TheTableIsWhatIsLive == Spec => []TableIsWhatIsLive
  <1>1. IInv => TableIsWhatIsLive
    BY DEF IInv, SoundInv, FaultyInv, TableIsWhatIsLive, Sound!TableIsWhatIsLive,
           Sound!RegisteredIsReached, Faulty!TableIsWhatIsLive
  <1>2. QED
    BY Inductive, <1>1, PTL

\* A live row has its binary unless a delete has removed it, whatever failed;
\* and where nothing fails a binary nobody is working on has a live row.
THEOREM ARowAndItsBinaryAgree == Spec => []RowsAndBinariesAgree
  <1>1. AloneInv => Alone!LiveFileHasItsBinary
    BY DEF AloneInv, BinaryFirst, Alone!LiveFileHasItsBinary
  <1>2. SharedInv => Shared!NoOrphanBinary
    BY DEF SharedInv, Accounted, Shared!NoOrphanBinary
  <1>3. IInv => RowsAndBinariesAgree
    BY <1>1, <1>2 DEF IInv, RowsAndBinariesAgree
  <1>4. QED
    BY Inductive, <1>3, PTL

\* A stored binary is a beginning of its file, and the whole of it unless a chunk
\* was lost on the way or the file exceeds the limit.
THEOREM WhatIsStoredWasSent == Spec => []StoredAsSent
  <1>1. ASSUME AloneInv, NEW f \in File
        PROVE  /\ \A i \in DOMAIN binary[f] : binary[f][i] = i - 1
               /\ binary[f] # << >> /\ f \notin shortened /\ Size[f] <= MaxChunks
                      => Len(binary[f]) = Size[f]
    <2>1. binary[f] \in Sent
      BY <1>1 DEF AloneInv, FilesTypes
    <2>2. DOMAIN binary[f] = 1 .. Len(binary[f])
      BY <2>1 DEF Sent
    <2>3. \A i \in 1 .. Len(binary[f]) : binary[f][i] = i - 1
      BY <2>1 DEF Sent
    <2>4. QED
      BY <1>1, <2>2, <2>3 DEF AloneInv, WholeFiles, Whole
  <1>2. IInv => StoredAsSent
    BY <1>1 DEF IInv, StoredAsSent, Alone!StoredAsSent
  <1>3. QED
    BY Inductive, <1>2, PTL

================================================================================
