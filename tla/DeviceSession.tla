---------------------------- MODULE DeviceSession ----------------------------
(***************************************************************************)
(* ios/evy/Data/EVYAPIManager.swift and API/EVYWebsocket.swift: the        *)
(* session an iOS device keeps with the api.                               *)
(*                                                                         *)
(* Two actors: the manager, which logs in, subscribes and reconnects, and  *)
(* the websocket, which owns the socket and the requests that wait for an  *)
(* answer.  An actor runs one thing at a time but is re-entrant: at every  *)
(* await, other callers go on, so the handshake of one caller is cut into  *)
(* the steps below and mixes with those of others, with the background     *)
(* reconnection and with the loss of the socket.                           *)
(*                                                                         *)
(* Sockets are numbered in the order they are opened; 0 is no socket.  The *)
(* disconnect handler is installed before the first of them is opened.     *)
(* Answers cannot outlive their socket: receiving and losing it are        *)
(* reported by one loop.                                                   *)
(***************************************************************************)
EXTENDS Naturals

CONSTANTS
    Caller,         \* concurrent requests of the app
    Reconnector,    \* background reconnection tasks, those cancelled included
    None,           \* no reconnection task
    MaxSockets      \* bound on the sockets opened; the last one is never lost

ASSUME SessionAssumption ==
    /\ MaxSockets \in Nat \ {0}
    /\ None \notin Reconnector
    /\ Caller \cap Reconnector = {}

VARIABLES
    proc,           \* [Process -> where it is, and what it waits for]
    authed,         \* EVYAPIManager.authed
    reconnectTask,  \* EVYAPIManager.reconnectTask
    cancelled,      \* the reconnection tasks that were cancelled
    task,           \* EVYWebsocket.task: the current socket
    opened,         \* the number of sockets opened so far
    alive,          \* the sockets that are open
    loggedIn,       \* the sockets the api has accepted a login on
    callbacks,      \* [Socket -> the reports of its loss still to come]
    notices         \* disconnect handlers started and not yet run

managerVars == <<authed, reconnectTask, cancelled>>
socketVars  == <<task, opened, alive, loggedIn, callbacks, notices>>
vars == <<proc, authed, reconnectTask, cancelled, task, opened, alive, loggedIn,
          callbacks, notices>>

Process == Caller \cup Reconnector
Socket  == 1 .. MaxSockets

Place == {"idle", "sleep", "check", "isConnected", "reset", "connect", "login", "subscribe",
          "rpcOn", "valid", "request", "answer"}

\* The places where a process waits in pendingRequests.
Waiting == {"login", "rpcOn", "answer"}

Idle == [pc |-> "idle", socket |-> 0, reply |-> "none", connected |-> FALSE]

TypeOK ==
    /\ proc \in [Process -> [pc : Place, socket : 0 .. MaxSockets,
                             reply : {"none", "true", "false", "error"}, connected : BOOLEAN]]
    /\ authed \in BOOLEAN
    /\ reconnectTask \in Reconnector \cup {None}
    /\ cancelled \subseteq Reconnector
    /\ opened \in 0 .. MaxSockets
    /\ task \in 0 .. opened
    /\ alive \subseteq Socket /\ loggedIn \subseteq Socket
    /\ callbacks \in [Socket -> 0 .. 2]
    /\ notices \in 0 .. MaxSockets

Init ==
    /\ proc = [p \in Process |-> Idle]
    /\ authed = FALSE /\ reconnectTask = None /\ cancelled = {}
    /\ task = 0 /\ opened = 0 /\ alive = {} /\ loggedIn = {}
    /\ callbacks = [s \in Socket |-> 0] /\ notices = 0

At(p, place) == proc[p].pc = place

\* What a process finds when its attempt at a session throws: a caller hands
\* the error on, a reconnection sleeps before the next attempt, or ends if it
\* was cancelled.
AfterFailure(p) ==
    IF p \in Caller \/ p \in cancelled THEN Idle ELSE [Idle EXCEPT !.pc = "sleep"]

\* What it does with a session: a caller sends its request, a reconnection
\* returns `authed`.
AfterSession(p) ==
    [Idle EXCEPT !.pc = IF p \in Caller THEN "request" ELSE "valid"]

\* EVYWebsocket.fetch: the request waits on socket s.
Wait(p, place, s) ==
    proc' = [proc EXCEPT ![p].pc = place, ![p].socket = s, ![p].reply = "none"]

\* fetch on the current socket, which throws when there is none.
Fetch(p, place) ==
    IF task # 0
    THEN Wait(p, place, task)
    ELSE proc' = [proc EXCEPT ![p] = AfterFailure(p)]

-----------------------------------------------------------------------------
(* The manager *)

\* fetch, uploadFile, getFile and deleteFile all start with validateAuth.
Call(c) ==
    /\ At(c, "idle")
    /\ proc' = [proc EXCEPT ![c].pc = "check"]
    /\ UNCHANGED <<managerVars, socketVars>>

\* The reconnection has slept for its delay.
Wake(r) ==
    /\ At(r, "sleep")
    /\ proc' = [proc EXCEPT ![r] = IF r \in cancelled THEN Idle ELSE [Idle EXCEPT !.pc = "check"]]
    /\ UNCHANGED <<managerVars, socketVars>>

\* `if authed, await rpcWS.isConnected { return }`: the manager reads the one,
CheckAuthed(p) ==
    /\ At(p, "check")
    /\ proc' = [proc EXCEPT ![p].pc = IF authed THEN "isConnected" ELSE "connect"]
    /\ UNCHANGED <<managerVars, socketVars>>

\* and the websocket the other.
CheckConnected(p) ==
    /\ At(p, "isConnected")
    /\ proc' = [proc EXCEPT ![p] = IF task # 0 THEN AfterSession(p)
                                   ELSE [proc[p] EXCEPT !.pc = "reset"]]
    /\ UNCHANGED <<managerVars, socketVars>>

ResetAuthed(p) ==
    /\ At(p, "reset")
    /\ authed' = FALSE
    /\ proc' = [proc EXCEPT ![p].pc = "connect"]
    /\ UNCHANGED <<reconnectTask, cancelled, socketVars>>

\* connect: a socket is opened if there is none, and the login sent on it.
Connect(p) ==
    /\ At(p, "connect")
    /\ IF task # 0
       THEN Wait(p, "login", task) /\ UNCHANGED <<task, opened, alive>>
       ELSE /\ opened < MaxSockets
            /\ opened' = opened + 1
            /\ task' = opened'
            /\ alive' = alive \cup {opened'}
            /\ Wait(p, "login", opened')
    /\ UNCHANGED <<managerVars, loggedIn, callbacks, notices>>

\* The answer to the login, which may be a refusal, reaches the manager.
LoggedIn(p) ==
    /\ At(p, "login") /\ proc[p].reply # "none"
    /\ proc' = [proc EXCEPT ![p] = IF proc[p].reply = "error" THEN AfterFailure(p)
                                   ELSE [Idle EXCEPT !.pc = "subscribe",
                                                     !.connected = (proc[p].reply = "true")]]
    /\ UNCHANGED <<managerVars, socketVars>>

\* subscribe(event: "data_changed"), on whatever socket is current by now.
Subscribe(p) ==
    /\ At(p, "subscribe")
    /\ Fetch(p, "rpcOn")
    /\ UNCHANGED <<managerVars, socketVars>>

\* Mutant: the reconnection is cancelled but still taken for a running one.
EndHandshakeKeepingTask(p) ==
    /\ At(p, "rpcOn") /\ proc[p].reply # "none"
    /\ IF proc[p].reply # "true"
       THEN proc' = [proc EXCEPT ![p] = AfterFailure(p)] /\ UNCHANGED managerVars
       ELSE /\ proc' = [proc EXCEPT ![p] = AfterSession(p)]
            /\ authed' = proc[p].connected
            /\ cancelled' = cancelled \cup ({reconnectTask} \ {None})
            /\ UNCHANGED reconnectTask
    /\ UNCHANGED socketVars

\* The end of validateAuth: the session is the one of this handshake, and a
\* reconnection is no longer needed.
EndHandshake(p) ==
    /\ At(p, "rpcOn") /\ proc[p].reply # "none"
    /\ IF proc[p].reply # "true"
       THEN proc' = [proc EXCEPT ![p] = AfterFailure(p)] /\ UNCHANGED managerVars
       ELSE /\ proc' = [proc EXCEPT ![p] = AfterSession(p)]
            /\ authed' = proc[p].connected
            /\ IF proc[p].connected
               THEN cancelled' = cancelled \cup ({reconnectTask} \ {None}) /\ reconnectTask' = None
               ELSE UNCHANGED <<cancelled, reconnectTask>>
    /\ UNCHANGED socketVars

\* attemptReconnect returns `authed`: the task ends, or sleeps again.
EndAttempt(r) ==
    /\ At(r, "valid")
    /\ proc' = [proc EXCEPT ![r] = IF authed THEN Idle ELSE AfterFailure(r)]
    /\ UNCHANGED <<managerVars, socketVars>>

\* The caller's own request.
Request(c) ==
    /\ At(c, "request")
    /\ Fetch(c, "answer")
    /\ UNCHANGED <<managerVars, socketVars>>

EndCall(c) ==
    /\ At(c, "answer") /\ proc[c].reply # "none"
    /\ proc' = [proc EXCEPT ![c] = Idle]
    /\ UNCHANGED <<managerVars, socketVars>>

\* Mutant: a drop schedules a reconnection even when one is scheduled.
HandleTransportDisconnectedTwice ==
    /\ notices > 0
    /\ notices' = notices - 1
    /\ authed' = FALSE
    /\ \E r \in Reconnector :
           /\ At(r, "idle")
           /\ reconnectTask' = r
           /\ cancelled' = cancelled \ {r}
           /\ proc' = [proc EXCEPT ![r].pc = "sleep"]
    /\ UNCHANGED <<task, opened, alive, loggedIn, callbacks>>

\* The disconnect handler: a reconnection is scheduled unless there is one.
HandleTransportDisconnected ==
    /\ notices > 0
    /\ notices' = notices - 1
    /\ authed' = FALSE
    /\ \/ /\ reconnectTask = None
          /\ \E r \in Reconnector :
                 /\ At(r, "idle")
                 /\ reconnectTask' = r
                 /\ cancelled' = cancelled \ {r}
                 /\ proc' = [proc EXCEPT ![r].pc = "sleep"]
       \/ reconnectTask # None /\ UNCHANGED <<reconnectTask, cancelled, proc>>
    /\ UNCHANGED <<task, opened, alive, loggedIn, callbacks>>

-----------------------------------------------------------------------------
(* The websocket, the network and the api *)

\* The api answers a request, and the receive loop resumes who waits for it.
Answer(p, reply) ==
    /\ proc[p].pc \in Waiting /\ proc[p].reply = "none"
    /\ proc[p].socket \in alive
    /\ reply = "false" => At(p, "login")
    /\ proc' = [proc EXCEPT ![p].reply = reply, ![p].socket = 0]
    /\ loggedIn' = IF At(p, "login") /\ reply = "true" THEN loggedIn \cup {proc[p].socket}
                   ELSE loggedIn
    /\ UNCHANGED <<managerVars, task, opened, alive, callbacks, notices>>

\* The message of a request cannot be sent: removePendingRequest.
FailToSend(p) ==
    /\ proc[p].pc \in Waiting /\ proc[p].reply = "none"
    /\ proc[p].socket \notin alive
    /\ proc' = [proc EXCEPT ![p].reply = "error", ![p].socket = 0]
    /\ UNCHANGED <<managerVars, socketVars>>

\* A socket is lost.  The receive loop reports it, and the session's delegate
\* may too.
LoseSocket(s) ==
    /\ s \in alive /\ s < MaxSockets
    /\ alive' = alive \ {s}
    /\ \E n \in 1 .. 2 : callbacks' = [callbacks EXCEPT ![s] = n]
    /\ UNCHANGED <<proc, managerVars, task, opened, loggedIn, notices>>

\* The requests that wait, resumed with an error.
Interrupted ==
    [p \in Process |-> IF proc[p].pc \in Waiting /\ proc[p].reply = "none"
                       THEN [proc[p] EXCEPT !.reply = "error", !.socket = 0] ELSE proc[p]]

\* Mutant: whatever socket is current is torn down.
HandleDisconnectOfAny(s) ==
    /\ callbacks[s] > 0
    /\ callbacks' = [callbacks EXCEPT ![s] = @ - 1]
    /\ IF task # 0
       THEN /\ task' = 0 /\ alive' = alive \ {task}
            /\ proc' = Interrupted
            /\ notices' = notices + 1
       ELSE UNCHANGED <<task, proc, notices, alive>>
    /\ UNCHANGED <<managerVars, opened, loggedIn>>

\* Mutant: a report of any socket starts the disconnect handler.
HandleDisconnectReportingAll(s) ==
    /\ callbacks[s] > 0
    /\ callbacks' = [callbacks EXCEPT ![s] = @ - 1]
    /\ notices' = notices + 1
    /\ IF task = s THEN task' = 0 /\ proc' = Interrupted ELSE UNCHANGED <<task, proc>>
    /\ UNCHANGED <<managerVars, opened, alive, loggedIn>>

\* Mutant: the requests that wait are forgotten.
HandleDisconnectQuietly(s) ==
    /\ callbacks[s] > 0
    /\ callbacks' = [callbacks EXCEPT ![s] = @ - 1]
    /\ IF task = s
       THEN task' = 0 /\ notices' = notices + 1 /\ UNCHANGED proc
       ELSE UNCHANGED <<task, proc, notices>>
    /\ UNCHANGED <<managerVars, opened, alive, loggedIn>>

\* handleDisconnect: the current socket is torn down once, by a report of its
\* own; those of an earlier socket change nothing.
HandleDisconnect(s) ==
    /\ callbacks[s] > 0
    /\ callbacks' = [callbacks EXCEPT ![s] = @ - 1]
    /\ IF task = s
       THEN task' = 0 /\ proc' = Interrupted /\ notices' = notices + 1
       ELSE UNCHANGED <<task, proc, notices>>
    /\ UNCHANGED <<managerVars, opened, alive, loggedIn>>

-----------------------------------------------------------------------------
Handshake(p) ==
    \/ CheckAuthed(p) \/ CheckConnected(p) \/ ResetAuthed(p) \/ Connect(p)
    \/ LoggedIn(p) \/ Subscribe(p) \/ EndHandshake(p)

Next ==
    \/ \E p \in Process : Handshake(p) \/ FailToSend(p)
    \/ \E p \in Process, reply \in {"true", "false", "error"} : Answer(p, reply)
    \/ \E c \in Caller : Call(c) \/ Request(c) \/ EndCall(c)
    \/ \E r \in Reconnector : Wake(r) \/ EndAttempt(r)
    \/ HandleTransportDisconnected
    \/ \E s \in Socket : LoseSocket(s) \/ HandleDisconnect(s)

Spec == Init /\ [][Next]_vars

\* The executors run what is ready, the api answers what it receives on an
\* open socket, and the loss of a socket is reported.
Fairness ==
    /\ \A p \in Process :
           /\ WF_vars(Handshake(p))
           /\ WF_vars(\E reply \in {"true", "false", "error"} : Answer(p, reply))
    /\ \A c \in Caller : WF_vars(Request(c)) /\ WF_vars(EndCall(c))
    /\ \A r \in Reconnector : WF_vars(Wake(r)) /\ WF_vars(EndAttempt(r))
    /\ WF_vars(HandleTransportDisconnected)
    /\ \A s \in Socket : WF_vars(HandleDisconnect(s))

FairSpec == Spec /\ Fairness

-----------------------------------------------------------------------------
(* Properties *)

\* A request waits for an answer on the current socket only: one that waited
\* on a socket that was torn down, whose continuation nobody would resume,
\* would keep its caller for ever.
WaitsOnTheCurrentSocket ==
    \A p \in Process : proc[p].pc \in Waiting /\ proc[p].reply = "none" => proc[p].socket = task

\* The reconnection the manager knows of is at work and not cancelled, no
\* other that was not cancelled is, and none is beside a session in use:
\* scheduleReconnect neither waits for a task that has ended nor lets two run
\* at once, whoever completes a handshake cancels the reconnection, and a drop
\* that schedules one first withdraws the session.
OneReconnection ==
    /\ reconnectTask # None => ~ At(reconnectTask, "idle") /\ reconnectTask \notin cancelled
    /\ \A r \in Reconnector \ cancelled : ~ At(r, "idle") => r = reconnectTask
    /\ authed => reconnectTask = None

\* A late report of a socket that was already replaced never tears down its
\* successor (the comment of handleDisconnect).
OnlyALostSocketIsTornDown == [][task # 0 /\ task' = 0 => task \notin alive]_vars

\* Every request of the app ends, with an answer or an error, whatever
\* happens to the sockets it waits on.
EveryCallEnds == \A c \in Caller : ~ At(c, "idle") ~> At(c, "idle")

\* Nothing is under way and the last drop has been handled.
Quiet ==
    /\ \A p \in Process : At(p, "idle")
    /\ notices = 0 /\ \A s \in Socket : callbacks[s] = 0

\* What the comment of scheduleReconnect promises: after a drop the session
\* is re-established in the background, without waiting for the user.
PushesResume == Quiet /\ opened > 0 => task # 0

\* What the comment of validateAuth promises: a session that counts as
\* authenticated is one the api has accepted a login on.
AuthedIsLoggedIn == authed /\ task # 0 => task \in loggedIn

=============================================================================
