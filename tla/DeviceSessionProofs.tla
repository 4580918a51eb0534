------------------------- MODULE DeviceSessionProofs -------------------------
(***************************************************************************)
(* The session of a device, for any number of callers, reconnections and   *)
(* sockets: who waits for an answer waits on the current socket, at most   *)
(* one reconnection is at work, and only a lost socket is torn down.       *)
(*                                                                         *)
(* The argument: a socket is reported lost only once it is, and is torn    *)
(* down at its first report, which resumes everyone who waits on it; a     *)
(* reconnection is forgotten only by the step that cancels it.             *)
(***************************************************************************)
EXTENDS DeviceSession, TLAPS

\* Where the two kinds of processes may be.
PlacesInv ==
    \A p \in Process :
        /\ proc[p].pc \in {"request", "answer"} => p \in Caller
        /\ proc[p].pc \in {"sleep", "valid"} => p \in Reconnector

\* Whoever waits for an answer waits on a socket, the current one.
WaitsInv ==
    \A p \in Process :
        proc[p].pc \in Waiting /\ proc[p].reply = "none" => proc[p].socket = task /\ task # 0

\* A socket is reported lost only once it is, and every notice was a socket.
SocketsInv ==
    /\ alive \subseteq 1 .. opened
    /\ \A s \in Socket : callbacks[s] > 0 => s \notin alive /\ s <= opened
    /\ notices + (IF task = 0 THEN 0 ELSE 1) <= opened

IInv == TypeOK /\ PlacesInv /\ WaitsInv /\ SocketsInv /\ OneReconnection

State == [pc : Place, socket : 0 .. MaxSockets,
          reply : {"none", "true", "false", "error"}, connected : BOOLEAN]

\* A process that waits for nothing.
LEMMA NoSocket == 0 \in 0 .. MaxSockets
  BY SessionAssumption

LEMMA IdleAt == \A place \in Place : [Idle EXCEPT !.pc = place] \in State
  BY NoSocket DEF Idle, State, Place

LEMMA IdleIsState == Idle \in State
  BY NoSocket DEF Idle, State, Place

LEMMA InitInv == Init => IInv
  <1> SUFFICES ASSUME Init PROVE IInv
    OBVIOUS
  <1>1. TypeOK
    <2>1. proc \in [Process -> State]
      BY IdleIsState DEF Init
    <2>2. authed \in BOOLEAN
      BY Zenon DEF Init
    <2>3. callbacks \in [Socket -> 0 .. 2]
      BY DEF Init
    <2>4. QED
      BY <2>1, <2>2, <2>3, SessionAssumption DEF Init, TypeOK, State
  <1>2. \A p \in Process : proc[p] = Idle
    BY DEF Init
  <1>3. PlacesInv /\ WaitsInv
    BY <1>2 DEF PlacesInv, WaitsInv, Waiting, Idle
  <1>4. SocketsInv
    BY DEF Init, SocketsInv, Socket
  <1>5. OneReconnection
    BY <1>2 DEF Init, OneReconnection, At, Idle, Process
  <1>6. QED
    BY <1>1, <1>3, <1>4, <1>5 DEF IInv

-----------------------------------------------------------------------------
(* Steps of one process *)

\* Where process p may be.
Fits(p, st) ==
    /\ st.pc \in {"request", "answer"} => p \in Caller
    /\ st.pc \in {"sleep", "valid"} => p \in Reconnector
    /\ st.pc \in Waiting /\ st.reply = "none" => st.socket = task /\ task # 0
    /\ p \in Reconnector /\ p = reconnectTask => st.pc # "idle"
    /\ p \in Reconnector \ cancelled /\ st.pc # "idle" => p = reconnectTask

\* Where it is, it may be.
LEMMA EachFits == ASSUME IInv, NEW p \in Process PROVE proc[p] \in State /\ Fits(p, proc[p])
  BY SessionAssumption DEF IInv, TypeOK, PlacesInv, WaitsInv, OneReconnection, State, Fits, At

\* One process moves to where it may be; the sockets are what they were.
LEMMA OneMoves ==
    ASSUME IInv, NEW p \in Process, NEW st \in State, Fits(p, st),
           proc' = [proc EXCEPT ![p] = st],
           UNCHANGED <<reconnectTask, cancelled, task, opened, alive, callbacks, notices>>,
           loggedIn' \subseteq Socket,
           authed' \in BOOLEAN, authed' => reconnectTask = None
    PROVE  IInv'
  <1>1. /\ proc \in [Process -> State]
        /\ proc'[p] = st /\ \A q \in Process \ {p} : proc'[q] = proc[q]
    BY DEF IInv, TypeOK, State
  <1>2. TypeOK'
    BY <1>1 DEF IInv, TypeOK, State
  <1>3. \A q \in Process : Fits(q, proc[q])'
    BY <1>1, EachFits DEF Fits
  <1>4. PlacesInv' /\ WaitsInv'
    BY <1>3 DEF PlacesInv, WaitsInv, Fits
  <1>5. OneReconnection'
    <2>1. reconnectTask' # None => reconnectTask' \in Reconnector /\ reconnectTask' \notin cancelled'
      BY DEF IInv, TypeOK, OneReconnection
    <2>2. Reconnector \subseteq Process
      BY DEF Process
    <2>3. QED
      BY <1>3, <2>1, <2>2 DEF Fits, OneReconnection, At
  <1>6. SocketsInv'
    BY DEF IInv, SocketsInv
  <1>7. QED
    BY <1>2, <1>4, <1>5, <1>6 DEF IInv

\* A failed attempt leaves its process where it may be.
LEMMA FailureFits ==
    ASSUME IInv, NEW p \in Process, ~ At(p, "idle")
    PROVE  AfterFailure(p) \in State /\ Fits(p, AfterFailure(p))
  <1>1. AfterFailure(p) \in State
    BY IdleAt, IdleIsState DEF AfterFailure, Place
  <1>2. Fits(p, AfterFailure(p))
    BY SessionAssumption, EachFits
    DEF AfterFailure, Idle, Fits, Waiting, Process, At, IInv, OneReconnection
  <1>3. QED
    BY <1>1, <1>2

LEMMA SessionFits ==
    ASSUME IInv, NEW p \in Process, ~ At(p, "idle")
    PROVE  AfterSession(p) \in State /\ Fits(p, AfterSession(p))
  <1>1. AfterSession(p) \in State
    BY IdleAt DEF AfterSession, Place
  <1>2. Fits(p, AfterSession(p))
    BY EachFits DEF AfterSession, Idle, Fits, Waiting, Process, At
  <1>3. QED
    BY <1>1, <1>2

\* A request is sent on the current socket, or fails.
LEMMA FetchFits ==
    ASSUME IInv, NEW p \in Process, ~ At(p, "idle"), NEW place \in Waiting, Fetch(p, place),
           place = "answer" => p \in Caller
    PROVE  \E st \in State : Fits(p, st) /\ proc' = [proc EXCEPT ![p] = st]
  <1>1. CASE task # 0
    <2> DEFINE st == [proc[p] EXCEPT !.pc = place, !.socket = task, !.reply = "none"]
    <2>1. proc' = [proc EXCEPT ![p] = st]
      BY <1>1 DEF Fetch, Wait, IInv, TypeOK
    <2>2. st \in State
      <3>1. proc[p] \in State /\ place \in Place /\ task \in 0 .. MaxSockets
        BY EachFits, SessionAssumption DEF Place, Waiting, IInv, TypeOK
      <3>2. QED
        BY <3>1 DEF State
    <2>3. Fits(p, st)
      BY <1>1, EachFits DEF Fits, State, Waiting, At
    <2>4. QED
      BY <2>1, <2>2, <2>3
  <1>2. CASE task = 0
    BY <1>2, FailureFits DEF Fetch
  <1>3. QED
    BY <1>1, <1>2

-----------------------------------------------------------------------------
(* The steps of the manager *)

\* A socket that is opened is the current one, and nobody waits on another.
LEMMA ConnectStep == ASSUME IInv, NEW p \in Process, Connect(p) PROVE IInv'
  <1> DEFINE Logging(s) == [proc[p] EXCEPT !.pc = "login", !.socket = s, !.reply = "none"]
  <1>1. \A s \in 0 .. MaxSockets : Logging(s) \in State
    BY EachFits DEF State, Place
  <1>2. CASE task # 0
    <2>1. Logging(task) \in State
      <3>1. task \in 0 .. MaxSockets
        BY SessionAssumption DEF IInv, TypeOK
      <3> HIDE DEF Logging
      <3>2. QED
        BY <1>1, <3>1
    <2>2. Fits(p, Logging(task)) /\ proc' = [proc EXCEPT ![p] = Logging(task)]
      BY <1>2, EachFits DEF Connect, Wait, Fits, State, Waiting, At, IInv, TypeOK
    <2>3. QED
      BY <1>2, <2>1, <2>2, OneMoves
      DEF Connect, managerVars, IInv, TypeOK, OneReconnection
  <1>3. CASE task = 0
    <2>1. /\ opened' = opened + 1 /\ task' = opened' /\ opened' \in 1 .. MaxSockets
          /\ alive' = alive \cup {opened'}
          /\ UNCHANGED <<authed, reconnectTask, cancelled, loggedIn, callbacks, notices>>
      BY <1>3, SessionAssumption DEF Connect, managerVars, IInv, TypeOK
    <2>2. Logging(opened') \in State /\ proc' = [proc EXCEPT ![p] = Logging(opened')]
      <3>1. proc' = [proc EXCEPT ![p] = Logging(opened')]
        BY <1>3 DEF Connect, Wait, IInv, TypeOK
      <3>2. opened' \in 0 .. MaxSockets
        BY <2>1, SessionAssumption
      <3> HIDE DEF Logging
      <3>3. QED
        BY <1>1, <3>1, <3>2
    <2> HIDE DEF Logging
    <2>3. /\ proc \in [Process -> State]
          /\ proc'[p] = Logging(opened') /\ \A q \in Process \ {p} : proc'[q] = proc[q]
      BY <2>2 DEF IInv, TypeOK, State
    <2>4. /\ Logging(opened').pc = "login" /\ Logging(opened').socket = opened'
          /\ At(p, "connect")
      BY EachFits, <1>3 DEF Logging, State, Connect
    <2>5. TypeOK'
      <3>1. proc' \in [Process -> State]
        BY <2>2, <2>3
      <3>2. QED
        BY <2>1, <3>1, SessionAssumption DEF IInv, TypeOK, State, Socket
    <2>6. PlacesInv'
      BY <2>3, <2>4 DEF PlacesInv, IInv
    <2>7. WaitsInv'
      BY <1>3, <2>1, <2>3, <2>4 DEF WaitsInv, IInv
    <2>8. SocketsInv'
      BY <1>3, <2>1, SessionAssumption DEF SocketsInv, IInv, TypeOK, Socket
    <2>9. OneReconnection'
      BY <2>1, <2>3, <2>4 DEF OneReconnection, IInv, At, TypeOK, Process
    <2>10. QED
      BY <2>5, <2>6, <2>7, <2>8, <2>9 DEF IInv
  <1>4. QED
    BY <1>2, <1>3

\* A session that is established cancels the reconnection, which may be the
\* process itself.
LEMMA EndHandshakeStep == ASSUME IInv, NEW p \in Process, EndHandshake(p) PROVE IInv'
  <1>1. ~ At(p, "idle") /\ UNCHANGED socketVars
    BY DEF EndHandshake, At
  <1>2. CASE proc[p].reply # "true"
    BY <1>1, <1>2, FailureFits, OneMoves
    DEF EndHandshake, managerVars, socketVars, IInv, TypeOK, OneReconnection
  <1>3. CASE proc[p].reply = "true" /\ ~ proc[p].connected
    BY <1>1, <1>3, SessionFits, OneMoves DEF EndHandshake, socketVars, IInv, TypeOK
  <1>4. CASE proc[p].reply = "true" /\ proc[p].connected
    <2>1. /\ proc' = [proc EXCEPT ![p] = AfterSession(p)]
          /\ authed' = proc[p].connected
          /\ cancelled' = cancelled \cup ({reconnectTask} \ {None}) /\ reconnectTask' = None
      BY <1>4 DEF EndHandshake
    <2>2. AfterSession(p) \in State /\ Fits(p, AfterSession(p))
      BY <1>1, SessionFits
    <2>3. /\ proc \in [Process -> State]
          /\ proc'[p] = AfterSession(p) /\ \A q \in Process \ {p} : proc'[q] = proc[q]
      BY <2>1 DEF IInv, TypeOK, State
    <2>4. TypeOK'
      <3>1. proc' \in [Process -> State] /\ authed' \in BOOLEAN
        BY <2>1, <2>2, <2>3, EachFits DEF State
      <3>2. QED
        BY <1>1, <2>1, <3>1 DEF IInv, TypeOK, State, socketVars
    <2>5. PlacesInv' /\ WaitsInv'
      BY <1>1, <2>2, <2>3 DEF PlacesInv, WaitsInv, IInv, Fits, socketVars
    <2>6. SocketsInv'
      BY <1>1 DEF SocketsInv, IInv, socketVars
    <2>7. OneReconnection'
      BY <1>1, <2>1, <2>3 DEF OneReconnection, IInv, At, TypeOK
    <2>8. QED
      BY <2>4, <2>5, <2>6, <2>7 DEF IInv
  <1>5. QED
    BY <1>2, <1>3, <1>4

LEMMA HandshakeStep == ASSUME IInv, NEW p \in Process, Handshake(p) PROVE IInv'
  <1>1. CASE CheckAuthed(p)
    <2> DEFINE st == [proc[p] EXCEPT !.pc = IF authed THEN "isConnected" ELSE "connect"]
    <2>1. st \in State
      BY EachFits DEF State, Place
    <2>2. Fits(p, st) /\ proc' = [proc EXCEPT ![p] = st]
      BY <1>1, EachFits DEF CheckAuthed, Fits, State, Waiting, At, IInv, TypeOK
    <2>3. QED
      BY <1>1, <2>1, <2>2, OneMoves
      DEF CheckAuthed, managerVars, socketVars, IInv, TypeOK, OneReconnection
  <1>2. CASE CheckConnected(p)
    <2>1. ~ At(p, "idle")
      BY <1>2 DEF CheckConnected, At
    <2>2. \E st \in State : Fits(p, st) /\ proc' = [proc EXCEPT ![p] = st]
      <3>1. CASE task # 0
        BY <1>2, <2>1, <3>1, SessionFits DEF CheckConnected
      <3>2. CASE task = 0
        <4> DEFINE st == [proc[p] EXCEPT !.pc = "reset"]
        <4>1. st \in State
          BY EachFits DEF State, Place
        <4>2. Fits(p, st) /\ proc' = [proc EXCEPT ![p] = st]
          BY <1>2, <3>2, EachFits DEF CheckConnected, Fits, State, Waiting, At
        <4>3. QED
          BY <4>1, <4>2
      <3>3. QED
        BY <3>1, <3>2
    <2>3. QED
      BY <1>2, <2>2, OneMoves
      DEF CheckConnected, managerVars, socketVars, IInv, TypeOK, OneReconnection
  <1>3. CASE ResetAuthed(p)
    <2> DEFINE st == [proc[p] EXCEPT !.pc = "connect"]
    <2>1. st \in State
      BY EachFits DEF State, Place
    <2>2. Fits(p, st) /\ proc' = [proc EXCEPT ![p] = st]
      BY <1>3, EachFits DEF ResetAuthed, Fits, State, Waiting, At, IInv, TypeOK
    <2>3. QED
      BY <1>3, <2>1, <2>2, OneMoves DEF ResetAuthed, socketVars, IInv, TypeOK
  <1>4. CASE Connect(p)
    BY <1>4, ConnectStep
  <1>5. CASE LoggedIn(p)
    <2>1. ~ At(p, "idle")
      BY <1>5 DEF LoggedIn, At
    <2>2. \E st \in State : Fits(p, st) /\ proc' = [proc EXCEPT ![p] = st]
      <3>1. CASE proc[p].reply = "error"
        BY <1>5, <2>1, <3>1, FailureFits DEF LoggedIn
      <3>2. CASE proc[p].reply # "error"
        <4> DEFINE st == [Idle EXCEPT !.pc = "subscribe", !.connected = (proc[p].reply = "true")]
        <4>1. st \in State
          BY NoSocket DEF State, Idle, Place
        <4>2. Fits(p, st) /\ proc' = [proc EXCEPT ![p] = st]
          BY <1>5, <3>2, EachFits DEF LoggedIn, Fits, Idle, Waiting, At
        <4>3. QED
          BY <4>1, <4>2
      <3>3. QED
        BY <3>1, <3>2
    <2>3. QED
      BY <1>5, <2>2, OneMoves
      DEF LoggedIn, managerVars, socketVars, IInv, TypeOK, OneReconnection
  <1>6. CASE Subscribe(p)
    <2>1. ~ At(p, "idle") /\ "rpcOn" \in Waiting
      BY <1>6 DEF Subscribe, At, Waiting
    <2>2. \E st \in State : Fits(p, st) /\ proc' = [proc EXCEPT ![p] = st]
      BY <1>6, <2>1, FetchFits DEF Subscribe
    <2>3. QED
      BY <1>6, <2>2, OneMoves
      DEF Subscribe, managerVars, socketVars, IInv, TypeOK, OneReconnection
  <1>7. CASE EndHandshake(p)
    BY <1>7, EndHandshakeStep
  <1>8. QED
    BY <1>1, <1>2, <1>3, <1>4, <1>5, <1>6, <1>7 DEF Handshake

LEMMA CallStep ==
    ASSUME IInv, NEW c \in Caller, Call(c) \/ Request(c) \/ EndCall(c) PROVE IInv'
  <1>1. c \in Process /\ c \notin Reconnector /\ UNCHANGED <<managerVars, socketVars>>
    BY SessionAssumption DEF Call, Request, EndCall, Process
  <1>2. \E st \in State : Fits(c, st) /\ proc' = [proc EXCEPT ![c] = st]
    <2>1. CASE Call(c)
      <3> DEFINE st == [proc[c] EXCEPT !.pc = "check"]
      <3>1. st \in State
        BY <1>1, EachFits DEF State, Place
      <3>2. Fits(c, st) /\ proc' = [proc EXCEPT ![c] = st]
        BY <1>1, <2>1, EachFits DEF Call, Fits, State, Waiting
      <3>3. QED
        BY <3>1, <3>2
    <2>2. CASE Request(c)
      <3>1. ~ At(c, "idle") /\ "answer" \in Waiting /\ Fetch(c, "answer")
        BY <2>2 DEF Request, At, Waiting
      <3>2. QED
        BY <1>1, <3>1, FetchFits
    <2>3. CASE EndCall(c)
      BY <1>1, <2>3, IdleIsState DEF EndCall, Fits, Idle, Waiting
    <2>4. QED
      BY <2>1, <2>2, <2>3
  <1>3. QED
    BY <1>1, <1>2, OneMoves DEF managerVars, socketVars, IInv, TypeOK, OneReconnection

LEMMA ReconnectStep ==
    ASSUME IInv, NEW r \in Reconnector, Wake(r) \/ EndAttempt(r) PROVE IInv'
  <1>1. r \in Process /\ r \notin Caller /\ UNCHANGED <<managerVars, socketVars>>
    BY SessionAssumption DEF Wake, EndAttempt, Process
  <1>2. ~ At(r, "idle")
    BY DEF Wake, EndAttempt, At
  <1>3. \E st \in State : Fits(r, st) /\ proc' = [proc EXCEPT ![r] = st]
    <2>1. Idle \in State /\ (r \in cancelled \/ authed => Fits(r, Idle))
      BY <1>1, IdleIsState, SessionAssumption DEF Fits, Idle, Waiting, IInv, OneReconnection, TypeOK
    <2>2. CASE Wake(r)
      <3> DEFINE st == [Idle EXCEPT !.pc = "check"]
      <3>1. st \in State /\ (r \notin cancelled => Fits(r, st))
        BY <1>1, <1>2, IdleAt, EachFits DEF Place, Fits, Idle, Waiting, At
      <3>2. QED
        BY <2>1, <2>2, <3>1 DEF Wake
    <2>3. CASE EndAttempt(r)
      BY <1>1, <1>2, <2>1, <2>3, FailureFits DEF EndAttempt
    <2>4. QED
      BY <2>2, <2>3
  <1>4. QED
    BY <1>1, <1>3, OneMoves DEF managerVars, socketVars, IInv, TypeOK, OneReconnection

\* A reconnection is scheduled where the manager knows of none: those at work
\* were all cancelled.
LEMMA NoticeStep == ASSUME IInv, HandleTransportDisconnected PROVE IInv'
  <1>1. notices' = notices - 1 /\ notices' \in 0 .. MaxSockets
    BY SessionAssumption DEF HandleTransportDisconnected, IInv, TypeOK
  <1>2. /\ authed' = FALSE /\ UNCHANGED <<task, opened, alive, loggedIn, callbacks>>
    BY DEF HandleTransportDisconnected
  <1>3. SocketsInv'
    BY <1>1, <1>2, SessionAssumption DEF SocketsInv, IInv, TypeOK
  <1>4. authed' \in BOOLEAN
    BY <1>2, Zenon
  <1>5. CASE UNCHANGED <<reconnectTask, cancelled, proc>>
    <2>1. TypeOK' /\ PlacesInv' /\ WaitsInv'
      BY <1>1, <1>2, <1>4, <1>5 DEF IInv, TypeOK, PlacesInv, WaitsInv
    <2>2. OneReconnection'
      BY <1>2, <1>5 DEF IInv, OneReconnection, At
    <2>3. QED
      BY <1>3, <2>1, <2>2 DEF IInv
  <1>6. ASSUME reconnectTask = None, NEW r \in Reconnector, At(r, "idle"),
               reconnectTask' = r, cancelled' = cancelled \ {r},
               proc' = [proc EXCEPT ![r].pc = "sleep"]
        PROVE  IInv'
    <2>1. r \in Process /\ r \notin Caller
      BY SessionAssumption DEF Process
    <2>2. /\ proc \in [Process -> State]
          /\ proc'[r] = [proc[r] EXCEPT !.pc = "sleep"]
          /\ \A q \in Process \ {r} : proc'[q] = proc[q]
      BY <1>6, <2>1 DEF IInv, TypeOK, State
    <2>3. proc' \in [Process -> State] /\ proc'[r].pc = "sleep"
      BY <1>6, <2>1, <2>2 DEF State, Place
    <2>4. TypeOK'
      BY <1>1, <1>2, <1>4, <1>6, <2>3 DEF IInv, TypeOK, State
    <2>5. PlacesInv' /\ WaitsInv'
      BY <1>2, <2>1, <2>2, <2>3 DEF IInv, PlacesInv, WaitsInv, Waiting
    <2>6. OneReconnection'
      BY <1>2, <1>6, <2>2, <2>3, SessionAssumption DEF IInv, OneReconnection, At, Process
    <2>7. QED
      BY <1>3, <2>4, <2>5, <2>6 DEF IInv
  <1>7. QED
    BY <1>5, <1>6 DEF HandleTransportDisconnected

-----------------------------------------------------------------------------
(* The steps of the websocket *)

LEMMA AnswerStep ==
    ASSUME IInv, NEW p \in Process, NEW reply \in {"true", "false", "error"}, Answer(p, reply)
    PROVE  IInv'
  <1> DEFINE st == [proc[p] EXCEPT !.reply = reply, !.socket = 0]
  <1>1. st \in State
    BY EachFits, NoSocket DEF State
  <1>2. Fits(p, st) /\ proc' = [proc EXCEPT ![p] = st]
    BY EachFits DEF Answer, Fits, State, IInv, TypeOK
  <1>3. loggedIn' \subseteq Socket
    BY DEF Answer, IInv, TypeOK
  <1>4. QED
    BY <1>1, <1>2, <1>3, OneMoves DEF Answer, managerVars, IInv, TypeOK, OneReconnection

LEMMA FailToSendStep == ASSUME IInv, NEW p \in Process, FailToSend(p) PROVE IInv'
  <1> DEFINE st == [proc[p] EXCEPT !.reply = "error", !.socket = 0]
  <1>1. st \in State
    BY EachFits, NoSocket DEF State
  <1>2. Fits(p, st) /\ proc' = [proc EXCEPT ![p] = st]
    BY EachFits DEF FailToSend, Fits, State, IInv, TypeOK
  <1>3. QED
    BY <1>1, <1>2, OneMoves
    DEF FailToSend, managerVars, socketVars, IInv, TypeOK, OneReconnection

LEMMA LoseSocketStep == ASSUME IInv, NEW s \in Socket, LoseSocket(s) PROVE IInv'
  <1>1. /\ alive' = alive \ {s} /\ s \in alive
        /\ callbacks' \in [Socket -> 0 .. 2]
        /\ \A x \in Socket \ {s} : callbacks'[x] = callbacks[x]
        /\ UNCHANGED <<proc, managerVars, task, opened, loggedIn, notices>>
    BY DEF LoseSocket, IInv, TypeOK
  <1>2. TypeOK'
    BY <1>1 DEF IInv, TypeOK, managerVars
  <1>3. SocketsInv'
    BY <1>1 DEF IInv, SocketsInv
  <1>4. PlacesInv' /\ WaitsInv' /\ OneReconnection'
    BY <1>1 DEF IInv, PlacesInv, WaitsInv, OneReconnection, At, managerVars
  <1>5. QED
    BY <1>2, <1>3, <1>4 DEF IInv

\* The first report of the current socket resumes everyone who waits.
LEMMA HandleDisconnectStep == ASSUME IInv, NEW s \in Socket, HandleDisconnect(s) PROVE IInv'
  <1>1. /\ callbacks' \in [Socket -> 0 .. 2] /\ callbacks[s] > 0
        /\ \A x \in Socket : callbacks'[x] > 0 => callbacks[x] > 0
        /\ UNCHANGED <<managerVars, opened, alive, loggedIn>>
    BY DEF HandleDisconnect, IInv, TypeOK
  <1>2. CASE task # s
    <2>1. UNCHANGED <<task, proc, notices>>
      BY <1>2 DEF HandleDisconnect
    <2>2. TypeOK' /\ SocketsInv'
      BY <1>1, <2>1 DEF IInv, TypeOK, SocketsInv, managerVars
    <2>3. PlacesInv' /\ WaitsInv' /\ OneReconnection'
      BY <1>1, <2>1 DEF IInv, PlacesInv, WaitsInv, OneReconnection, At, managerVars
    <2>4. QED
      BY <2>2, <2>3 DEF IInv
  <1>3. CASE task = s
    <2>1. task' = 0 /\ proc' = Interrupted /\ notices' = notices + 1
      BY <1>3 DEF HandleDisconnect
    <2>2. \A p \in Process :
             /\ proc'[p] \in State /\ proc'[p].pc = proc[p].pc
             /\ ~ (proc'[p].pc \in Waiting /\ proc'[p].reply = "none")
      BY <2>1, EachFits, NoSocket DEF Interrupted, State
    <2>3. proc' \in [Process -> State]
      BY <2>1, <2>2 DEF Interrupted
    <2>4. SocketsInv'
      BY <1>1, <1>3, <2>1, SessionAssumption DEF IInv, TypeOK, SocketsInv, Socket
    <2>5. notices' \in 0 .. MaxSockets
      BY <1>1, <2>1, <2>4, SessionAssumption DEF IInv, TypeOK, SocketsInv
    <2>6. TypeOK'
      BY <1>1, <2>1, <2>3, <2>5, SessionAssumption DEF IInv, TypeOK, State, managerVars
    <2>7. PlacesInv' /\ WaitsInv'
      BY <2>2 DEF IInv, PlacesInv, WaitsInv
    <2>8. OneReconnection'
      BY <1>1, <2>2 DEF IInv, OneReconnection, At, TypeOK, Process, managerVars
    <2>9. QED
      BY <2>4, <2>6, <2>7, <2>8 DEF IInv
  <1>4. QED
    BY <1>2, <1>3

LEMMA StutterStep == IInv /\ UNCHANGED vars => IInv'
  BY DEF vars, IInv, TypeOK, PlacesInv, WaitsInv, SocketsInv, OneReconnection, At

LEMMA NextInv == IInv /\ [Next]_vars => IInv'
  BY StutterStep, HandshakeStep, FailToSendStep, AnswerStep, CallStep, ReconnectStep, NoticeStep,
     LoseSocketStep, HandleDisconnectStep DEF Next

LEMMA Invariance == Spec => []IInv
  BY InitInv, NextInv, PTL DEF Spec

-----------------------------------------------------------------------------
\* Every variable keeps its type, whatever the bounds.
THEOREM TypeCorrect == Spec => []TypeOK
  <1>1. IInv => TypeOK
    BY DEF IInv
  <1>2. QED
    BY <1>1, Invariance, PTL

\* Nobody waits for an answer on a socket that was torn down, where nobody
\* would resume it.
THEOREM WaitersAreOnTheCurrentSocket == Spec => []WaitsOnTheCurrentSocket
  <1>1. IInv => WaitsOnTheCurrentSocket
    BY DEF IInv, WaitsInv, WaitsOnTheCurrentSocket
  <1>2. QED
    BY <1>1, Invariance, PTL

\* At most one reconnection is at work that was not cancelled, it is the one
\* the manager knows of, and none is beside a session in use.
THEOREM OneReconnectionAtWork == Spec => []OneReconnection
  <1>1. IInv => OneReconnection
    BY DEF IInv
  <1>2. QED
    BY <1>1, Invariance, PTL

\* A socket is torn down only by a report of its own loss, never by a late one
\* of a socket it replaced.
THEOREM LostSocketsAreTornDown == Spec => OnlyALostSocketIsTornDown
  <1>1. IInv /\ [Next]_vars => [task # 0 /\ task' = 0 => task \notin alive]_vars
    <2> SUFFICES ASSUME IInv, [Next]_vars, task # 0, task' = 0
                 PROVE  task \notin alive
      OBVIOUS
    <2>1. CASE UNCHANGED vars
      BY <2>1 DEF vars
    <2>2. ASSUME NEW s \in Socket, HandleDisconnect(s)
          PROVE  task \notin alive
      BY <2>2 DEF HandleDisconnect, IInv, SocketsInv
    <2>3. ASSUME NEW p \in Process, Connect(p)
          PROVE  task \notin alive
      BY <2>3 DEF Connect
    <2>4. QED
      BY <2>1, <2>2, <2>3
      DEF Next, Handshake, CheckAuthed, CheckConnected, ResetAuthed, LoggedIn, Subscribe,
          EndHandshake, FailToSend, Answer, Call, Request, EndCall, Wake, EndAttempt,
          HandleTransportDisconnected, LoseSocket, managerVars, socketVars
  <1>2. QED
    BY <1>1, Invariance, PTL DEF Spec, OnlyALostSocketIsTornDown

=============================================================================
